------------------------------ MODULE NetProofs ------------------------------
(***************************************************************************)
(* Proofs about the sockets and what lives on them, for any connections,   *)
(* sockets, endpoints and bounds: the ping of a location, the sockets and  *)
(* their timer, the SOCKS5 listener, the DNS resolver, the way through a   *)
(* DNS proxy and the two faces of the DNS handler.                         *)
(***************************************************************************)
EXTENDS Net, FiniteSets, Sequences, SequenceTheorems, TLAPS

-----------------------------------------------------------------------------
(* The pinger.                                                             *)

PingPlaces == {"pending", "inprogress", "done", "report", "reported"}
PingConn ==
    [at : PingPlaces, quic : BOOLEAN, wasQuic : BOOLEAN, pinned : BOOLEAN, relay : BOOLEAN,
     err : BOOLEAN, ok : BOOLEAN, rounds : Nat]

PingTyped == conn \in [Ping!Conns -> PingConn] /\ winner \in BOOLEAN

\* Until it has finished a ping has the end of a round, a preparation or the report before it.
PingGoesOn == phase = "pinging" /\ ~aborted => "prepare" \in tasks \/ "report" \in tasks \/ "round" \in timers

\* Once it reports nothing else of it is on its way, and then nothing at all.
PingReports ==
    /\ ~aborted /\ "report" \in tasks =>
         /\ timers = {} /\ "prepare" \notin tasks
         /\ \A c \in Ping!Conns : conn[c].at \in {"report", "reported"}
    /\ ~aborted /\ phase # "pinging" => tasks = {} /\ timers = {}

\* What is kept for an endpoint or was destroyed has been reported, and until the end nothing kept is destroyed.
PingKeeps ==
    /\ kept \in [Endpoints -> Ping!Conns \cup {NON}]
    /\ \A e \in Endpoints : kept[e] # NON => kept[e] \in Ping!Conns /\ kept[e][1] = e /\ conn[kept[e]].at = "reported"
    /\ freed \subseteq {c \in Ping!Conns : conn[c].at = "reported"}
    /\ phase = "pinging" => chosen = NON /\ \A e \in Endpoints : kept[e] # NON => kept[e] \notin freed
    /\ chosen # NON => chosen \notin freed

PingOK == PingTyped /\ PingGoesOn /\ PingReports /\ PingKeeps

LEMMA PingFields ==
  ASSUME NEW k \in PingConn
  PROVE  /\ k.at \in PingPlaces /\ k.quic \in BOOLEAN /\ k.wasQuic \in BOOLEAN /\ k.pinned \in BOOLEAN
         /\ k.relay \in BOOLEAN /\ k.err \in BOOLEAN /\ k.ok \in BOOLEAN /\ k.rounds \in Nat
BY Zenon DEF PingConn

\* The steps that leave what LocationsPinger keeps alone, and take no connection back that was reported.
LEMMA PingKeepsOn ==
  ASSUME PingKeeps, UNCHANGED Ping!Located, \A c \in Ping!Conns : conn[c].at = "reported" => conn'[c].at = "reported"
  PROVE  PingKeeps'
BY Zenon DEF PingKeeps, Ping!Located

LEMMA PingInitOK == Ping!Init => PingOK
<1> SUFFICES ASSUME Ping!Init PROVE PingOK
  OBVIOUS
<1>1. \A c \in Ping!Conns : Ping!NewConn(c) \in PingConn /\ Ping!NewConn(c).at = "pending"
  <2>1. 0 \in Nat /\ "pending" \in PingPlaces
    BY SMT DEF PingPlaces
  <2> QED BY <2>1, Zenon DEF Ping!NewConn, PingConn
<1>2. PingTyped
  BY <1>1, Zenon DEF Ping!Init, PingTyped
<1>3. PingGoesOn /\ PingReports
  BY SMT DEF Ping!Init, PingGoesOn, PingReports
<1>4. PingKeeps
  BY Zenon DEF Ping!Init, PingKeeps
<1> QED BY <1>2, <1>3, <1>4, Zenon DEF PingOK

LEMMA PingTimer ==
  ASSUME PingOK, ~aborted, Ping!OnTimer
  PROVE  PingOK'
<1> USE DEF Ping!OnTimer
<1>1. \A c \in Ping!Conns :
        /\ conn'[c] \in PingConn
        /\ conn[c].at \in {"report", "reported"} => conn'[c].at = conn[c].at
  <2> SUFFICES ASSUME NEW c \in Ping!Conns
               PROVE  /\ conn'[c] \in PingConn
                      /\ conn[c].at \in {"report", "reported"} => conn'[c].at = conn[c].at
    BY Zenon
  <2>1. conn[c] \in PingConn /\ winner \in BOOLEAN
    BY Zenon DEF PingOK, PingTyped
  <2>2. conn'[c] = IF conn[c].at \in {"pending", "inprogress"}
                   THEN [conn[c] EXCEPT !.at = "done", !.err = @ \/ ~winner] ELSE conn[c]
    BY Zenon DEF Ping!TimedOut
  <2>3. conn'[c] \in PingConn
    <3>1. (conn[c].err \/ ~winner) \in BOOLEAN /\ "done" \in PingPlaces
      BY Zenon DEF PingPlaces
    <3> QED BY <2>1, <2>2, <3>1, Zenon DEF PingConn
  <2>4. conn[c].at \in {"report", "reported"} => conn'[c] = conn[c]
    BY <2>2, SMT
  <2> QED BY <2>3, <2>4, Zenon
<1>2. PingTyped'
  <2>1. conn' = [c \in Ping!Conns |-> conn'[c]]
    BY Zenon DEF Ping!TimedOut
  <2> QED BY <1>1, <2>1, Zenon DEF PingOK, PingTyped
<1>3. PingGoesOn' /\ PingReports'
  <2>1. "report" \notin tasks
    BY Zenon DEF PingOK, PingReports
  <2>2. phase = "pinging"
    BY Zenon DEF PingOK, PingReports
  <2>3. "prepare" \in tasks' /\ "report" \notin tasks' /\ phase' = phase
    BY <2>1, SMT DEF Ping!Located
  <2> QED BY <2>2, <2>3, Zenon DEF PingGoesOn, PingReports
<1>4. PingKeeps'
  BY <1>1, PingKeepsOn, Zenon DEF PingOK
<1> QED BY <1>2, <1>3, <1>4, Zenon DEF PingOK

LEMMA PingShortcutTimer ==
  ASSUME PingOK, ~aborted, Ping!OnShortcutTimer
  PROVE  PingOK'
<1>1. /\ conn' = conn /\ winner' = winner /\ phase' = phase /\ UNCHANGED Ping!Located /\ aborted' = aborted
      /\ "shortcut" \in timers /\ timers' = timers \ {"shortcut"}
      /\ tasks' = tasks \/ tasks' = tasks \cup {"connectShortcut"}
  BY Zenon DEF Ping!OnShortcutTimer, Ping!Located
<1>2. "report" \notin tasks /\ phase = "pinging"
  BY <1>1, Zenon DEF PingOK, PingReports
<1>3. PingGoesOn' /\ PingReports'
  BY <1>1, <1>2, SMT DEF PingOK, PingGoesOn, PingReports
<1>4. PingTyped' /\ PingKeeps'
  BY <1>1, PingKeepsOn, Zenon DEF PingOK, PingTyped
<1> QED BY <1>3, <1>4, Zenon DEF PingOK

LEMMA PingConnects ==
  ASSUME PingOK, ~aborted, NEW c \in Ping!Conns, Ping!DoConnect(c)
  PROVE  PingOK'
<1>1. PICK ok \in BOOLEAN :
        LET more == Ping!At("pending") # {c}
            over == ~more /\ ~ok /\ Ping!At("inprogress") = {}
        IN  /\ conn' = [conn EXCEPT ![c].at = IF ok THEN "inprogress" ELSE "done", ![c].err = ~ok]
            /\ tasks' = (tasks \ (IF more THEN {} ELSE {"connect"})) \cup (IF over THEN {"prepare"} ELSE {})
            /\ timers' = IF over THEN timers \ {"round"} ELSE timers
  BY Zenon DEF Ping!DoConnect
<1>2. /\ conn[c].at = "pending" /\ winner' = winner /\ phase' = phase /\ UNCHANGED Ping!Located /\ aborted' = aborted
  BY Zenon DEF Ping!DoConnect, Ping!Located
<1>3. conn \in [Ping!Conns -> PingConn] /\ conn[c] \in PingConn
  BY Zenon DEF PingOK, PingTyped
<1>4. conn' \in [Ping!Conns -> PingConn] /\ \A d \in Ping!Conns : d # c => conn'[d] = conn[d]
  <2> DEFINE place == IF ok THEN "inprogress" ELSE "done"
             k == [conn[c] EXCEPT !.at = place, !.err = ~ok]
  <2>1. place \in PingPlaces /\ (~ok) \in BOOLEAN
    BY SMT DEF PingPlaces
  <2> HIDE DEF place
  <2>2. k \in PingConn
    BY <1>3, <2>1, Zenon DEF PingConn
  <2>3. conn' = [conn EXCEPT ![c] = k]
    BY <1>1, Zenon DEF place
  <2> QED BY <1>3, <2>2, <2>3, Zenon
<1>5. PingTyped'
  BY <1>2, <1>4, Zenon DEF PingOK, PingTyped
<1>6. "report" \notin tasks
  <2>1. conn[c].at \notin {"report", "reported"}
    BY <1>2, SMT
  <2> QED BY <2>1, Zenon DEF PingOK, PingReports
<1>7. /\ "report" \notin tasks' /\ ("prepare" \in tasks => "prepare" \in tasks')
      /\ "prepare" \in tasks' \/ ("round" \in timers => "round" \in timers')
  BY <1>1, <1>6, SMT
<1>8. phase = "pinging"
  BY Zenon DEF Ping!DoConnect, PingOK, PingReports
<1>9. PingGoesOn' /\ PingReports'
  BY <1>2, <1>6, <1>7, <1>8, Zenon DEF PingOK, PingGoesOn, PingReports
<1>10. PingKeeps'
  <2>1. conn[c].at # "reported"
    BY <1>2, SMT
  <2> QED BY <1>2, <1>4, <2>1, PingKeepsOn, Zenon DEF PingOK
<1> QED BY <1>5, <1>9, <1>10, Zenon DEF PingOK

LEMMA PingConnectsShortcut ==
  ASSUME PingOK, ~aborted, NEW c \in Ping!Conns, Ping!DoConnectShortcut(c)
  PROVE  PingOK'
<1>1. /\ conn' = conn /\ winner' = winner /\ phase' = phase /\ UNCHANGED Ping!Located /\ aborted' = aborted
      /\ timers' = timers /\ "connectShortcut" \in tasks
      /\ tasks' = tasks \/ tasks' = tasks \ {"connectShortcut"}
  BY Zenon DEF Ping!DoConnectShortcut, Ping!Located
<1>2. phase = "pinging"
  BY <1>1, Zenon DEF PingOK, PingReports
<1>3. PingGoesOn' /\ PingReports'
  BY <1>1, <1>2, SMT DEF PingOK, PingGoesOn, PingReports
<1>4. PingTyped' /\ PingKeeps'
  BY <1>1, PingKeepsOn, Zenon DEF PingOK, PingTyped
<1> QED BY <1>3, <1>4, Zenon DEF PingOK

LEMMA PingResult ==
  ASSUME PingOK, ~aborted, NEW c \in Ping!Conns, Ping!Result(c)
  PROVE  PingOK'
<1>1. PICK shortcut \in BOOLEAN, ok \in BOOLEAN : Ping!ProcessResult(c, shortcut, ok)
  BY Zenon DEF Ping!Result
<1>2. /\ phase = "pinging" /\ "report" \notin tasks
      /\ phase' = phase /\ UNCHANGED Ping!Located /\ aborted' = aborted
  BY <1>1, Zenon DEF Ping!Result, Ping!ProcessResult, Ping!Located
<1>3. conn \in [Ping!Conns -> PingConn] /\ conn[c] \in PingConn /\ winner \in BOOLEAN
  BY Zenon DEF PingOK, PingTyped
<1>4. winner' \in BOOLEAN
  <2>1. winner' = (winner \/ ok)
    BY <1>1, Zenon DEF Ping!ProcessResult
  <2> QED BY <2>1, Zenon
<1>5. /\ conn' \in [Ping!Conns -> PingConn]
      /\ \A d \in Ping!Conns : conn[d].at = "reported" => conn'[d].at = "reported"
  <2>1. CASE shortcut
    BY <1>1, <1>3, <2>1, Zenon DEF Ping!ProcessResult
  <2>2. CASE ~shortcut
    <3> DEFINE k == [conn[c] EXCEPT !.at = "done", !.ok = @ \/ ok, !.err = ~ok]
    <3>1. conn[c].at = "inprogress" /\ conn' = [conn EXCEPT ![c] = k]
      BY <1>1, <2>2, Zenon DEF Ping!ProcessResult
    <3>2. "done" \in PingPlaces /\ (~ok) \in BOOLEAN /\ (conn[c].ok \/ ok) \in BOOLEAN
      BY Zenon DEF PingPlaces
    <3>3. k \in PingConn
      BY <1>3, <3>2, Zenon DEF PingConn
    <3> HIDE DEF k
    <3>4. \A d \in Ping!Conns : d # c => conn'[d] = conn[d]
      BY <1>3, <3>1, Zenon
    <3>5. conn[c].at # "reported"
      BY <3>1, SMT
    <3> QED BY <1>3, <3>1, <3>3, <3>4, <3>5, Zenon
  <2> QED BY <2>1, <2>2, Zenon
<1>6. /\ "report" \notin tasks' /\ ("prepare" \in tasks => "prepare" \in tasks')
      /\ "prepare" \in tasks' \/ ("round" \in timers => "round" \in timers')
  <2> DEFINE others == {d \in Ping!Conns : conn[d].at \in {"pending", "inprogress"} /\ (shortcut \/ d # c)}
             otherSc == {d \in Ping!Conns : sc[d] \in {"pending", "inprogress"} /\ (~shortcut \/ d # c)}
             over == others = {} /\ otherSc = {}
  <2>1. /\ timers' = IF over THEN timers \ {"round"} ELSE IF winner' # winner THEN timers \cup {"round"} ELSE timers
        /\ tasks' = IF over THEN tasks \cup {"prepare"} ELSE tasks
    BY <1>1, Zenon DEF Ping!ProcessResult
  <2> HIDE DEF over
  <2> QED BY <1>2, <2>1, SMT
<1>7. PingTyped' /\ PingKeeps'
  BY <1>2, <1>4, <1>5, PingKeepsOn, Zenon DEF PingOK, PingTyped
<1>8. PingGoesOn' /\ PingReports'
  BY <1>2, <1>6, Zenon DEF PingOK, PingGoesOn, PingReports
<1> QED BY <1>7, <1>8, Zenon DEF PingOK

\* What do_prepare makes of a connection.
LEMMA PingNext ==
  ASSUME NEW k \in PingConn, NEW relay
  PROVE  /\ Ping!NextRound(k, relay) \in PingConn
         /\ k.at # "done" => Ping!NextRound(k, relay) = k
         /\ k.at = "done" => Ping!NextRound(k, relay).at \in {"pending", "report"}
<1>1. k.rounds + 1 \in Nat /\ {"pending", "report"} \subseteq PingPlaces
  BY PingFields, SMT DEF PingPlaces
<1> DEFINE tls == [k EXCEPT !.at = "pending", !.quic = FALSE, !.wasQuic = TRUE]
           old == IF k.pinned THEN k.quic ELSE k.wasQuic
           byRelay == [k EXCEPT !.at = "pending", !.relay = TRUE, !.quic = old]
           place == IF k.rounds + 1 = Rounds THEN "report" ELSE "pending"
           counted == [k EXCEPT !.rounds = @ + 1, !.at = place]
<1>2. old \in BOOLEAN
  BY PingFields, Zenon
<1>3. place \in {"pending", "report"}
  BY Zenon
<1> HIDE DEF old, place
<1>4. tls \in PingConn /\ tls.at = "pending"
  BY <1>1, Zenon DEF PingConn
<1>5. byRelay \in PingConn /\ byRelay.at = "pending"
  BY <1>1, <1>2, Zenon DEF PingConn
<1>6. counted \in PingConn /\ counted.at = place
  BY <1>1, <1>3, Zenon DEF PingConn
<1>7. \/ k.at # "done" /\ Ping!NextRound(k, relay) = k
      \/ k.at = "done" /\ Ping!NextRound(k, relay) = tls
      \/ k.at = "done" /\ Ping!NextRound(k, relay) = byRelay
      \/ k.at = "done" /\ Ping!NextRound(k, relay) = counted
  BY Zenon DEF Ping!NextRound, old, place
<1> HIDE DEF tls, byRelay, counted
<1> QED BY <1>3, <1>4, <1>5, <1>6, <1>7, Zenon

LEMMA PingAfterShortcuts ==
  ASSUME PingOK, NEW first
  PROVE  \A c \in Ping!Conns : /\ Ping!AfterShortcuts(first)[c] \in PingConn
                               /\ Ping!AfterShortcuts(first)[c].at = conn[c].at
<1> SUFFICES ASSUME NEW c \in Ping!Conns
             PROVE  Ping!AfterShortcuts(first)[c] \in PingConn /\ Ping!AfterShortcuts(first)[c].at = conn[c].at
  BY Zenon
<1>1. conn[c] \in PingConn
  BY Zenon DEF PingOK, PingTyped
<1> DEFINE k == [conn[c] EXCEPT !.ok = TRUE, !.err = FALSE, !.relay = TRUE, !.rounds = 0]
<1>2. 0 \in Nat
  BY SMT
<1>3. k \in PingConn /\ k.at = conn[c].at
  BY <1>1, <1>2, Zenon DEF PingConn
<1>4. Ping!AfterShortcuts(first)[c] = k \/ Ping!AfterShortcuts(first)[c] = conn[c]
  BY Zenon DEF Ping!AfterShortcuts
<1> HIDE DEF k
<1> QED BY <1>1, <1>3, <1>4, Zenon

LEMMA PingPrepares ==
  ASSUME PingOK, ~aborted, Ping!DoPrepare
  PROVE  PingOK'
<1>1. PICK first \in Ping!FirstDone :
    LET done == Ping!AfterShortcuts(first)
        hasDirect == direct \/ \E c \in Ping!Conns : done[c].at = "done" /\ done[c].ok /\ ~done[c].relay
        relay == ~hasDirect /\ relaysLeft > 0
        next == [c \in Ping!Conns |-> Ping!NextRound(done[c], relay)]
        some == \E c \in Ping!Conns : Ping!Replaced(c, first) \/ (relay /\ Ping!RelayFallback(done[c]))
        waiting == {c \in Ping!Conns : next[c].at = "pending"}
    IN
    /\ "prepare" \in tasks
    /\ aborted' = (Ping!At("inprogress") # {} \/ Ping!Sc("inprogress") # {})
    /\ \E bad \in SUBSET waiting, e \in BOOLEAN :
          /\ conn' = [c \in Ping!Conns |-> IF c \in bad THEN [next[c] EXCEPT !.at = "done", !.err = e]
                                      ELSE IF c \in waiting THEN [next[c] EXCEPT !.err = FALSE] ELSE next[c]]
          /\ tasks' = (tasks \ {"prepare"}) \cup
                      (IF waiting = {} THEN {"report"} ELSE IF bad = waiting THEN {"prepare"} ELSE {"connect"})
          /\ timers' = IF waiting = {} THEN {}
                       ELSE (IF some THEN timers \ {"shortcut"} ELSE timers) \cup (IF bad = waiting THEN {} ELSE {"round"})
    /\ winner' = (winner /\ waiting = {})
    /\ UNCHANGED Ping!Located
  BY Zenon DEF Ping!DoPrepare
<1> DEFINE done == Ping!AfterShortcuts(first)
           hasDirect == direct \/ \E c \in Ping!Conns : done[c].at = "done" /\ done[c].ok /\ ~done[c].relay
           relay == ~hasDirect /\ relaysLeft > 0
           next == [c \in Ping!Conns |-> Ping!NextRound(done[c], relay)]
           some == \E c \in Ping!Conns : Ping!Replaced(c, first) \/ (relay /\ Ping!RelayFallback(done[c]))
           waiting == {c \in Ping!Conns : next[c].at = "pending"}
<1>2. PICK bad \in SUBSET waiting, e \in BOOLEAN :
          /\ conn' = [c \in Ping!Conns |-> IF c \in bad THEN [next[c] EXCEPT !.at = "done", !.err = e]
                                      ELSE IF c \in waiting THEN [next[c] EXCEPT !.err = FALSE] ELSE next[c]]
          /\ tasks' = (tasks \ {"prepare"}) \cup
                      (IF waiting = {} THEN {"report"} ELSE IF bad = waiting THEN {"prepare"} ELSE {"connect"})
          /\ timers' = IF waiting = {} THEN {}
                       ELSE (IF some THEN timers \ {"shortcut"} ELSE timers) \cup (IF bad = waiting THEN {} ELSE {"round"})
  BY <1>1, Zenon
<1>3. /\ "prepare" \in tasks /\ aborted' = (Ping!At("inprogress") # {} \/ Ping!Sc("inprogress") # {})
      /\ winner' = (winner /\ waiting = {}) /\ UNCHANGED Ping!Located /\ phase' = phase
  BY <1>1, Zenon DEF Ping!Located
<1>4. \A c \in Ping!Conns :
        /\ next[c] \in PingConn
        /\ conn[c].at # "done" => next[c].at = conn[c].at
        /\ conn[c].at = "done" => next[c].at \in {"pending", "report"}
  <2> SUFFICES ASSUME NEW c \in Ping!Conns
               PROVE  /\ next[c] \in PingConn
                      /\ conn[c].at # "done" => next[c].at = conn[c].at
                      /\ conn[c].at = "done" => next[c].at \in {"pending", "report"}
    BY Zenon
  <2>1. done[c] \in PingConn /\ done[c].at = conn[c].at
    BY PingAfterShortcuts, Zenon
  <2>2. next[c] = Ping!NextRound(done[c], relay)
    BY Zenon
  <2> HIDE DEF done, relay, next
  <2>3. /\ Ping!NextRound(done[c], relay) \in PingConn
        /\ done[c].at # "done" => Ping!NextRound(done[c], relay) = done[c]
        /\ done[c].at = "done" => Ping!NextRound(done[c], relay).at \in {"pending", "report"}
    BY <2>1, PingNext, Zenon
  <2> QED BY <2>1, <2>2, <2>3, Zenon
<1> HIDE DEF done, hasDirect, relay, next, some
<1>5. \A c \in Ping!Conns : /\ conn'[c] \in PingConn
                            /\ next[c].at # "pending" => conn'[c] = next[c]
  <2> SUFFICES ASSUME NEW c \in Ping!Conns
               PROVE  conn'[c] \in PingConn /\ (next[c].at # "pending" => conn'[c] = next[c])
    BY Zenon
  <2> DEFINE failed == [next[c] EXCEPT !.at = "done", !.err = e]
             fresh == [next[c] EXCEPT !.err = FALSE]
  <2>1. next[c] \in PingConn /\ "done" \in PingPlaces
    BY <1>4, Zenon DEF PingPlaces
  <2>2. failed \in PingConn /\ fresh \in PingConn
    BY <2>1, Zenon DEF PingConn
  <2>3. conn'[c] = IF c \in bad THEN failed ELSE IF c \in waiting THEN fresh ELSE next[c]
    BY <1>2, Zenon
  <2>4. c \in waiting <=> next[c].at = "pending"
    BY Zenon
  <2>5. c \in bad => c \in waiting
    BY Zenon
  <2> HIDE DEF failed, fresh, waiting
  <2> QED BY <2>1, <2>2, <2>3, <2>4, <2>5, Zenon
<1>6. PingTyped'
  <2>1. conn' = [c \in Ping!Conns |-> conn'[c]]
    BY <1>2, Zenon
  <2>2. winner' \in BOOLEAN
    BY <1>3, Zenon
  <2> QED BY <1>5, <2>1, <2>2, Zenon DEF PingTyped
<1>7. PingKeeps'
  <2>1. \A c \in Ping!Conns : conn[c].at = "reported" => conn'[c].at = "reported"
    <3> SUFFICES ASSUME NEW c \in Ping!Conns, conn[c].at = "reported" PROVE conn'[c].at = "reported"
      BY Zenon
    <3>1. conn[c].at # "done" /\ conn[c].at # "pending"
      BY SMT
    <3> QED BY <1>4, <1>5, <3>1, Zenon
  <2> QED BY <1>3, <2>1, PingKeepsOn, Zenon DEF PingOK
<1>8. phase = "pinging" /\ "report" \notin tasks
  BY <1>3, Zenon DEF PingOK, PingReports
<1>9. \/ waiting = {} /\ tasks' = (tasks \ {"prepare"}) \cup {"report"} /\ timers' = {}
      \/ waiting # {} /\ tasks' = (tasks \ {"prepare"}) \cup {"prepare"}
      \/ waiting # {} /\ tasks' = (tasks \ {"prepare"}) \cup {"connect"} /\ "round" \in timers'
  <2> HIDE DEF waiting
  <2>1. CASE waiting = {}
    BY <1>2, <2>1, Zenon
  <2>2. CASE waiting # {} /\ bad = waiting
    BY <1>2, <2>2, Zenon
  <2>3. CASE waiting # {} /\ bad # waiting
    BY <1>2, <2>3, Zenon
  <2> QED BY <2>1, <2>2, <2>3, Zenon
<1>10. PingGoesOn'
  <2> HIDE DEF waiting
  <2>1. "prepare" \in tasks' \/ "report" \in tasks' \/ "round" \in timers'
    BY <1>9, SMT
  <2> QED BY <2>1, Zenon DEF PingGoesOn
<1>11. PingReports'
  <2>1. ASSUME "report" \in tasks' PROVE timers' = {} /\ "prepare" \notin tasks' /\ waiting = {}
    <3> HIDE DEF waiting
    <3> QED BY <1>8, <1>9, <2>1, SMT
  <2>2. ASSUME ~aborted', waiting = {}, NEW c \in Ping!Conns PROVE conn'[c].at \in {"report", "reported"}
    <3>1. conn[c].at # "inprogress"
      BY <1>3, <2>2, Zenon DEF Ping!At
    <3>2. next[c].at # "pending"
      BY <2>2, Zenon
    <3>3. conn[c].at \in PingPlaces
      BY PingFields, Zenon DEF PingOK, PingTyped
    <3>4. conn'[c].at = next[c].at
      BY <1>5, <3>2, Zenon
    <3>5. /\ conn[c].at # "done" => next[c].at = conn[c].at
          /\ conn[c].at = "done" => next[c].at \in {"pending", "report"}
      BY <1>4, Zenon
    <3> QED BY <3>1, <3>2, <3>3, <3>4, <3>5, SMT DEF PingPlaces
  <2> QED BY <1>3, <1>8, <2>1, <2>2, Zenon DEF PingReports
<1> QED BY <1>6, <1>7, <1>10, <1>11, Zenon DEF PingOK

LEMMA PingReported ==
  ASSUME PingOK, ~aborted, NEW c \in Ping!Conns, Ping!DoReport(c)
  PROVE  PingOK'
<1>1. /\ "report" \in tasks /\ conn[c].at = "report" /\ conn' = [conn EXCEPT ![c].at = "reported"]
      /\ tasks' = tasks /\ timers' = timers /\ winner' = winner /\ phase' = phase /\ aborted' = aborted
      /\ chosen' = chosen
      /\ \/ kept' = [kept EXCEPT ![c[1]] = c] /\ freed' = freed /\ kept[c[1]] = NON
         \/ kept' = [kept EXCEPT ![c[1]] = c] /\ freed' = freed \cup {kept[c[1]]} /\ kept[c[1]] # NON
         \/ kept' = kept /\ freed' = freed
  BY Zenon DEF Ping!DoReport, Ping!PingOk
<1>2. conn \in [Ping!Conns -> PingConn] /\ conn[c] \in PingConn
  BY Zenon DEF PingOK, PingTyped
<1>3. /\ conn' \in [Ping!Conns -> PingConn] /\ conn'[c].at = "reported"
      /\ \A d \in Ping!Conns : d # c => conn'[d] = conn[d]
  <2>1. "reported" \in PingPlaces
    BY Zenon DEF PingPlaces
  <2> DEFINE k == [conn[c] EXCEPT !.at = "reported"]
  <2>2. k \in PingConn /\ k.at = "reported"
    BY <1>2, <2>1, Zenon DEF PingConn
  <2>3. conn' = [conn EXCEPT ![c] = k]
    BY <1>1, Zenon
  <2> HIDE DEF k
  <2> QED BY <1>2, <2>2, <2>3, Zenon
<1>4. PingTyped' /\ PingGoesOn'
  BY <1>1, <1>3, Zenon DEF PingOK, PingTyped, PingGoesOn
<1>5. PingReports'
  BY <1>1, <1>3, Zenon DEF PingOK, PingReports
<1>6. phase = "pinging" /\ chosen = NON
  BY <1>1, Zenon DEF PingOK, PingReports, PingKeeps
<1>7. c[1] \in Endpoints
  BY Zenon DEF Ping!Conns
<1>8. conn[c].at # "reported" /\ \A d \in Ping!Conns : conn[d].at = "reported" => d # c /\ conn'[d].at = "reported"
  <2>1. conn[c].at # "reported"
    BY <1>1, SMT
  <2> QED BY <1>3, <2>1, Zenon
<1>9. /\ kept \in [Endpoints -> Ping!Conns \cup {NON}]
      /\ \A e \in Endpoints : kept[e] # NON => /\ kept[e] \in Ping!Conns /\ kept[e][1] = e
                                               /\ conn[kept[e]].at = "reported" /\ kept[e] \notin freed
      /\ freed \subseteq {d \in Ping!Conns : conn[d].at = "reported"}
  BY <1>6, Zenon DEF PingOK, PingKeeps
<1>10. c \notin freed /\ \A e \in Endpoints : kept[e] # NON => kept[e] # c
  BY <1>8, <1>9, Zenon
<1>11. freed' \subseteq {d \in Ping!Conns : conn'[d].at = "reported"}
  <2>1. freed \subseteq {d \in Ping!Conns : conn'[d].at = "reported"}
    BY <1>8, <1>9, Zenon
  <2>2. kept[c[1]] # NON => kept[c[1]] \in {d \in Ping!Conns : conn'[d].at = "reported"}
    BY <1>7, <1>8, <1>9, Zenon
  <2> QED BY <1>1, <2>1, <2>2, Zenon
<1>12. kept' \in [Endpoints -> Ping!Conns \cup {NON}]
  BY <1>1, <1>7, <1>9, Zenon
<1>13. \A e \in Endpoints : kept'[e] # NON => /\ kept'[e] \in Ping!Conns /\ kept'[e][1] = e
                                              /\ conn'[kept'[e]].at = "reported" /\ kept'[e] \notin freed'
  <2> SUFFICES ASSUME NEW e \in Endpoints, kept'[e] # NON
               PROVE  /\ kept'[e] \in Ping!Conns /\ kept'[e][1] = e
                      /\ conn'[kept'[e]].at = "reported" /\ kept'[e] \notin freed'
    BY Zenon
  <2>1. freed' = freed \/ (freed' = freed \cup {kept[c[1]]} /\ kept[c[1]] # NON /\ kept'[c[1]] = c)
    BY <1>1, <1>7, <1>9, Zenon
  <2>2. CASE kept'[e] = c /\ e = c[1]
    BY <1>3, <1>7, <1>10, <2>1, <2>2, Zenon
  <2>3. CASE kept'[e] = kept[e] /\ (e # c[1] \/ freed' = freed)
    <3>1. kept[e] \in Ping!Conns /\ kept[e][1] = e /\ kept[e] \notin freed /\ conn'[kept[e]].at = "reported"
      BY <1>8, <1>9, <2>3, Zenon
    <3>2. kept[c[1]] # NON /\ e # c[1] => kept[c[1]] # kept[e]
      BY <1>7, <1>9, <3>1, Zenon
    <3> QED BY <2>1, <2>3, <3>1, <3>2, Zenon
  <2>4. \/ kept'[e] = c /\ e = c[1]
        \/ kept'[e] = kept[e] /\ (e # c[1] \/ freed' = freed)
    <3>1. CASE kept' = kept /\ freed' = freed
      BY <3>1, Zenon
    <3>2. CASE kept' = [kept EXCEPT ![c[1]] = c]
      BY <1>7, <1>9, <3>2, Zenon
    <3> QED BY <1>1, <3>1, <3>2, Zenon
  <2> QED BY <2>2, <2>3, <2>4, Zenon
<1>14. PingKeeps'
  BY <1>1, <1>6, <1>11, <1>12, <1>13, Zenon DEF PingKeeps
<1> QED BY <1>4, <1>5, <1>14, Zenon DEF PingOK

LEMMA PingFinishes ==
  ASSUME PingOK, ~aborted, Ping!Finish
  PROVE  PingOK'
<1> DEFINE found == {kept[e] : e \in Endpoints} \ {NON}
<1>1. /\ "report" \in tasks /\ tasks' = {} /\ phase' = "finished" /\ conn' = conn /\ timers' = timers
      /\ winner' = winner /\ aborted' = aborted /\ kept' = kept
      /\ \/ freed' = freed /\ chosen' = chosen
         \/ \E c \in found : chosen' = c /\ freed' = freed \cup (found \ {c})
  BY Zenon DEF Ping!Finish
<1>2. timers = {} /\ phase = "pinging"
  BY <1>1, Zenon DEF PingOK, PingReports
<1>3. PingTyped'
  BY <1>1, Zenon DEF PingOK, PingTyped
<1>4. PingGoesOn' /\ PingReports'
  <2>1. "finished" # "pinging"
    BY SMT
  <2> QED BY <1>1, <1>2, <2>1, Zenon DEF PingGoesOn, PingReports
<1>5. \A c \in found : c \in Ping!Conns /\ conn[c].at = "reported" /\ c # NON /\ c \notin freed
  <2>1. \A e \in Endpoints : kept[e] # NON => /\ kept[e] \in Ping!Conns /\ conn[kept[e]].at = "reported"
                                              /\ kept[e] \notin freed
    BY <1>2, Zenon DEF PingOK, PingKeeps
  <2> SUFFICES ASSUME NEW c \in found
               PROVE  c \in Ping!Conns /\ conn[c].at = "reported" /\ c # NON /\ c \notin freed
    BY Zenon
  <2>2. PICK e \in Endpoints : c = kept[e] /\ kept[e] # NON
    BY Zenon
  <2> QED BY <2>1, <2>2, Zenon
<1>6. freed' \subseteq {c \in Ping!Conns : conn'[c].at = "reported"} /\ (chosen' # NON => chosen' \notin freed')
  <2>1. freed \subseteq {c \in Ping!Conns : conn[c].at = "reported"} /\ chosen = NON
    BY <1>2, Zenon DEF PingOK, PingKeeps
  <2> HIDE DEF found
  <2> QED BY <1>1, <1>5, <2>1, Zenon
<1>7. PingKeeps'
  <2>1. phase' # "pinging"
    BY <1>1, SMT
  <2> QED BY <1>1, <1>6, <2>1, Zenon DEF PingOK, PingKeeps
<1> QED BY <1>3, <1>4, <1>7, Zenon DEF PingOK

LEMMA PingStops ==
  ASSUME PingOK, ~aborted, Ping!Stop
  PROVE  PingOK'
<1>1. /\ phase' = "destroyed" /\ "destroyed" # "pinging" /\ tasks' = {} /\ timers' = {} /\ conn' = conn
      /\ winner' = winner /\ kept' = kept /\ freed' = freed /\ chosen' = chosen /\ aborted' = aborted
  BY Zenon DEF Ping!Stop
<1> QED BY <1>1, Zenon DEF PingOK, PingTyped, PingGoesOn, PingReports, PingKeeps

LEMMA PingStep ==
  ASSUME PingOK, [Ping!Next]_(Ping!pingVars)
  PROVE  PingOK'
<1>1. CASE Ping!Next
  <2>1. ~aborted
    BY <1>1, Zenon DEF Ping!Next
  <2>2. ASSUME NEW c \in Ping!Conns,
               Ping!DoConnect(c) \/ Ping!DoConnectShortcut(c) \/ Ping!Result(c) \/ Ping!DoReport(c)
        PROVE  PingOK'
    BY <2>1, <2>2, PingConnects, PingConnectsShortcut, PingResult, PingReported, Zenon
  <2> QED BY <1>1, <2>1, <2>2, PingTimer, PingShortcutTimer, PingPrepares, PingFinishes, PingStops, Zenon DEF Ping!Next
<1>2. CASE UNCHANGED Ping!pingVars
  BY <1>2, Zenon DEF Ping!pingVars, PingOK, PingTyped, PingGoesOn, PingReports, PingKeeps
<1> QED BY <1>1, <1>2, Zenon

\* A ping always goes on until it has finished, whatever the order of its results, timers, fall-backs and
\* shortcuts, and the connection that it hands over is one that nothing has destroyed
\* (on_timer, do_connect, conn_process_result and do_prepare; process_ping_result and finalize_location).
THEOREM PingGoesToItsEnd == Ping!Spec => []PingSettles
<1>1. PingOK /\ [Ping!Next]_(Ping!pingVars) => PingOK'
  BY PingStep
<1>2. PingOK => PingSettles
  BY Zenon DEF PingOK, PingGoesOn, PingKeeps, PingSettles, Ping!PingDriven, Ping!HandoffAlive
<1> QED BY <1>1, <1>2, PingInitOK, PTL DEF Ping!Spec

-----------------------------------------------------------------------------
(* The sockets.                                                            *)

SocketStages == {"none", "created", "connecting", "tls", "paused", "open", "closed"}

\* A socket with its descriptor in F.
Socket(F) ==
    [stage : SocketStages, fd : F, reads : BOOLEAN, task : BOOLEAN, cb : BOOLEAN, raw : Nat, ssl : Nat,
     eof : BOOLEAN, left : BOOLEAN, out : BOOLEAN, pause : BOOLEAN, mgr : BOOLEAN, timed : BOOLEAN,
     sub : Nat \cup {NON}]
SocketTimer == [subs : SUBSET (Nat \X (Sock!Socks \cup {"linger"})), next : Nat]

\* A socket that is not connected has read nothing, and what one has read is offered.
Offers(k) ==
    /\ k.stage \in {"none", "created", "connecting"} => ~k.reads /\ k.raw = 0 /\ k.ssl = 0
    /\ k.stage = "open" /\ k.reads /\ k.ssl + k.raw > 0 => k.cb \/ k.task \/ k.left

\* The socket k has the number id of its subscription.
Subscribed(k, id) == k.stage \notin {"none", "closed"} /\ k.mgr /\ k.sub = id

SocketsOK ==
    /\ \E F : sk \in [Sock!Socks -> Socket(F)]
    /\ tm \in SocketTimer /\ lingerId \in Nat \cup {NON}
    /\ \A s \in Sock!Socks : Offers(sk[s])
    /\ \A x \in tm.subs : IF x[2] = "linger" THEN lingerId = x[1] ELSE Subscribed(sk[x[2]], x[1])

LEMMA SocketFields ==
  ASSUME NEW F, NEW k \in Socket(F)
  PROVE  /\ k.stage \in SocketStages /\ k.fd \in F /\ k.reads \in BOOLEAN /\ k.task \in BOOLEAN /\ k.cb \in BOOLEAN
         /\ k.raw \in Nat /\ k.ssl \in Nat /\ k.eof \in BOOLEAN /\ k.left \in BOOLEAN /\ k.out \in BOOLEAN
         /\ k.pause \in BOOLEAN /\ k.mgr \in BOOLEAN /\ k.timed \in BOOLEAN /\ k.sub \in Nat \cup {NON}
BY Zenon DEF Socket

LEMMA TimerFields ==
  ASSUME NEW t \in SocketTimer
  PROVE  /\ t.subs \subseteq Nat \X (Sock!Socks \cup {"linger"}) /\ t.next \in Nat
         /\ \A x \in t.subs : x[1] \in Nat /\ x[1] # NON /\ x[2] \in Sock!Socks \cup {"linger"}
<1>1. t.subs \subseteq Nat \X (Sock!Socks \cup {"linger"}) /\ t.next \in Nat
  BY Zenon DEF SocketTimer
<1> QED BY <1>1, NetAssumption, Zenon

\* socket_manager_timer_unsubscribe leaves a part of the subscriptions, without the number it was called with.
LEMMA Unsubscribed ==
  ASSUME NEW t \in SocketTimer, NEW id
  PROVE  /\ Sock!Unsubscribe(t, id) \in SocketTimer
         /\ \A x \in Sock!Unsubscribe(t, id).subs : x \in t.subs /\ (id # NON => x[1] # id)
<1> DEFINE rest == {x \in t.subs : x[1] # id}
           cutDown == [t EXCEPT !.subs = rest]
<1>1. Sock!NoTimer \in SocketTimer /\ Sock!NoTimer.subs = {}
  <2>1. 0 \in Nat
    BY SMT
  <2> QED BY <2>1, Zenon DEF Sock!NoTimer, SocketTimer
<1>2. cutDown \in SocketTimer /\ cutDown.subs = rest
  BY TimerFields, Zenon DEF SocketTimer
<1>3. \/ Sock!Unsubscribe(t, id) = t /\ (id = NON \/ t.subs = {})
      \/ Sock!Unsubscribe(t, id) = Sock!NoTimer
      \/ Sock!Unsubscribe(t, id) = cutDown
  BY Zenon DEF Sock!Unsubscribe
<1>4. \A x \in rest : x \in t.subs /\ x[1] # id
  BY Zenon
<1> HIDE DEF rest, cutDown
<1> QED BY <1>1, <1>2, <1>3, <1>4, Zenon

LEMMA SubscribedTimer ==
  ASSUME NEW t \in SocketTimer, NEW who \in Sock!Socks \cup {"linger"}
  PROVE  /\ Sock!Subscribe(t, who) \in SocketTimer
         /\ \A x \in Sock!Subscribe(t, who).subs : x \in t.subs \/ (x[1] = t.next /\ x[2] = who)
<1>1. t.next \in Nat /\ t.next + 1 \in Nat
  BY TimerFields, SMT
<1>2. t.subs \cup {<<t.next, who>>} \in SUBSET (Nat \X (Sock!Socks \cup {"linger"}))
  <2>1. <<t.next, who>> \in Nat \X (Sock!Socks \cup {"linger"})
    BY <1>1, SMT
  <2>2. t.subs \subseteq Nat \X (Sock!Socks \cup {"linger"})
    BY TimerFields, Zenon
  <2> QED BY <2>1, <2>2, Zenon
<1>3. Sock!Subscribe(t, who) \in SocketTimer
  BY <1>1, <1>2, Zenon DEF Sock!Subscribe, SocketTimer
<1>4. Sock!Subscribe(t, who).subs = t.subs \cup {<<t.next, who>>}
  BY Zenon DEF Sock!Subscribe
<1>5. \A x \in {<<t.next, who>>} : x[1] = t.next /\ x[2] = who
  BY SMT
<1> QED BY <1>3, <1>4, <1>5, Zenon

\* One socket has changed; the subscriptions left are those of others, or its own one that it knows.
LEMMA SocketChanged ==
  ASSUME SocketsOK, NEW F, sk \in [Sock!Socks -> Socket(F)], NEW s \in Sock!Socks, NEW k \in Socket(F), Offers(k),
         sk' = [sk EXCEPT ![s] = k], tm' \in SocketTimer, lingerId' = lingerId,
         \A x \in tm'.subs : (x \in tm.subs /\ x[2] # s) \/ (x[2] = s /\ Subscribed(k, x[1]))
  PROVE  SocketsOK'
<1>1. sk' \in [Sock!Socks -> Socket(F)]
  BY Zenon
<1>2. sk'[s] = k /\ \A r \in Sock!Socks : r # s => sk'[r] = sk[r]
  BY Zenon
<1>3. \A r \in Sock!Socks : Offers(sk'[r])
  BY <1>2, Zenon DEF SocketsOK
<1>4. \A x \in tm'.subs : IF x[2] = "linger" THEN lingerId' = x[1] ELSE Subscribed(sk'[x[2]], x[1])
  <2> SUFFICES ASSUME NEW x \in tm'.subs
               PROVE  IF x[2] = "linger" THEN lingerId' = x[1] ELSE Subscribed(sk'[x[2]], x[1])
    BY Zenon
  <2>1. s # "linger" /\ x[2] \in Sock!Socks \cup {"linger"}
    BY TimerFields, NetAssumption, Zenon DEF Sock!Socks
  <2>2. CASE x[2] = s /\ Subscribed(k, x[1])
    BY <1>2, <2>1, <2>2, Zenon
  <2>3. CASE x \in tm.subs /\ x[2] # s
    BY <1>2, <2>1, <2>3, Zenon DEF SocketsOK
  <2> QED BY <2>2, <2>3, Zenon
<1> QED BY <1>1, <1>3, <1>4, Zenon DEF SocketsOK

LEMMA SubKept ==
  ASSUME NEW F, NEW k \in Socket(F), NEW n \in Nat
  PROVE  /\ [k EXCEPT !.sub = n] \in Socket(F) /\ [k EXCEPT !.sub = n].sub = n
         /\ [k EXCEPT !.sub = n].stage = k.stage /\ [k EXCEPT !.sub = n].mgr = k.mgr
         /\ Offers(k) => Offers([k EXCEPT !.sub = n])
<1> DEFINE j == [k EXCEPT !.sub = n]
<1>1. /\ j \in Socket(F) /\ j.sub = n /\ j.stage = k.stage /\ j.mgr = k.mgr /\ j.reads = k.reads /\ j.raw = k.raw
      /\ j.ssl = k.ssl /\ j.cb = k.cb /\ j.task = k.task /\ j.left = k.left
  BY Zenon DEF Socket
<1> HIDE DEF j
<1>2. Offers(k) => Offers(j)
  BY <1>1, Zenon DEF Offers
<1> QED BY <1>1, <1>2, Zenon DEF j

\* tcp_socket_update_timeout: the subscription of the socket, if it has one, is the one it knows.
LEMMA TimeoutUpdated ==
  ASSUME SocketsOK, NEW F, sk \in [Sock!Socks -> Socket(F)], NEW s \in Sock!Socks, NEW k \in Socket(F), Offers(k),
         k.stage \notin {"none", "closed"}, Sock!UpdateTimeout(s, k), lingerId' = lingerId,
         \A x \in tm.subs : x[2] = s => k.mgr /\ k.sub = x[1]
  PROVE  SocketsOK'
<1> DEFINE t == Sock!Unsubscribe(tm, k.sub)
           j == [k EXCEPT !.sub = t.next]
<1>1. tm \in SocketTimer
  BY Zenon DEF SocketsOK
<1>2. t \in SocketTimer /\ \A x \in t.subs : x \in tm.subs /\ (k.sub # NON => x[1] # k.sub)
  BY <1>1, Unsubscribed, Zenon
<1>3. \A x \in t.subs : x \in tm.subs /\ x[2] # s
  BY <1>1, <1>2, TimerFields, Zenon
<1>4. t.next \in Nat
  BY <1>2, TimerFields, Zenon
<1>5. CASE ~k.mgr /\ sk' = [sk EXCEPT ![s] = k] /\ tm' = tm
  <2>1. \A x \in tm'.subs : x \in tm.subs /\ x[2] # s
    BY <1>5, Zenon
  <2> QED BY <1>1, <1>5, <2>1, SocketChanged, Zenon
<1>6. CASE k.mgr /\ sk' = [sk EXCEPT ![s] = j] /\ tm' = Sock!Subscribe(t, s)
  <2>1. j \in Socket(F) /\ Offers(j) /\ j.sub = t.next /\ j.stage = k.stage /\ j.mgr = k.mgr
    <3> HIDE DEF t
    <3>1. k \in Socket(F) /\ Offers(k) /\ t.next \in Nat
      BY <1>4, Zenon
    <3>2. [k EXCEPT !.sub = t.next] \in Socket(F) /\ [k EXCEPT !.sub = t.next].sub = t.next
      BY ONLY <3>1, SubKept, Zenon
    <3>3. [k EXCEPT !.sub = t.next].stage = k.stage /\ [k EXCEPT !.sub = t.next].mgr = k.mgr
      BY ONLY <3>1, SubKept, Zenon
    <3>4. Offers([k EXCEPT !.sub = t.next])
      BY ONLY <3>1, SubKept, Zenon
    <3> QED BY <3>2, <3>3, <3>4, Zenon
  <2>2. tm' \in SocketTimer /\ \A x \in tm'.subs : x \in t.subs \/ (x[1] = t.next /\ x[2] = s)
    <3>1. s \in Sock!Socks \cup {"linger"}
      BY Zenon
    <3> HIDE DEF t, j
    <3>2. /\ Sock!Subscribe(t, s) \in SocketTimer
          /\ \A x \in Sock!Subscribe(t, s).subs : x \in t.subs \/ (x[1] = t.next /\ x[2] = s)
      BY <1>2, <3>1, SubscribedTimer, Zenon
    <3> QED BY <1>6, <3>2, Zenon
  <2>3. \A x \in tm'.subs : (x \in tm.subs /\ x[2] # s) \/ (x[2] = s /\ Subscribed(j, x[1]))
    BY <1>3, <1>6, <2>1, <2>2, Zenon DEF Subscribed
  <2>4. sk' = [sk EXCEPT ![s] = j]
    BY <1>6, Zenon
  <2> HIDE DEF j
  <2> QED BY <2>1, <2>2, <2>3, <2>4, SocketChanged, Zenon
<1>7. CASE sk' = [sk EXCEPT ![s] = k] /\ tm' = t
  <2>1. \A x \in tm'.subs : x \in tm.subs /\ x[2] # s
    BY <1>3, <1>7, Zenon
  <2>2. tm' \in SocketTimer
    BY <1>2, <1>7, Zenon
  <2> QED BY <1>7, <2>1, <2>2, SocketChanged, Zenon
<1> QED BY <1>5, <1>6, <1>7, Zenon DEF Sock!UpdateTimeout

\* The subscription of a socket that keeps its number and its manager is the one it knows.
LEMMA KnowsItsNumber ==
  ASSUME SocketsOK, NEW s \in Sock!Socks, NEW k, k.sub = sk[s].sub, sk[s].mgr => k.mgr
  PROVE  \A x \in tm.subs : x[2] = s => k.mgr /\ k.sub = x[1]
<1>1. s # "linger"
  BY NetAssumption, Zenon DEF Sock!Socks
<1> QED BY <1>1, Zenon DEF SocketsOK, Subscribed

\* A socket that is not created or destroyed has none.
LEMMA DeadUnsubscribed ==
  ASSUME SocketsOK, NEW s \in Sock!Socks, sk[s].stage \in {"none", "closed"}
  PROVE  \A x \in tm.subs : x[2] # s
<1>1. s # "linger"
  BY NetAssumption, Zenon DEF Sock!Socks
<1> QED BY <1>1, Zenon DEF SocketsOK, Subscribed

LEMMA TurnedOn ==
  ASSUME NEW F, NEW k \in Socket(F)
  PROVE  /\ Sock!TurnOn(k) \in Socket(F) /\ Sock!TurnOn(k).stage = k.stage /\ Sock!TurnOn(k).sub = k.sub
         /\ Sock!TurnOn(k).mgr = k.mgr /\ Sock!TurnOn(k).raw = k.raw /\ Sock!TurnOn(k).ssl = k.ssl
         /\ k.stage = "open" /\ Offers(k) => Offers(Sock!TurnOn(k))
<1> DEFINE due == k.task \/ k.raw > 0 \/ k.eof \/ k.stage = "tls" \/ k.ssl > 0
           j == [k EXCEPT !.reads = TRUE, !.task = due]
<1>1. due \in BOOLEAN
  BY Zenon
<1>2. due <=> k.task \/ k.raw > 0 \/ k.eof \/ k.stage = "tls" \/ k.ssl > 0
  BY Zenon
<1> HIDE DEF due
<1>3. /\ j \in Socket(F) /\ j.stage = k.stage /\ j.sub = k.sub /\ j.mgr = k.mgr /\ j.raw = k.raw /\ j.ssl = k.ssl
      /\ j.task = due
  BY <1>1, Zenon DEF Socket
<1>4. Sock!TurnOn(k) = k \/ Sock!TurnOn(k) = j
  BY Zenon DEF Sock!TurnOn, due
<1> HIDE DEF j
<1>5. k.stage = "open" => Offers(j)
  <2>1. k.ssl + k.raw > 0 => k.raw > 0 \/ k.ssl > 0
    BY SocketFields, SMT
  <2> QED BY <1>2, <1>3, <2>1, SMT DEF Offers
<1> QED BY <1>3, <1>4, <1>5, Zenon

LEMMA TurnedOff ==
  ASSUME NEW F, NEW k \in Socket(F)
  PROVE  /\ Sock!TurnOff(k) \in Socket(F) /\ Sock!TurnOff(k).stage = k.stage /\ Sock!TurnOff(k).sub = k.sub
         /\ Sock!TurnOff(k).mgr = k.mgr /\ Sock!TurnOff(k).raw = k.raw /\ Sock!TurnOff(k).ssl = k.ssl
         /\ ~Sock!TurnOff(k).reads
<1> DEFINE j == [k EXCEPT !.reads = FALSE, !.task = FALSE]
<1>1. /\ j \in Socket(F) /\ j.stage = k.stage /\ j.sub = k.sub /\ j.mgr = k.mgr /\ j.raw = k.raw /\ j.ssl = k.ssl
      /\ j.reads = FALSE
  BY Zenon DEF Socket
<1>2. (Sock!TurnOff(k) = k /\ ~k.reads) \/ Sock!TurnOff(k) = j
  BY Zenon DEF Sock!TurnOff
<1> HIDE DEF j
<1> QED BY <1>1, <1>2, Zenon

\* A socket that is connected and does not read, and one in its handshake, offer nothing.
LEMMA OffersNothing ==
  ASSUME NEW k, k.stage \in {"tls", "paused", "closed"} \/ (k.stage = "open" /\ ~k.reads)
  PROVE  Offers(k)
BY SMT DEF Offers

LEMMA NewSocketFields ==
  ASSUME NEW F, NON \in F
  PROVE  /\ Sock!NewSocket \in Socket(F) /\ ~Sock!NewSocket.reads /\ Sock!NewSocket.raw = 0 /\ Sock!NewSocket.ssl = 0
         /\ Sock!NewSocket.mgr /\ Sock!NewSocket.sub = NON
<1>1. 0 \in Nat /\ "created" \in SocketStages
  BY SMT DEF SocketStages
<1> QED BY <1>1, Zenon DEF Sock!NewSocket, Socket

\* A descriptor more.
LEMMA SocketsWider ==
  ASSUME NEW F, NEW G, F \subseteq G
  PROVE  Socket(F) \subseteq Socket(G)
BY Zenon DEF Socket

LEMMA SocketsInit == Sock!Init => SocketsOK
<1> SUFFICES ASSUME Sock!Init PROVE SocketsOK
  OBVIOUS
<1> DEFINE k == [Sock!NewSocket EXCEPT !.stage = "none"]
<1>1. k \in Socket({NON}) /\ ~k.reads /\ k.raw = 0 /\ k.ssl = 0 /\ k.stage = "none"
  <2>1. Sock!NewSocket \in Socket({NON}) /\ ~Sock!NewSocket.reads /\ Sock!NewSocket.raw = 0 /\ Sock!NewSocket.ssl = 0
    BY NewSocketFields, Zenon
  <2>2. "none" \in SocketStages
    BY Zenon DEF SocketStages
  <2> QED BY <2>1, <2>2, Zenon DEF Socket
<1>2. Offers(k)
  <2> HIDE DEF k
  <2> QED BY <1>1, SMT DEF Offers
<1>3. sk = [s \in Sock!Socks |-> k]
  BY Zenon DEF Sock!Init
<1> HIDE DEF k
<1>4. sk \in [Sock!Socks -> Socket({NON})] /\ \A s \in Sock!Socks : Offers(sk[s])
  BY <1>1, <1>2, <1>3, Zenon
<1>5. tm \in SocketTimer /\ tm.subs = {} /\ lingerId \in Nat \cup {NON}
  <2>1. 0 \in Nat
    BY SMT
  <2> QED BY <2>1, Zenon DEF Sock!Init, Sock!NoTimer, SocketTimer
<1> QED BY <1>4, <1>5, Zenon DEF SocketsOK

\* tcp_socket_create with tcp_socket_connect, tcp_socket_acquire_fd and udp_socket_create_inner.
LEMMA SocketsCreated ==
  ASSUME SocketsOK, NEW s \in Sock!Socks, sk[s].stage = "none", NEW E, NEW k \in Socket(E),
         k.stage \in {"created", "connecting", "open"}, ~k.reads, k.raw = 0, k.ssl = 0,
         Sock!UpdateTimeout(s, k), lingerId' = lingerId
  PROVE  SocketsOK'
<1>1. PICK F : sk \in [Sock!Socks -> Socket(F)]
  BY Zenon DEF SocketsOK
<1> DEFINE G == F \cup E
<1>2. sk \in [Sock!Socks -> Socket(G)] /\ k \in Socket(G)
  <2>1. Socket(F) \subseteq Socket(G) /\ Socket(E) \subseteq Socket(G)
    BY SocketsWider, Zenon
  <2> HIDE DEF G
  <2> QED BY <1>1, <2>1, Zenon
<1> HIDE DEF G
<1>3. Offers(k) /\ k.stage \notin {"none", "closed"}
  BY SMT DEF Offers
<1>4. \A x \in tm.subs : x[2] = s => k.mgr /\ k.sub = x[1]
  BY DeadUnsubscribed, Zenon
<1> QED BY <1>2, <1>3, <1>4, TimeoutUpdated, Zenon

LEMMA SocketsConnect ==
  ASSUME SocketsOK, NEW s \in Sock!Socks, Sock!Connect(s)
  PROVE  SocketsOK'
<1>1. PICK ok \in BOOLEAN, pause \in BOOLEAN :
        Sock!UpdateTimeout(s, [Sock!NewSocket EXCEPT !.stage = IF ok THEN "connecting" ELSE "created",
                                                     !.fd = IF ok THEN Sock!FreeFd ELSE NON, !.pause = ok /\ pause])
  BY Zenon DEF Sock!Connect
<1> DEFINE place == IF ok THEN "connecting" ELSE "created"
           fd == IF ok THEN Sock!FreeFd ELSE NON
           pauses == ok /\ pause
           E == {fd, NON}
           k == [Sock!NewSocket EXCEPT !.stage = place, !.fd = fd, !.pause = pauses]
<1>2. sk[s].stage = "none" /\ lingerId' = lingerId
  BY Zenon DEF Sock!Connect, Sock!Unmanaged
<1>3. place \in {"created", "connecting"} /\ place \in SocketStages /\ pauses \in BOOLEAN
  BY Zenon DEF SocketStages
<1>4. Sock!UpdateTimeout(s, k)
  BY <1>1, Zenon
<1> HIDE DEF place, fd, pauses
<1>5. k \in Socket(E) /\ k.stage = place /\ ~k.reads /\ k.raw = 0 /\ k.ssl = 0
  <2>1. /\ Sock!NewSocket \in Socket(E) /\ ~Sock!NewSocket.reads /\ Sock!NewSocket.raw = 0
        /\ Sock!NewSocket.ssl = 0
    BY NewSocketFields, Zenon
  <2> QED BY <1>3, <2>1, Zenon DEF Socket
<1> HIDE DEF k, E
<1> QED BY <1>2, <1>3, <1>4, <1>5, SocketsCreated, Zenon

LEMMA SocketsAcquire ==
  ASSUME SocketsOK, NEW s \in Sock!Socks, Sock!AcquireFd(s)
  PROVE  SocketsOK'
<1> DEFINE E == {Sock!FreeFd, NON}
           k == [Sock!NewSocket EXCEPT !.stage = "open", !.fd = Sock!FreeFd]
<1>1. sk[s].stage = "none" /\ lingerId' = lingerId /\ Sock!UpdateTimeout(s, k)
  BY Zenon DEF Sock!AcquireFd, Sock!Unmanaged
<1>2. k \in Socket(E) /\ k.stage = "open" /\ ~k.reads /\ k.raw = 0 /\ k.ssl = 0
  <2>1. /\ Sock!NewSocket \in Socket(E) /\ ~Sock!NewSocket.reads /\ Sock!NewSocket.raw = 0
        /\ Sock!NewSocket.ssl = 0 /\ "open" \in SocketStages
    BY NewSocketFields, Zenon DEF SocketStages
  <2> QED BY <2>1, Zenon DEF Socket
<1> HIDE DEF k, E
<1> QED BY <1>1, <1>2, SocketsCreated, Zenon

\* do_handshake of the socket in the state k, which is in its handshake and has the number that s had.
LEMMA SocketsHandshake ==
  ASSUME SocketsOK, NEW F, sk \in [Sock!Socks -> Socket(F)], NEW s \in Sock!Socks, NEW k \in Socket(F),
         k.stage = "tls", k.sub = sk[s].sub, k.mgr = sk[s].mgr, Sock!DoHandshake(s, k), lingerId' = lingerId
  PROVE  SocketsOK'
<1>1. 0 \in Nat /\ 1 \in Nat /\ {"paused", "open", "tls"} \subseteq SocketStages
  BY SMT DEF SocketStages
<1>2. /\ Sock!TurnOff(k) \in Socket(F) /\ Sock!TurnOff(k).sub = k.sub /\ Sock!TurnOff(k).mgr = k.mgr
      /\ ~Sock!TurnOff(k).reads
  BY TurnedOff, Zenon
<1>3. CASE /\ sk' = [sk EXCEPT ![s] = [Sock!TurnOff(k) EXCEPT !.stage = "paused", !.raw = 0, !.pause = FALSE,
                                                             !.mgr = FALSE, !.cb = FALSE]]
           /\ tm' = Sock!Unsubscribe(tm, k.sub)
  <2> DEFINE j == [Sock!TurnOff(k) EXCEPT !.stage = "paused", !.raw = 0, !.pause = FALSE, !.mgr = FALSE, !.cb = FALSE]
  <2>1. j \in Socket(F) /\ j.stage = "paused"
    BY <1>1, <1>2, Zenon DEF Socket
  <2>2. sk' = [sk EXCEPT ![s] = j]
    BY <1>3, Zenon
  <2> HIDE DEF j
  <2>3. Offers(j)
    BY <2>1, OffersNothing, Zenon
  <2>4. tm \in SocketTimer
    BY Zenon DEF SocketsOK
  <2>5. tm' \in SocketTimer /\ \A x \in tm'.subs : x \in tm.subs /\ (k.sub # NON => x[1] # k.sub)
    BY <1>3, <2>4, Unsubscribed, Zenon
  <2>6. \A x \in tm.subs : x[2] = s => k.mgr /\ k.sub = x[1]
    BY KnowsItsNumber, Zenon
  <2>7. \A x \in tm'.subs : x \in tm.subs /\ x[2] # s
    BY <2>4, <2>5, <2>6, TimerFields, Zenon
  <2> QED BY <2>1, <2>2, <2>3, <2>5, <2>7, SocketChanged, Zenon
<1>4. CASE Sock!UpdateTimeout(s, [k EXCEPT !.raw = 0])
  <2> DEFINE j == [k EXCEPT !.raw = 0]
  <2>1. j \in Socket(F) /\ j.stage = "tls" /\ j.sub = sk[s].sub /\ j.mgr = sk[s].mgr
    BY <1>1, Zenon DEF Socket
  <2>2. Sock!UpdateTimeout(s, j)
    BY <1>4, Zenon
  <2> HIDE DEF j
  <2>3. Offers(j) /\ j.stage \notin {"none", "closed"}
    BY <2>1, SMT DEF Offers
  <2>4. \A x \in tm.subs : x[2] = s => j.mgr /\ j.sub = x[1]
    BY <2>1, KnowsItsNumber, Zenon
  <2> QED BY <2>1, <2>2, <2>3, <2>4, TimeoutUpdated, Zenon
<1>5. ASSUME NEW n \in 0 .. 1,
             Sock!UpdateTimeout(s, [Sock!TurnOff(k) EXCEPT !.raw = 0, !.stage = "open", !.ssl = n, !.cb = FALSE])
      PROVE  SocketsOK'
  <2> DEFINE j == [Sock!TurnOff(k) EXCEPT !.raw = 0, !.stage = "open", !.ssl = n, !.cb = FALSE]
  <2>1. n \in Nat
    BY SMT
  <2>2. j \in Socket(F) /\ j.stage = "open" /\ ~j.reads /\ j.sub = sk[s].sub /\ j.mgr = sk[s].mgr
    BY <1>1, <1>2, <2>1, Zenon DEF Socket
  <2>3. Sock!UpdateTimeout(s, j)
    BY <1>5, Zenon
  <2> HIDE DEF j
  <2>4. Offers(j) /\ j.stage \notin {"none", "closed"}
    BY <2>2, SMT DEF Offers
  <2>5. \A x \in tm.subs : x[2] = s => j.mgr /\ j.sub = x[1]
    BY <2>2, KnowsItsNumber, Zenon
  <2> QED BY <2>2, <2>3, <2>4, <2>5, TimeoutUpdated, Zenon
<1> QED BY <1>3, <1>4, <1>5, Zenon DEF Sock!DoHandshake

\* A step that only changes one socket, which keeps its subscription.
LEMMA SocketAlone ==
  ASSUME SocketsOK, NEW F, sk \in [Sock!Socks -> Socket(F)], NEW s \in Sock!Socks, NEW k \in Socket(F), Offers(k),
         sk' = [sk EXCEPT ![s] = k], k.stage \notin {"none", "closed"}, k.sub = sk[s].sub, k.mgr = sk[s].mgr,
         tm' = tm, lingerId' = lingerId
  PROVE  SocketsOK'
<1>1. \A x \in tm.subs : x[2] = s => k.mgr /\ k.sub = x[1]
  BY KnowsItsNumber, Zenon
<1>2. tm' \in SocketTimer
  BY Zenon DEF SocketsOK
<1>3. \A x \in tm'.subs : (x \in tm.subs /\ x[2] # s) \/ (x[2] = s /\ Subscribed(k, x[1]))
  BY <1>1, Zenon DEF Subscribed
<1> QED BY <1>2, <1>3, SocketChanged, Zenon

LEMMA SocketsConnected ==
  ASSUME SocketsOK, NEW s \in Sock!Socks, Sock!Connected(s)
  PROVE  SocketsOK'
<1>1. PICK F : sk \in [Sock!Socks -> Socket(F)]
  BY Zenon DEF SocketsOK
<1>2. sk[s] \in Socket(F) /\ sk[s].stage = "connecting" /\ lingerId' = lingerId
  BY <1>1, Zenon DEF Sock!Connected, Sock!Unmanaged
<1>3. {"open", "tls"} \subseteq SocketStages
  BY Zenon DEF SocketStages
<1>4. CASE sk' = [sk EXCEPT ![s].stage = "open"] /\ tm' = tm
  <2> DEFINE k == [sk[s] EXCEPT !.stage = "open"]
  <2>1. k \in Socket(F) /\ k.stage = "open" /\ k.reads = sk[s].reads /\ k.sub = sk[s].sub /\ k.mgr = sk[s].mgr
    BY <1>2, <1>3, Zenon DEF Socket
  <2>2. sk' = [sk EXCEPT ![s] = k]
    BY <1>4, Zenon
  <2> HIDE DEF k
  <2>3. ~sk[s].reads
    BY <1>2, Zenon DEF SocketsOK, Offers
  <2>4. Offers(k) /\ k.stage \notin {"none", "closed"}
    BY <2>1, <2>3, SMT DEF Offers
  <2> QED BY <1>1, <1>2, <1>4, <2>1, <2>2, <2>4, SocketAlone, Zenon
<1>5. CASE Sock!DoHandshake(s, Sock!TurnOn([sk[s] EXCEPT !.stage = "tls"]))
  <2> DEFINE j == [sk[s] EXCEPT !.stage = "tls"]
             k == Sock!TurnOn(j)
  <2>1. j \in Socket(F) /\ j.stage = "tls" /\ j.sub = sk[s].sub /\ j.mgr = sk[s].mgr
    BY <1>2, <1>3, Zenon DEF Socket
  <2> HIDE DEF j
  <2>2. k \in Socket(F) /\ k.stage = "tls" /\ k.sub = sk[s].sub /\ k.mgr = sk[s].mgr
    BY <2>1, TurnedOn, Zenon
  <2>3. Sock!DoHandshake(s, k)
    BY <1>5, Zenon DEF j
  <2> HIDE DEF k
  <2> QED BY <1>1, <1>2, <2>2, <2>3, SocketsHandshake, Zenon
<1> QED BY <1>4, <1>5, Zenon DEF Sock!Connected

LEMMA SocketsContinue ==
  ASSUME SocketsOK, NEW s \in Sock!Socks, Sock!ConnectContinue(s)
  PROVE  SocketsOK'
<1>1. PICK F : sk \in [Sock!Socks -> Socket(F)]
  BY Zenon DEF SocketsOK
<1> DEFINE j == [sk[s] EXCEPT !.stage = "tls", !.mgr = TRUE]
           k == Sock!TurnOn(j)
<1>2. sk[s] \in Socket(F) /\ lingerId' = lingerId /\ Sock!UpdateTimeout(s, k)
  BY <1>1, Zenon DEF Sock!ConnectContinue, Sock!Unmanaged
<1>3. "tls" \in SocketStages
  BY Zenon DEF SocketStages
<1>4. j \in Socket(F) /\ j.stage = "tls" /\ j.sub = sk[s].sub /\ j.mgr = TRUE
  BY <1>2, <1>3, Zenon DEF Socket
<1> HIDE DEF j
<1>5. k \in Socket(F) /\ k.stage = "tls" /\ k.sub = sk[s].sub /\ k.mgr = TRUE
  BY <1>4, TurnedOn, Zenon
<1> HIDE DEF k
<1>6. Offers(k) /\ k.stage \notin {"none", "closed"}
  BY <1>5, SMT DEF Offers
<1>7. \A x \in tm.subs : x[2] = s => k.mgr /\ k.sub = x[1]
  BY <1>5, KnowsItsNumber, Zenon
<1> QED BY <1>1, <1>2, <1>5, <1>6, <1>7, TimeoutUpdated, Zenon

LEMMA SocketsArrives ==
  ASSUME SocketsOK, NEW s \in Sock!Socks, Sock!Arrives(s)
  PROVE  SocketsOK'
<1>1. PICK F : sk \in [Sock!Socks -> Socket(F)]
  BY Zenon DEF SocketsOK
<1>2. sk[s] \in Socket(F) /\ sk[s].stage \in {"tls", "open"} /\ lingerId' = lingerId /\ tm' = tm
  BY <1>1, Zenon DEF Sock!Arrives
<1>3. sk[s].raw + 1 \in Nat
  BY <1>2, SocketFields, SMT
<1>4. CASE sk' = [sk EXCEPT ![s].raw = @ + 1, ![s].cb = TRUE, ![s].left = FALSE]
  <2> DEFINE k == [sk[s] EXCEPT !.raw = @ + 1, !.cb = TRUE, !.left = FALSE]
  <2>1. k \in Socket(F) /\ k.stage = sk[s].stage /\ k.cb = TRUE /\ k.sub = sk[s].sub /\ k.mgr = sk[s].mgr
    BY <1>2, <1>3, Zenon DEF Socket
  <2>2. sk' = [sk EXCEPT ![s] = k]
    BY <1>4, Zenon
  <2> HIDE DEF k
  <2>3. Offers(k) /\ k.stage \notin {"none", "closed"}
    BY <1>2, <2>1, SMT DEF Offers
  <2> QED BY <1>1, <1>2, <2>1, <2>2, <2>3, SocketAlone, Zenon
<1>5. CASE sk' = [sk EXCEPT ![s].eof = TRUE, ![s].cb = TRUE, ![s].reads = FALSE]
  <2> DEFINE k == [sk[s] EXCEPT !.eof = TRUE, !.cb = TRUE, !.reads = FALSE]
  <2>1. k \in Socket(F) /\ k.stage = sk[s].stage /\ k.cb = TRUE /\ k.sub = sk[s].sub /\ k.mgr = sk[s].mgr
    BY <1>2, Zenon DEF Socket
  <2>2. sk' = [sk EXCEPT ![s] = k]
    BY <1>5, Zenon
  <2> HIDE DEF k
  <2>3. Offers(k) /\ k.stage \notin {"none", "closed"}
    BY <1>2, <2>1, SMT DEF Offers
  <2> QED BY <1>1, <1>2, <2>1, <2>2, <2>3, SocketAlone, Zenon
<1> QED BY <1>4, <1>5, Zenon DEF Sock!Arrives

\* TCP_SOCKET_EVENT_READABLE: what is left with the reads on is known to be.
LEMMA SocketTaken ==
  ASSUME NEW F, NEW k \in Socket(F), NEW i \in Sock!Taken(k)
  PROVE  /\ i \in Socket(F) /\ i.stage = k.stage /\ i.sub = k.sub /\ i.mgr = k.mgr
         /\ k.stage = "open" => Offers(i)
<1> DEFINE decrypted == {[k EXCEPT !.ssl = x] : x \in 0 .. k.ssl}
           off == {[Sock!TurnOff(k) EXCEPT !.ssl = x] : x \in 0 .. k.ssl}
           plain == {[k EXCEPT !.raw = y] : y \in IF k.ssl = 0 THEN 0 .. k.raw ELSE {}}
<1>1. PICK j \in decrypted \cup off \cup plain : i = [j EXCEPT !.left = j.reads /\ j.ssl + j.raw > 0]
  BY Zenon DEF Sock!Taken
<1>2. j \in Socket(F) /\ j.stage = k.stage /\ j.sub = k.sub /\ j.mgr = k.mgr
  <2>1. CASE j \in decrypted
    <3>1. PICK x \in 0 .. k.ssl : j = [k EXCEPT !.ssl = x]
      BY <2>1, Zenon
    <3>2. x \in Nat
      BY SocketFields, SMT
    <3> QED BY <3>1, <3>2, Zenon DEF Socket
  <2>2. CASE j \in off
    <3>1. PICK x \in 0 .. k.ssl : j = [Sock!TurnOff(k) EXCEPT !.ssl = x]
      BY <2>2, Zenon
    <3>2. x \in Nat
      BY SocketFields, SMT
    <3>3. /\ Sock!TurnOff(k) \in Socket(F) /\ Sock!TurnOff(k).stage = k.stage /\ Sock!TurnOff(k).sub = k.sub
          /\ Sock!TurnOff(k).mgr = k.mgr
      BY TurnedOff, Zenon
    <3> QED BY <3>1, <3>2, <3>3, Zenon DEF Socket
  <2>3. CASE j \in plain
    <3>1. PICK y \in IF k.ssl = 0 THEN 0 .. k.raw ELSE {} : j = [k EXCEPT !.raw = y]
      BY <2>3, Zenon
    <3>2. y \in Nat
      BY SocketFields, SMT
    <3> QED BY <3>1, <3>2, Zenon DEF Socket
  <2> QED BY <1>1, <2>1, <2>2, <2>3, Zenon
<1> HIDE DEF decrypted, off, plain
<1> DEFINE some == j.reads /\ j.ssl + j.raw > 0
<1>3. some \in BOOLEAN /\ (some <=> j.reads /\ j.ssl + j.raw > 0)
  BY Zenon
<1> HIDE DEF some
<1>4. i = [j EXCEPT !.left = some]
  BY <1>1, Zenon DEF some
<1>5. /\ i \in Socket(F) /\ i.stage = j.stage /\ i.sub = j.sub /\ i.mgr = j.mgr
      /\ i.left = some /\ i.reads = j.reads /\ i.ssl = j.ssl /\ i.raw = j.raw
  BY <1>2, <1>3, <1>4, Zenon DEF Socket
<1>6. k.stage = "open" => Offers(i)
  BY <1>2, <1>3, <1>5, SMT DEF Offers
<1> QED BY <1>2, <1>5, <1>6, Zenon

LEMMA SocketsOnRead ==
  ASSUME SocketsOK, NEW s \in Sock!Socks, Sock!OnRead(s)
  PROVE  SocketsOK'
<1>1. PICK F : sk \in [Sock!Socks -> Socket(F)]
  BY Zenon DEF SocketsOK
<1> DEFINE k == [sk[s] EXCEPT !.task = FALSE, !.cb = FALSE]
<1>2. sk[s] \in Socket(F) /\ lingerId' = lingerId
  BY <1>1, Zenon DEF Sock!OnRead, Sock!Unmanaged
<1>3. k \in Socket(F) /\ k.stage = sk[s].stage /\ k.sub = sk[s].sub /\ k.mgr = sk[s].mgr
  BY <1>2, Zenon DEF Socket
<1>4. \/ k.stage = "tls" /\ Sock!DoHandshake(s, k)
      \/ k.stage = "open" /\ \E j \in Sock!Taken(k) : Sock!UpdateTimeout(s, j)
      \/ k.stage = "open" /\ ~k.reads /\ Sock!UpdateTimeout(s, k)
  BY Zenon DEF Sock!OnRead
<1> HIDE DEF k
<1>5. CASE k.stage = "tls" /\ Sock!DoHandshake(s, k)
  BY <1>1, <1>2, <1>3, <1>5, SocketsHandshake, Zenon
<1>6. ASSUME k.stage = "open", NEW j \in Sock!Taken(k), Sock!UpdateTimeout(s, j)
      PROVE  SocketsOK'
  <2>1. j \in Socket(F) /\ j.stage = "open" /\ j.sub = sk[s].sub /\ j.mgr = sk[s].mgr /\ Offers(j)
    BY <1>3, <1>6, SocketTaken, Zenon
  <2>2. j.stage \notin {"none", "closed"}
    BY <2>1, SMT
  <2>3. \A x \in tm.subs : x[2] = s => j.mgr /\ j.sub = x[1]
    BY <2>1, KnowsItsNumber, Zenon
  <2> QED BY <1>1, <1>2, <1>6, <2>1, <2>2, <2>3, TimeoutUpdated, Zenon
<1>7. CASE k.stage = "open" /\ ~k.reads /\ Sock!UpdateTimeout(s, k)
  <2>1. Offers(k)
    BY <1>7, OffersNothing, Zenon
  <2>2. k.stage \notin {"none", "closed"}
    BY <1>7, SMT
  <2>3. \A x \in tm.subs : x[2] = s => k.mgr /\ k.sub = x[1]
    BY <1>3, KnowsItsNumber, Zenon
  <2> QED BY <1>1, <1>2, <1>3, <1>7, <2>1, <2>2, <2>3, TimeoutUpdated, Zenon
<1> QED BY <1>4, <1>5, <1>6, <1>7, Zenon

LEMMA SocketsSetReadEnabled ==
  ASSUME SocketsOK, NEW s \in Sock!Socks, Sock!SetReadEnabled(s)
  PROVE  SocketsOK'
<1>1. PICK F : sk \in [Sock!Socks -> Socket(F)]
  BY Zenon DEF SocketsOK
<1>2. sk[s] \in Socket(F) /\ sk[s].stage = "open" /\ lingerId' = lingerId /\ tm' = tm /\ Offers(sk[s])
  BY <1>1, Zenon DEF Sock!SetReadEnabled, SocketsOK
<1>3. sk[s].stage \notin {"none", "closed"}
  BY <1>2, SMT
<1>4. CASE sk' = [sk EXCEPT ![s] = Sock!TurnOn(@)]
  <2>1. /\ Sock!TurnOn(sk[s]) \in Socket(F) /\ Sock!TurnOn(sk[s]).stage = sk[s].stage
        /\ Sock!TurnOn(sk[s]).sub = sk[s].sub /\ Sock!TurnOn(sk[s]).mgr = sk[s].mgr /\ Offers(Sock!TurnOn(sk[s]))
    BY <1>2, TurnedOn, Zenon
  <2>2. sk' = [sk EXCEPT ![s] = Sock!TurnOn(sk[s])] /\ Sock!TurnOn(sk[s]).stage \notin {"none", "closed"}
    BY <1>3, <1>4, <2>1, Zenon
  <2> QED BY <1>1, <1>2, <2>1, <2>2, SocketAlone, Zenon
<1>5. CASE sk' = [sk EXCEPT ![s] = Sock!TurnOff(@)]
  <2>1. /\ Sock!TurnOff(sk[s]) \in Socket(F) /\ Sock!TurnOff(sk[s]).stage = sk[s].stage
        /\ Sock!TurnOff(sk[s]).sub = sk[s].sub /\ Sock!TurnOff(sk[s]).mgr = sk[s].mgr /\ ~Sock!TurnOff(sk[s]).reads
    BY <1>2, TurnedOff, Zenon
  <2>2. sk' = [sk EXCEPT ![s] = Sock!TurnOff(sk[s])] /\ Sock!TurnOff(sk[s]).stage \notin {"none", "closed"}
    BY <1>3, <1>5, <2>1, Zenon
  <2>3. Offers(Sock!TurnOff(sk[s]))
    BY <1>2, <2>1, OffersNothing, Zenon
  <2> QED BY <1>1, <1>2, <2>1, <2>2, <2>3, SocketAlone, Zenon
<1> QED BY <1>4, <1>5, Zenon DEF Sock!SetReadEnabled

LEMMA SocketsWrite ==
  ASSUME SocketsOK, NEW s \in Sock!Socks, Sock!Write(s) \/ Sock!WriteFlush(s) \/ Sock!SetTimeout(s)
  PROVE  SocketsOK'
<1>1. PICK F : sk \in [Sock!Socks -> Socket(F)]
  BY Zenon DEF SocketsOK
<1>2. sk[s] \in Socket(F) /\ sk[s].stage = "open" /\ lingerId' = lingerId /\ Offers(sk[s])
  BY <1>1, Zenon DEF Sock!Write, Sock!WriteFlush, Sock!SetTimeout, Sock!Unmanaged, SocketsOK
<1>3. sk[s].stage \notin {"none", "closed"}
  BY <1>2, SMT
<1>4. ASSUME NEW b \in BOOLEAN, NEW d \in BOOLEAN, NEW k, k = [sk[s] EXCEPT !.out = b, !.timed = d]
      PROVE  k \in Socket(F) /\ k.stage = sk[s].stage /\ k.sub = sk[s].sub /\ k.mgr = sk[s].mgr /\ Offers(k)
  <2>1. /\ k \in Socket(F) /\ k.stage = sk[s].stage /\ k.sub = sk[s].sub /\ k.mgr = sk[s].mgr
        /\ k.reads = sk[s].reads /\ k.ssl = sk[s].ssl /\ k.raw = sk[s].raw /\ k.cb = sk[s].cb
        /\ k.task = sk[s].task /\ k.left = sk[s].left
    BY <1>2, <1>4, Zenon DEF Socket
  <2>2. Offers(k)
    BY <1>2, <2>1, Zenon DEF Offers
  <2> QED BY <2>1, <2>2, Zenon
<1>5. ASSUME NEW k, k \in Socket(F), k.stage = sk[s].stage, k.sub = sk[s].sub, k.mgr = sk[s].mgr, Offers(k),
             Sock!UpdateTimeout(s, k)
      PROVE  SocketsOK'
  <2>1. \A x \in tm.subs : x[2] = s => k.mgr /\ k.sub = x[1]
    BY <1>5, KnowsItsNumber, Zenon
  <2>2. k.stage \notin {"none", "closed"}
    BY <1>3, <1>5, Zenon
  <2> QED BY <1>1, <1>2, <1>5, <2>1, <2>2, TimeoutUpdated, Zenon
<1>6. CASE Sock!Write(s)
  <2> DEFINE k == [sk[s] EXCEPT !.out = TRUE]
  <2>1. k = [sk[s] EXCEPT !.out = TRUE, !.timed = sk[s].timed] /\ sk[s].timed \in BOOLEAN
    BY <1>2, Zenon DEF Socket
  <2>2. Sock!UpdateTimeout(s, k)
    BY <1>6, Zenon DEF Sock!Write
  <2> HIDE DEF k
  <2>3. k \in Socket(F) /\ k.stage = sk[s].stage /\ k.sub = sk[s].sub /\ k.mgr = sk[s].mgr /\ Offers(k)
    BY <1>4, <2>1, Zenon
  <2> QED BY <1>5, <2>2, <2>3, Zenon
<1>7. CASE Sock!WriteFlush(s)
  <2> DEFINE k == [sk[s] EXCEPT !.out = FALSE]
  <2>1. k = [sk[s] EXCEPT !.out = FALSE, !.timed = sk[s].timed] /\ sk[s].timed \in BOOLEAN
    BY <1>2, Zenon DEF Socket
  <2>2. sk' = [sk EXCEPT ![s] = k] /\ tm' = tm
    BY <1>7, Zenon DEF Sock!WriteFlush
  <2> HIDE DEF k
  <2>3. k \in Socket(F) /\ k.stage = sk[s].stage /\ k.sub = sk[s].sub /\ k.mgr = sk[s].mgr /\ Offers(k)
    BY <1>4, <2>1, Zenon
  <2> QED BY <1>1, <1>2, <1>3, <2>2, <2>3, SocketAlone, Zenon
<1>8. CASE Sock!SetTimeout(s)
  <2>1. PICK on \in BOOLEAN : Sock!UpdateTimeout(s, [sk[s] EXCEPT !.timed = on])
    BY <1>8, Zenon DEF Sock!SetTimeout
  <2> DEFINE k == [sk[s] EXCEPT !.timed = on]
  <2>2. k = [sk[s] EXCEPT !.out = sk[s].out, !.timed = on] /\ sk[s].out \in BOOLEAN
    BY <1>2, Zenon DEF Socket
  <2> HIDE DEF k
  <2>3. k \in Socket(F) /\ k.stage = sk[s].stage /\ k.sub = sk[s].sub /\ k.mgr = sk[s].mgr /\ Offers(k)
    BY <1>4, <2>2, Zenon
  <2>4. Sock!UpdateTimeout(s, k)
    BY <2>1, Zenon DEF k
  <2> QED BY <1>5, <2>3, <2>4, Zenon
<1> QED BY <1>6, <1>7, <1>8, Zenon

\* The subscription of a destroyed socket has ended.
LEMMA TimerReleased ==
  ASSUME SocketsOK, NEW s \in Sock!Socks
  PROVE  /\ Sock!ReleaseTimer(s) \in SocketTimer
         /\ \A x \in Sock!ReleaseTimer(s).subs : x \in tm.subs /\ x[2] # s
<1>1. tm \in SocketTimer
  BY Zenon DEF SocketsOK
<1>2. \A x \in tm.subs : x[2] = s => sk[s].mgr /\ sk[s].sub = x[1]
  BY KnowsItsNumber, Zenon
<1>3. CASE sk[s].mgr
  <2>1. /\ Sock!Unsubscribe(tm, sk[s].sub) \in SocketTimer
        /\ \A x \in Sock!Unsubscribe(tm, sk[s].sub).subs : x \in tm.subs /\ (sk[s].sub # NON => x[1] # sk[s].sub)
    BY <1>1, Unsubscribed, Zenon
  <2>2. Sock!ReleaseTimer(s) = Sock!Unsubscribe(tm, sk[s].sub)
    BY <1>3, Zenon DEF Sock!ReleaseTimer
  <2> QED BY <1>1, <1>2, <2>1, <2>2, TimerFields, Zenon
<1>4. CASE ~sk[s].mgr
  <2>1. Sock!ReleaseTimer(s) = tm
    BY <1>4, Zenon DEF Sock!ReleaseTimer
  <2> QED BY <1>1, <1>2, <1>4, <2>1, Zenon
<1> QED BY <1>3, <1>4, Zenon

\* Without a number of its own the manager is no subscriber.
LEMMA NoLinger ==
  ASSUME SocketsOK, lingerId = NON
  PROVE  \A x \in tm.subs : x[2] # "linger"
<1>1. tm \in SocketTimer
  BY Zenon DEF SocketsOK
<1> QED BY <1>1, TimerFields, Zenon DEF SocketsOK

LEMMA SocketsDestroy ==
  ASSUME SocketsOK, NEW s \in Sock!Socks, Sock!Destroy(s)
  PROVE  SocketsOK'
<1>1. PICK E : sk \in [Sock!Socks -> Socket(E)]
  BY Zenon DEF SocketsOK
<1> DEFINE F == E \cup {NON}
           k == Sock!Closed(s)
           t == Sock!ReleaseTimer(s)
<1>2. sk \in [Sock!Socks -> Socket(F)] /\ NON \in F
  <2>1. Socket(E) \subseteq Socket(F) /\ NON \in F
    BY SocketsWider, Zenon
  <2> HIDE DEF F
  <2> QED BY <1>1, <2>1, Zenon
<1> HIDE DEF F
<1>3. k \in Socket(F) /\ Offers(k)
  <2>1. Sock!NewSocket \in Socket(F) /\ "closed" \in SocketStages
    BY <1>2, NewSocketFields, Zenon DEF SocketStages
  <2>2. k \in Socket(F) /\ k.stage = "closed"
    BY <2>1, Zenon DEF Socket, Sock!Closed
  <2> HIDE DEF k
  <2> QED BY <2>2, OffersNothing, Zenon
<1>4. sk' = [sk EXCEPT ![s] = k]
  BY Zenon DEF Sock!Destroy
<1>5. t \in SocketTimer /\ \A x \in t.subs : x \in tm.subs /\ x[2] # s
  BY TimerReleased, Zenon
<1> HIDE DEF k
<1>6. CASE tm' = t /\ lingerId' = lingerId
  BY <1>2, <1>3, <1>4, <1>5, <1>6, SocketChanged, Zenon
<1>7. CASE lingerId = NON /\ tm' = Sock!Subscribe(t, "linger") /\ lingerId' = t.next
  <2> HIDE DEF t
  <2>1. "linger" \in Sock!Socks \cup {"linger"}
    BY Zenon
  <2>2. /\ tm' \in SocketTimer
        /\ \A x \in tm'.subs : x \in t.subs \/ (x[1] = t.next /\ x[2] = "linger")
    BY <1>5, <1>7, <2>1, SubscribedTimer, Zenon
  <2>3. \A x \in tm.subs : x[2] # "linger"
    BY <1>7, NoLinger, Zenon
  <2>4. sk' \in [Sock!Socks -> Socket(F)] /\ sk'[s] = k /\ \A r \in Sock!Socks : r # s => sk'[r] = sk[r]
    BY <1>2, <1>3, <1>4, Zenon
  <2>5. \A r \in Sock!Socks : Offers(sk'[r])
    BY <1>3, <2>4, Zenon DEF SocketsOK
  <2>6. ASSUME NEW x \in tm'.subs
        PROVE  IF x[2] = "linger" THEN lingerId' = x[1] ELSE Subscribed(sk'[x[2]], x[1])
    <3>1. CASE x[1] = t.next /\ x[2] = "linger"
      BY <1>7, <3>1, Zenon
    <3>2. CASE x \in t.subs
      <4>1. x \in tm.subs /\ x[2] # s /\ x[2] # "linger"
        BY <1>5, <2>3, <3>2, Zenon
      <4>2. x[2] \in Sock!Socks /\ Subscribed(sk[x[2]], x[1])
        BY <4>1, TimerFields, Zenon DEF SocketsOK
      <4> QED BY <2>4, <4>1, <4>2, Zenon
    <3> QED BY <2>2, <3>1, <3>2, Zenon
  <2>7. lingerId' \in Nat \cup {NON}
    BY <1>5, <1>7, TimerFields, Zenon
  <2> QED BY <2>2, <2>4, <2>5, <2>6, <2>7, Zenon DEF SocketsOK
<1> QED BY <1>6, <1>7, Zenon DEF Sock!Destroy, Sock!CompleteWrite, Sock!Unmanaged

\* remove_by_fd and clear_writes
LEMMA SocketsRemoved ==
  ASSUME SocketsOK, NEW gone, NEW dl, Sock!RemoveByFd(gone, dl), sk' = sk
  PROVE  SocketsOK'
<1>1. tm \in SocketTimer /\ lingerId \in Nat \cup {NON}
  BY Zenon DEF SocketsOK
<1>2. CASE tm' = tm /\ lingerId' = lingerId
  BY <1>2, Zenon DEF SocketsOK
<1>3. CASE tm' = Sock!Unsubscribe(tm, lingerId) /\ lingerId' = NON
  <2>1. tm' \in SocketTimer /\ \A x \in tm'.subs : x \in tm.subs /\ (lingerId # NON => x[1] # lingerId)
    BY <1>1, <1>3, Unsubscribed, Zenon
  <2>2. \A x \in tm'.subs : x \in tm.subs /\ x[2] # "linger"
    <3>1. CASE lingerId = NON
      BY <2>1, <3>1, NoLinger, Zenon
    <3>2. CASE lingerId # NON
      BY <2>1, <3>2, Zenon DEF SocketsOK
    <3> QED BY <3>1, <3>2, Zenon
  <2> QED BY <1>3, <2>1, <2>2, Zenon DEF SocketsOK
<1> QED BY <1>2, <1>3, Zenon DEF Sock!RemoveByFd

LEMMA SocketsStep ==
  ASSUME SocketsOK, [Sock!Next]_(Sock!sockVars)
  PROVE  SocketsOK'
<1>1. CASE UNCHANGED Sock!sockVars
  <2>1. sk' = sk /\ tm' = tm /\ lingerId' = lingerId
    BY <1>1, Zenon DEF Sock!sockVars
  <2> QED BY <2>1, Zenon DEF SocketsOK
<1>2. ASSUME NEW s \in Sock!Socks,
             \/ Sock!Connect(s) \/ Sock!AcquireFd(s) \/ Sock!Connected(s) \/ Sock!ConnectContinue(s)
             \/ Sock!Arrives(s) \/ Sock!OnRead(s) \/ Sock!SetReadEnabled(s) \/ Sock!Write(s) \/ Sock!WriteFlush(s)
             \/ Sock!SetTimeout(s) \/ Sock!Destroy(s) \/ Sock!TimerFires(s)
      PROVE  SocketsOK'
  BY <1>2, SocketsConnect, SocketsAcquire, SocketsConnected, SocketsContinue, SocketsArrives, SocketsOnRead,
     SocketsSetReadEnabled, SocketsWrite, SocketsDestroy, Zenon DEF Sock!TimerFires
<1>3. ASSUME NEW f \in Sock!Fds, Sock!DeferredEnds(f)
      PROVE  SocketsOK'
  <2>1. Sock!RemoveByFd({f}, deadlines) /\ sk' = sk
    BY <1>3, Zenon DEF Sock!DeferredEnds
  <2> QED BY <2>1, SocketsRemoved, Zenon
<1>4. ASSUME NEW n \in 1 .. Len(deadlines), Sock!LingerTick(n)
      PROVE  SocketsOK'
  <2> DEFINE over == {deadlines[i] : i \in 1 .. n}
  <2>1. /\ Sock!RemoveByFd({x[1] : x \in over}, SubSeq(deadlines, n + 1, Len(deadlines)))
        /\ sk' = sk
    BY <1>4, Zenon DEF Sock!LingerTick
  <2> HIDE DEF over
  <2> QED BY <2>1, SocketsRemoved, Zenon
<1>5. CASE Sock!CompleteAll
  <2>1. sk' = sk /\ tm' = Sock!NoTimer /\ lingerId' = NON
    BY <1>5, Zenon DEF Sock!CompleteAll
  <2>2. tm' \in SocketTimer /\ tm'.subs = {}
    <3>1. 0 \in Nat
      BY SMT
    <3> QED BY <2>1, <3>1, Zenon DEF Sock!NoTimer, SocketTimer
  <2> QED BY <2>1, <2>2, Zenon DEF SocketsOK
<1> QED BY <1>1, <1>2, <1>3, <1>4, <1>5, Zenon DEF Sock!Next

LEMMA SocketsImply == SocketsOK => SocketsServed
<1> SUFFICES ASSUME SocketsOK PROVE SocketsServed
  OBVIOUS
<1>1. Sock!SubscribersLive
  BY Zenon DEF SocketsOK, Subscribed, Sock!SubscribersLive, Sock!Live
<1>2. Sock!InputServed
  BY Zenon DEF SocketsOK, Offers, Sock!InputServed, Sock!Socks
<1> QED BY <1>1, <1>2, Zenon DEF SocketsServed

\* The timer of SocketManager never calls a destroyed socket, calls each one under the number it knows, and what
\* a TcpSocket has read is offered to its owner, for any sockets, bounds and order of connections, events,
\* timeouts, deferred writes and destructions (tcp_socket.cpp, udp_socket.cpp, socket_manager.cpp).
THEOREM SocketsAreServed == Sock!Spec => []SocketsServed
<1>1. SocketsOK /\ [Sock!Next]_(Sock!sockVars) => SocketsOK'
  BY SocketsStep
<1>2. SocketsOK => SocketsServed
  BY SocketsImply
<1> QED BY <1>1, <1>2, SocketsInit, PTL DEF Sock!Spec

-----------------------------------------------------------------------------
(* The SOCKS5 listener.                                                    *)

SocksStates ==
    {"none", "IDLE", "WAITING_USERNAME_PASSWORD", "WAITING_REQUEST", "WAITING_CONNECT_RESULT", "WAITING_ACCEPT",
     "ESTABLISHED", "FAILED"}
SocksViews == {"unknown", "requested", "passed", "rejected", "accepted", "closed"}

SocksOK ==
    /\ st \in [Socks!Conns -> SocksStates] /\ tun \in [Socks!Conns -> SocksViews]
    /\ pend \in [Socks!UdpConns -> Nat]
    /\ Socks!SocksInStep /\ Socks!PendingUdpServed

\* The state of a connection in the table and the tunnel's view of it.
Fits(s, v) ==
    /\ v = "requested" => s = "WAITING_CONNECT_RESULT"
    /\ v = "passed" => s = "WAITING_ACCEPT"
    /\ v = "accepted" => s = "ESTABLISHED"
    /\ s \in {"WAITING_CONNECT_RESULT", "WAITING_ACCEPT"} => v \in {"requested", "passed"}

LEMMA SocksFits ==
  SocksOK <=> /\ st \in [Socks!Conns -> SocksStates] /\ tun \in [Socks!Conns -> SocksViews]
              /\ pend \in [Socks!UdpConns -> Nat]
              /\ up => \A c \in Socks!Conns : /\ Fits(st[c], tun[c])
                                              /\ c \in Socks!UdpConns /\ st[c] # "none" => c[1] \in relays
              /\ \A u \in Socks!UdpConns : st[u] = "ESTABLISHED" /\ pend[u] > 0 => u \in queue /\ task
BY Zenon DEF SocksOK, Fits, Socks!SocksInStep, Socks!PendingUdpServed

LEMMA SocksFitsNext ==
  SocksOK' <=> /\ st' \in [Socks!Conns -> SocksStates] /\ tun' \in [Socks!Conns -> SocksViews]
               /\ pend' \in [Socks!UdpConns -> Nat]
               /\ up' => \A c \in Socks!Conns : /\ Fits(st'[c], tun'[c])
                                                /\ c \in Socks!UdpConns /\ st'[c] # "none" => c[1] \in relays'
               /\ \A u \in Socks!UdpConns : st'[u] = "ESTABLISHED" /\ pend'[u] > 0 => u \in queue' /\ task'
BY Zenon DEF SocksOK, Fits, Socks!SocksInStep, Socks!PendingUdpServed

LEMMA SocksInit == Socks!Init => SocksOK
<1> SUFFICES ASSUME Socks!Init PROVE SocksOK
  OBVIOUS
<1>1. "none" \in SocksStates /\ "unknown" \in SocksViews /\ 0 \in Nat /\ Fits("none", "unknown")
  BY SMT DEF SocksStates, SocksViews, Fits
<1>2. /\ st = [c \in Socks!Conns |-> "none"] /\ tun = [c \in Socks!Conns |-> "unknown"]
      /\ pend = [u \in Socks!UdpConns |-> 0]
  BY Zenon DEF Socks!Init
<1>3. /\ st \in [Socks!Conns -> SocksStates] /\ tun \in [Socks!Conns -> SocksViews]
      /\ pend \in [Socks!UdpConns -> Nat]
  BY <1>1, <1>2, Zenon
<1>4. \A c \in Socks!Conns : Fits(st[c], tun[c]) /\ st[c] = "none"
  BY <1>1, <1>2, Zenon
<1>5. \A u \in Socks!UdpConns : ~(pend[u] > 0)
  <2>1. \A u \in Socks!UdpConns : pend[u] = 0
    BY <1>2, Zenon
  <2> QED BY <2>1, SMT
<1> QED BY <1>3, <1>4, <1>5, SocksFits, Zenon

\* Nothing of what the tunnel and the table agree on has changed.
LEMMA SocksSame ==
  ASSUME SocksOK, st' = st, tun' = tun, pend' = pend, relays' = relays, queue' = queue, task' = task, up' = up
  PROVE  SocksOK'
BY Zenon DEF SocksOK, Socks!SocksInStep, Socks!PendingUdpServed

\* A client's connection has gone on to the state s and the view v.
LEMMA SocksTcpStep ==
  ASSUME SocksOK, NEW t \in TcpConns, NEW s \in SocksStates, NEW v \in SocksViews, up => Fits(s, v),
         st' = [st EXCEPT ![t] = s], tun' = [tun EXCEPT ![t] = v], pend' = pend, relays \subseteq relays',
         queue' = queue, task' = task, up' = up
  PROVE  SocksOK'
<1>1. t \in Socks!Conns /\ t \notin Socks!UdpConns /\ Socks!UdpConns \subseteq Socks!Conns
  BY NetAssumption, Zenon DEF Socks!Conns, Socks!UdpConns
<1>2. /\ st \in [Socks!Conns -> SocksStates] /\ tun \in [Socks!Conns -> SocksViews]
      /\ pend \in [Socks!UdpConns -> Nat]
  BY Zenon DEF SocksOK
<1>3. /\ st' \in [Socks!Conns -> SocksStates] /\ tun' \in [Socks!Conns -> SocksViews]
      /\ st'[t] = s /\ tun'[t] = v
      /\ \A c \in Socks!Conns : c # t => st'[c] = st[c] /\ tun'[c] = tun[c]
  BY <1>1, <1>2, Zenon
<1>4. ASSUME up', NEW c \in Socks!Conns
      PROVE  Fits(st'[c], tun'[c]) /\ (c \in Socks!UdpConns /\ st'[c] # "none" => c[1] \in relays')
  <2>1. CASE c = t
    BY <1>1, <1>3, <1>4, <2>1, Zenon
  <2>2. CASE c # t
    BY <1>3, <1>4, <2>2, SocksFits, Zenon
  <2> QED BY <2>1, <2>2, Zenon
<1>5. ASSUME NEW u \in Socks!UdpConns, st'[u] = "ESTABLISHED", pend'[u] > 0
      PROVE  u \in queue' /\ task'
  BY <1>1, <1>3, <1>5, SocksFits, Zenon
<1> QED BY <1>2, <1>3, <1>4, <1>5, SocksFitsNext, Zenon

\* destroy_connection: a connection that stays has its relay still.
LEMMA SocksDestroyed ==
  ASSUME SocksOK, NEW cs, Socks!Destroy(cs), queue' = queue, task' = task, up' = up,
         \A u \in Socks!UdpConns : u \notin cs /\ st[u] # "none" /\ u[1] \in relays => u[1] \in relays'
  PROVE  SocksOK'
<1>1. /\ st \in [Socks!Conns -> SocksStates] /\ tun \in [Socks!Conns -> SocksViews]
      /\ pend \in [Socks!UdpConns -> Nat] /\ Socks!UdpConns \subseteq Socks!Conns
  BY Zenon DEF SocksOK, Socks!Conns
<1>2. /\ st' = [c \in Socks!Conns |-> IF c \in cs THEN "none" ELSE st[c]]
      /\ tun' = [c \in Socks!Conns |-> IF c \in cs /\ tun[c] # "unknown" THEN "closed" ELSE tun[c]]
      /\ pend' = [u \in Socks!UdpConns |-> IF u \in cs THEN 0 ELSE pend[u]]
  BY Zenon DEF Socks!Destroy
<1>3. "none" \in SocksStates /\ {"unknown", "closed"} \subseteq SocksViews /\ 0 \in Nat /\ ~(0 > 0)
      /\ Fits("none", "unknown") /\ Fits("none", "closed") /\ "none" # "ESTABLISHED"
  BY SMT DEF SocksStates, SocksViews, Fits
<1>4. /\ st' \in [Socks!Conns -> SocksStates] /\ tun' \in [Socks!Conns -> SocksViews]
      /\ pend' \in [Socks!UdpConns -> Nat]
  BY <1>1, <1>2, <1>3, Zenon
<1>5. \A c \in Socks!Conns : /\ c \in cs => st'[c] = "none" /\ tun'[c] \in {"unknown", "closed"}
                             /\ c \notin cs => st'[c] = st[c] /\ tun'[c] = tun[c]
  BY <1>2, Zenon
<1>6. \A u \in Socks!UdpConns : /\ u \in cs => pend'[u] = 0
                                /\ u \notin cs => pend'[u] = pend[u]
  BY <1>2, Zenon
<1>7. ASSUME up', NEW c \in Socks!Conns
      PROVE  Fits(st'[c], tun'[c]) /\ (c \in Socks!UdpConns /\ st'[c] # "none" => c[1] \in relays')
  <2>1. CASE c \in cs
    BY <1>3, <1>5, <2>1, Zenon
  <2>2. CASE c \notin cs
    BY <1>5, <1>7, <2>2, SocksFits, Zenon
  <2> QED BY <2>1, <2>2, Zenon
<1>8. ASSUME NEW u \in Socks!UdpConns, st'[u] = "ESTABLISHED", pend'[u] > 0
      PROVE  u \in queue' /\ task'
  <2>1. u \notin cs
    BY <1>3, <1>6, <1>8, Zenon
  <2>2. st[u] = "ESTABLISHED" /\ pend[u] > 0
    BY <1>1, <1>5, <1>6, <1>8, <2>1, Zenon
  <2> QED BY <2>2, SocksFits, Zenon
<1> QED BY <1>4, <1>7, <1>8, SocksFitsNext, Zenon

LEMMA SocksCloseTcp ==
  ASSUME SocksOK, NEW t \in TcpConns, Socks!CloseTcp(t), queue' = queue, task' = task, up' = up
  PROVE  SocksOK'
<1>1. CASE t \in relays
  <2>1. Socks!Destroy({t} \cup Socks!Relayed(t)) /\ relays' = relays \ {t}
    BY <1>1, Zenon DEF Socks!CloseTcp, Socks!TerminateUdpAssociation
  <2>2. \A u \in Socks!UdpConns : u \notin {t} \cup Socks!Relayed(t) /\ st[u] # "none" /\ u[1] \in relays
                                    => u[1] \in relays'
    BY <2>1, Zenon DEF Socks!Relayed
  <2> HIDE DEF Socks!Relayed
  <2> QED BY <2>1, <2>2, SocksDestroyed, Zenon
<1>2. CASE t \notin relays
  <2>1. Socks!Destroy({t}) /\ relays' = relays
    BY <1>2, Zenon DEF Socks!CloseTcp
  <2> QED BY <2>1, SocksDestroyed, Zenon
<1> QED BY <1>1, <1>2, Zenon

\* A step that only moves a client's connection to the state s, when the tunnel knows nothing that s contradicts.
LEMMA SocksNegotiated ==
  ASSUME SocksOK, NEW t \in TcpConns, st[t] \in {"IDLE", "WAITING_USERNAME_PASSWORD", "WAITING_REQUEST"},
         NEW s \in {"WAITING_USERNAME_PASSWORD", "WAITING_REQUEST", "ESTABLISHED", "FAILED"},
         st' = [st EXCEPT ![t] = s], tun' = tun, pend' = pend, relays \subseteq relays',
         queue' = queue, task' = task, up' = up
  PROVE  SocksOK'
<1>1. t \in Socks!Conns
  BY Zenon DEF Socks!Conns
<1>2. tun \in [Socks!Conns -> SocksViews] /\ tun[t] \in SocksViews
  BY <1>1, Zenon DEF SocksOK
<1>3. tun' = [tun EXCEPT ![t] = tun[t]]
  BY <1>2, Zenon
<1>4. up => Fits(st[t], tun[t])
  BY <1>1, SocksFits, Zenon
<1>5. up => Fits(s, tun[t])
  BY <1>4, SMT DEF Fits
<1>6. s \in SocksStates
  BY Zenon DEF SocksStates
<1> QED BY <1>2, <1>3, <1>5, <1>6, SocksTcpStep, Zenon

LEMMA SocksNegotiate ==
  ASSUME SocksOK, NEW t \in TcpConns, st[t] \in {"IDLE", "WAITING_USERNAME_PASSWORD", "WAITING_REQUEST"},
         NEW m, Socks!Negotiate(t, m), queue' = queue, task' = task, up' = up
  PROVE  SocksOK'
<1>1. \/ Socks!Greeted(t, IF UseAuth THEN "WAITING_USERNAME_PASSWORD" ELSE "WAITING_REQUEST")
      \/ Socks!Greeted(t, "WAITING_REQUEST")
      \/ Socks!ConnectRequest(t)
      \/ Socks!AssociateRequest(t)
      \/ Socks!Refuse(t)
  BY Zenon DEF Socks!Negotiate
<1>2. ASSUME NEW s \in {"WAITING_USERNAME_PASSWORD", "WAITING_REQUEST"}, Socks!Greeted(t, s)
      PROVE  SocksOK'
  <2>1. st' = [st EXCEPT ![t] = s] /\ tun' = tun /\ pend' = pend /\ relays \subseteq relays'
    BY <1>2, Zenon DEF Socks!Greeted
  <2>2. s \in {"WAITING_USERNAME_PASSWORD", "WAITING_REQUEST", "ESTABLISHED", "FAILED"}
    BY Zenon
  <2> QED BY <2>1, <2>2, SocksNegotiated, Zenon
<1>3. CASE Socks!Greeted(t, IF UseAuth THEN "WAITING_USERNAME_PASSWORD" ELSE "WAITING_REQUEST")
  <2> DEFINE s == IF UseAuth THEN "WAITING_USERNAME_PASSWORD" ELSE "WAITING_REQUEST"
  <2>1. s \in {"WAITING_USERNAME_PASSWORD", "WAITING_REQUEST"} /\ Socks!Greeted(t, s)
    BY <1>3, Zenon
  <2> HIDE DEF s
  <2> QED BY <1>2, <2>1, Zenon
<1>4. CASE Socks!Greeted(t, "WAITING_REQUEST")
  BY <1>2, <1>4, Zenon
<1>5. CASE Socks!ConnectRequest(t)
  <2>1. /\ st' = [st EXCEPT ![t] = "WAITING_CONNECT_RESULT"] /\ tun' = [tun EXCEPT ![t] = "requested"]
        /\ pend' = pend /\ relays \subseteq relays'
    BY <1>5, Zenon DEF Socks!ConnectRequest
  <2>2. /\ "WAITING_CONNECT_RESULT" \in SocksStates /\ "requested" \in SocksViews
        /\ Fits("WAITING_CONNECT_RESULT", "requested")
    BY SMT DEF SocksStates, SocksViews, Fits
  <2> QED BY <2>1, <2>2, SocksTcpStep, Zenon
<1>6. CASE Socks!AssociateRequest(t)
  <2>1. PICK ok \in BOOLEAN : /\ st' = [st EXCEPT ![t] = IF ok THEN "ESTABLISHED" ELSE "FAILED"]
                              /\ relays' = IF ok THEN relays \cup {t} ELSE relays
    BY <1>6, Zenon DEF Socks!AssociateRequest
  <2>2. relays \subseteq relays' /\ tun' = tun /\ pend' = pend
    BY <1>6, <2>1, Zenon DEF Socks!AssociateRequest
  <2> DEFINE s == IF ok THEN "ESTABLISHED" ELSE "FAILED"
  <2>3. st' = [st EXCEPT ![t] = s] /\ s \in {"WAITING_USERNAME_PASSWORD", "WAITING_REQUEST", "ESTABLISHED", "FAILED"}
    BY <2>1, Zenon
  <2> HIDE DEF s
  <2> QED BY <2>2, <2>3, SocksNegotiated, Zenon
<1>7. CASE Socks!Refuse(t)
  <2>1. st' = [st EXCEPT ![t] = "FAILED"] /\ tun' = tun /\ pend' = pend /\ relays \subseteq relays'
    BY <1>7, Zenon DEF Socks!Refuse
  <2> QED BY <2>1, SocksNegotiated, Zenon
<1> QED BY <1>1, <1>3, <1>4, <1>5, <1>6, <1>7, Zenon

LEMMA SocksReadable ==
  ASSUME SocksOK, NEW t \in TcpConns, Socks!Readable(t)
  PROVE  SocksOK'
<1>1. queue' = queue /\ task' = task /\ up' = up
  BY Zenon DEF Socks!Readable
<1>2. \/ Socks!CloseTcp(t)
      \/ Socks!TunnelReads(t)
      \/ /\ st[t] \in {"IDLE", "WAITING_USERNAME_PASSWORD", "WAITING_REQUEST"}
         /\ Socks!Negotiate(t, Head(input[t]))
      \/ st' = st /\ relays' = relays /\ pend' = pend /\ tun' = tun
  BY Zenon DEF Socks!Readable
<1>3. CASE Socks!CloseTcp(t)
  BY <1>1, <1>3, SocksCloseTcp, Zenon
<1>4. CASE Socks!TunnelReads(t)
  <2>1. Socks!CloseTcp(t) \/ (st' = st /\ relays' = relays /\ pend' = pend /\ tun' = tun)
    BY <1>4, Zenon DEF Socks!TunnelReads
  <2> QED BY <1>1, <2>1, SocksCloseTcp, SocksSame, Zenon
<1>5. CASE /\ st[t] \in {"IDLE", "WAITING_USERNAME_PASSWORD", "WAITING_REQUEST"}
           /\ Socks!Negotiate(t, Head(input[t]))
  BY <1>1, <1>5, SocksNegotiate, Zenon
<1>6. CASE st' = st /\ relays' = relays /\ pend' = pend /\ tun' = tun
  BY <1>1, <1>6, SocksSame, Zenon
<1> QED BY <1>2, <1>3, <1>4, <1>5, <1>6, Zenon

LEMMA SocksWriteFlush ==
  ASSUME SocksOK, NEW t \in TcpConns, Socks!WriteFlush(t)
  PROVE  SocksOK'
<1>1. queue' = queue /\ task' = task /\ up' = up
  BY Zenon DEF Socks!WriteFlush
<1>2. CASE Socks!CloseTcp(t)
  BY <1>1, <1>2, SocksCloseTcp, Zenon
<1>3. CASE /\ st' = [st EXCEPT ![t] = "ESTABLISHED"] /\ tun' = [tun EXCEPT ![t] = "accepted"]
           /\ pend' = pend /\ relays' = relays
  <2>1. "ESTABLISHED" \in SocksStates /\ "accepted" \in SocksViews /\ Fits("ESTABLISHED", "accepted")
    BY SMT DEF SocksStates, SocksViews, Fits
  <2> QED BY <1>1, <1>3, <2>1, SocksTcpStep, Zenon
<1>4. CASE st' = st /\ relays' = relays /\ pend' = pend /\ tun' = tun
  BY <1>1, <1>4, SocksSame, Zenon
<1> QED BY <1>2, <1>3, <1>4, Zenon DEF Socks!WriteFlush

LEMMA SocksAccept ==
  ASSUME SocksOK, NEW t \in TcpConns, Socks!Accept(t)
  PROVE  SocksOK'
<1>1. /\ st' = [st EXCEPT ![t] = "IDLE"] /\ tun' = tun /\ tun[t] = "unknown" /\ pend' = pend /\ relays' = relays
      /\ queue' = queue /\ task' = task /\ up' = up
  BY Zenon DEF Socks!Accept
<1>2. tun' = [tun EXCEPT ![t] = "unknown"]
  <2>1. tun \in [Socks!Conns -> SocksViews]
    BY Zenon DEF SocksOK
  <2> QED BY <1>1, <2>1, Zenon
<1>3. "IDLE" \in SocksStates /\ "unknown" \in SocksViews /\ Fits("IDLE", "unknown")
  BY SMT DEF SocksStates, SocksViews, Fits
<1> QED BY <1>1, <1>2, <1>3, SocksTcpStep, Zenon

LEMMA SocksComplete ==
  ASSUME SocksOK, NEW c \in Socks!Conns, Socks!CompleteConnectRequest(c)
  PROVE  SocksOK'
<1>1. PICK ok \in BOOLEAN : IF c \in TcpConns THEN Socks!CompleteTcp(c, ok) ELSE Socks!CompleteUdp(c, ok)
  BY Zenon DEF Socks!CompleteConnectRequest
<1>2. tun[c] = "requested" /\ up' = up
  BY Zenon DEF Socks!CompleteConnectRequest
<1>3. CASE c \in TcpConns
  <2> DEFINE s == IF ok THEN "WAITING_ACCEPT" ELSE "FAILED"
             v == IF ok THEN "passed" ELSE "rejected"
  <2>1. /\ st' = [st EXCEPT ![c] = s] /\ tun' = [tun EXCEPT ![c] = v]
        /\ pend' = pend /\ relays' = relays /\ queue' = queue /\ task' = task
    BY <1>1, <1>3, Zenon DEF Socks!CompleteTcp
  <2>2. s \in SocksStates /\ v \in SocksViews /\ Fits(s, v)
    BY SMT DEF SocksStates, SocksViews, Fits
  <2> HIDE DEF s, v
  <2> QED BY <1>2, <1>3, <2>1, <2>2, SocksTcpStep, Zenon
<1>4. CASE c \notin TcpConns
  <2>1. c \in Socks!UdpConns /\ Socks!CompleteUdp(c, ok)
    BY <1>1, <1>4, Zenon DEF Socks!Conns
  <2>2. CASE Socks!Destroy({c}) /\ relays' = relays /\ queue' = queue /\ task' = task
    BY <1>2, <2>2, SocksDestroyed, Zenon
  <2>3. CASE /\ st' = [st EXCEPT ![c] = "ESTABLISHED"] /\ tun' = [tun EXCEPT ![c] = "accepted"]
             /\ queue' = queue \cup {c} /\ task' = TRUE /\ relays' = relays /\ pend' = pend
    <3>1. /\ "ESTABLISHED" \in SocksStates /\ "accepted" \in SocksViews /\ Fits("ESTABLISHED", "accepted")
          /\ "WAITING_CONNECT_RESULT" # "none"
      BY SMT DEF SocksStates, SocksViews, Fits
    <3>2. /\ st \in [Socks!Conns -> SocksStates] /\ tun \in [Socks!Conns -> SocksViews]
          /\ pend \in [Socks!UdpConns -> Nat] /\ Socks!UdpConns \subseteq Socks!Conns
      BY Zenon DEF SocksOK, Socks!Conns
    <3>3. /\ st' \in [Socks!Conns -> SocksStates] /\ tun' \in [Socks!Conns -> SocksViews]
          /\ st'[c] = "ESTABLISHED" /\ tun'[c] = "accepted"
          /\ \A d \in Socks!Conns : d # c => st'[d] = st[d] /\ tun'[d] = tun[d]
      BY <2>3, <3>1, <3>2, Zenon
    <3>4. up => c[1] \in relays
      <4>1. up => st[c] = "WAITING_CONNECT_RESULT"
        BY <1>2, SocksFits, Zenon DEF Fits
      <4> QED BY <2>1, <3>1, <4>1, SocksFits, Zenon
    <3>5. ASSUME up', NEW d \in Socks!Conns
          PROVE  Fits(st'[d], tun'[d]) /\ (d \in Socks!UdpConns /\ st'[d] # "none" => d[1] \in relays')
      <4>1. CASE d = c
        BY <1>2, <2>3, <3>1, <3>3, <3>4, <3>5, <4>1, Zenon
      <4>2. CASE d # c
        BY <1>2, <2>3, <3>3, <3>5, <4>2, SocksFits, Zenon
      <4> QED BY <4>1, <4>2, Zenon
    <3>6. ASSUME NEW u \in Socks!UdpConns, st'[u] = "ESTABLISHED", pend'[u] > 0
          PROVE  u \in queue' /\ task'
      <4>1. CASE u = c
        BY <2>3, <4>1, Zenon
      <4>2. CASE u # c
        BY <2>3, <3>2, <3>3, <3>6, <4>2, SocksFits, Zenon
      <4> QED BY <4>1, <4>2, Zenon
    <3> QED BY <2>3, <3>2, <3>3, <3>5, <3>6, SocksFitsNext, Zenon
  <2> QED BY <2>1, <2>2, <2>3, Zenon DEF Socks!CompleteUdp
<1> QED BY <1>3, <1>4, Zenon

LEMMA SocksUdpPacket ==
  ASSUME SocksOK, NEW u \in Socks!UdpConns, Socks!UdpPacket(u)
  PROVE  SocksOK'
<1>1. /\ st \in [Socks!Conns -> SocksStates] /\ tun \in [Socks!Conns -> SocksViews]
      /\ pend \in [Socks!UdpConns -> Nat] /\ Socks!UdpConns \subseteq Socks!Conns
  BY Zenon DEF SocksOK, Socks!Conns
<1>2. u[1] \in relays /\ relays' = relays /\ queue' = queue /\ task' = task /\ up' = up
  BY Zenon DEF Socks!UdpPacket
<1>3. /\ "WAITING_CONNECT_RESULT" \in SocksStates /\ "requested" \in SocksViews
      /\ Fits("WAITING_CONNECT_RESULT", "requested") /\ "WAITING_CONNECT_RESULT" # "ESTABLISHED"
  BY SMT DEF SocksStates, SocksViews, Fits
<1>4. pend[u] + 1 \in Nat /\ 1 \in Nat
  <2>1. pend[u] \in Nat
    BY <1>1, Zenon
  <2> QED BY <2>1, SMT
<1>5. /\ st' \in [Socks!Conns -> SocksStates] /\ tun' \in [Socks!Conns -> SocksViews]
      /\ pend' \in [Socks!UdpConns -> Nat] /\ st'[u] = "WAITING_CONNECT_RESULT"
      /\ \A d \in Socks!Conns : d # u => st'[d] = st[d] /\ tun'[d] = tun[d]
      /\ \A d \in Socks!UdpConns : d # u => pend'[d] = pend[d]
      /\ up => Fits(st'[u], tun'[u])
  <2>1. CASE /\ st' = [st EXCEPT ![u] = "WAITING_CONNECT_RESULT"] /\ tun' = [tun EXCEPT ![u] = "requested"]
             /\ pend' = [pend EXCEPT ![u] = 1]
    BY <1>1, <1>3, <1>4, <2>1, Zenon
  <2>2. CASE st[u] = "WAITING_CONNECT_RESULT" /\ pend' = [pend EXCEPT ![u] = @ + 1] /\ st' = st /\ tun' = tun
    <3>1. up => Fits(st[u], tun[u])
      BY <1>1, SocksFits, Zenon
    <3> QED BY <1>1, <1>4, <2>2, <3>1, Zenon
  <2> QED BY <2>1, <2>2, Zenon DEF Socks!UdpPacket
<1>6. ASSUME up', NEW d \in Socks!Conns
      PROVE  Fits(st'[d], tun'[d]) /\ (d \in Socks!UdpConns /\ st'[d] # "none" => d[1] \in relays')
  <2>1. CASE d = u
    BY <1>2, <1>5, <1>6, <2>1, Zenon
  <2>2. CASE d # u
    BY <1>2, <1>5, <1>6, <2>2, SocksFits, Zenon
  <2> QED BY <2>1, <2>2, Zenon
<1>7. ASSUME NEW d \in Socks!UdpConns, st'[d] = "ESTABLISHED", pend'[d] > 0
      PROVE  d \in queue' /\ task'
  <2>1. d # u
    BY <1>3, <1>5, <1>7, Zenon
  <2> QED BY <1>1, <1>2, <1>5, <1>7, <2>1, SocksFits, Zenon
<1> QED BY <1>5, <1>6, <1>7, SocksFitsNext, Zenon

LEMMA SocksSendPending ==
  ASSUME SocksOK, Socks!SendPendingUdp
  PROVE  SocksOK'
<1>1. PICK cs \in SUBSET {u \in queue : pend[u] > 0} :
          /\ st' = [c \in Socks!Conns |-> IF c \in cs THEN "none" ELSE st[c]]
          /\ tun' = [c \in Socks!Conns |-> IF c \in cs THEN "closed" ELSE tun[c]]
  BY Zenon DEF Socks!SendPendingUdp
<1>2. /\ pend' = [u \in Socks!UdpConns |-> IF u \in queue THEN 0 ELSE pend[u]]
      /\ relays' = relays /\ up' = up
  BY Zenon DEF Socks!SendPendingUdp
<1>3. /\ st \in [Socks!Conns -> SocksStates] /\ tun \in [Socks!Conns -> SocksViews]
      /\ pend \in [Socks!UdpConns -> Nat] /\ Socks!UdpConns \subseteq Socks!Conns
  BY Zenon DEF SocksOK, Socks!Conns
<1>4. /\ "none" \in SocksStates /\ "closed" \in SocksViews /\ Fits("none", "closed") /\ "none" # "ESTABLISHED"
      /\ 0 \in Nat /\ ~(0 > 0)
  BY SMT DEF SocksStates, SocksViews, Fits
<1>5. /\ st' \in [Socks!Conns -> SocksStates] /\ tun' \in [Socks!Conns -> SocksViews]
      /\ pend' \in [Socks!UdpConns -> Nat]
  BY <1>1, <1>2, <1>3, <1>4, Zenon
<1>6. \A c \in Socks!Conns : /\ c \in cs => st'[c] = "none" /\ tun'[c] = "closed"
                             /\ c \notin cs => st'[c] = st[c] /\ tun'[c] = tun[c]
  BY <1>1, Zenon
<1>7. \A u \in Socks!UdpConns : /\ u \in queue => pend'[u] = 0
                                /\ u \notin queue => pend'[u] = pend[u]
  BY <1>2, Zenon
<1>8. ASSUME up', NEW c \in Socks!Conns
      PROVE  Fits(st'[c], tun'[c]) /\ (c \in Socks!UdpConns /\ st'[c] # "none" => c[1] \in relays')
  <2>1. CASE c \in cs
    BY <1>4, <1>6, <2>1, Zenon
  <2>2. CASE c \notin cs
    BY <1>2, <1>6, <1>8, <2>2, SocksFits, Zenon
  <2> QED BY <2>1, <2>2, Zenon
<1>9. ASSUME NEW u \in Socks!UdpConns, st'[u] = "ESTABLISHED", pend'[u] > 0
      PROVE  FALSE
  <2>1. u \notin queue /\ pend[u] > 0
    BY <1>4, <1>7, <1>9, Zenon
  <2>2. st[u] = "ESTABLISHED"
    BY <1>3, <1>4, <1>6, <1>9, Zenon
  <2> QED BY <2>1, <2>2, SocksFits, Zenon
<1> QED BY <1>5, <1>8, <1>9, SocksFitsNext, Zenon

LEMMA SocksStop ==
  ASSUME SocksOK, Socks!Stop
  PROVE  SocksOK'
<1>1. PICK told \in SUBSET TcpConns :
          tun' = [c \in Socks!Conns |->
                    IF tun[c] # "unknown" /\ (c \in Socks!UdpConns \/ c \in told) THEN "closed" ELSE tun[c]]
  BY Zenon DEF Socks!Stop
<1>2. up' = FALSE /\ st' = [c \in Socks!Conns |-> "none"] /\ pend' = [u \in Socks!UdpConns |-> 0]
  BY Zenon DEF Socks!Stop
<1>3. "none" \in SocksStates /\ "closed" \in SocksViews /\ 0 \in Nat /\ ~(0 > 0)
  BY SMT DEF SocksStates, SocksViews
<1>4. tun \in [Socks!Conns -> SocksViews]
  BY Zenon DEF SocksOK
<1>5. /\ st' \in [Socks!Conns -> SocksStates] /\ tun' \in [Socks!Conns -> SocksViews]
      /\ pend' \in [Socks!UdpConns -> Nat]
  BY <1>1, <1>2, <1>3, <1>4, Zenon
<1>6. \A u \in Socks!UdpConns : ~(pend'[u] > 0)
  BY <1>2, <1>3, Zenon
<1> QED BY <1>2, <1>5, <1>6, SocksFitsNext, Zenon

LEMMA SocksStep ==
  ASSUME SocksOK, [Socks!Next]_(Socks!socksVars)
  PROVE  SocksOK'
<1>1. CASE UNCHANGED Socks!socksVars
  <2>1. st' = st /\ tun' = tun /\ pend' = pend /\ relays' = relays /\ queue' = queue /\ task' = task /\ up' = up
    BY <1>1, Zenon DEF Socks!socksVars
  <2> QED BY <2>1, SocksSame, Zenon
<1>2. ASSUME NEW t \in TcpConns,
             \/ Socks!Accept(t) \/ Socks!ClientSends(t) \/ Socks!Readable(t) \/ Socks!WriteFlush(t)
             \/ Socks!SocketError(t) \/ Socks!TurnRead(t)
      PROVE  SocksOK'
  <2>1. CASE Socks!ClientSends(t) \/ Socks!TurnRead(t)
    <3>1. st' = st /\ tun' = tun /\ pend' = pend /\ relays' = relays /\ queue' = queue /\ task' = task /\ up' = up
      BY <2>1, Zenon DEF Socks!ClientSends, Socks!TurnRead
    <3> QED BY <3>1, SocksSame, Zenon
  <2>2. CASE Socks!SocketError(t)
    BY <2>2, SocksCloseTcp, Zenon DEF Socks!SocketError
  <2> QED BY <1>2, <2>1, <2>2, SocksAccept, SocksReadable, SocksWriteFlush, Zenon
<1>3. ASSUME NEW c \in Socks!Conns,
             Socks!CompleteConnectRequest(c) \/ Socks!CloseConnection(c) \/ Socks!SendData(c)
      PROVE  SocksOK'
  <2>1. CASE Socks!CloseConnection(c)
    <3>1. Socks!Destroy({c}) /\ relays' = relays /\ queue' = queue /\ task' = task /\ up' = up
      BY <2>1, Zenon DEF Socks!CloseConnection
    <3> QED BY <3>1, SocksDestroyed, Zenon
  <2>2. CASE Socks!SendData(c)
    <3>1. st' = st /\ tun' = tun /\ pend' = pend /\ relays' = relays /\ queue' = queue /\ task' = task /\ up' = up
      BY <2>2, Zenon DEF Socks!SendData
    <3> QED BY <3>1, SocksSame, Zenon
  <2> QED BY <1>3, <2>1, <2>2, SocksComplete, Zenon
<1> QED BY <1>1, <1>2, <1>3, SocksUdpPacket, SocksSendPending, SocksStop, Zenon DEF Socks!Next

\* While the SOCKS5 listener runs it and the tunnel agree on every connection, and the UDP packets that came before
\* the tunnel answered reach it, for any clients, destinations and bounds and any order of messages, answers,
\* closes and errors (socks5_listener.cpp).
THEOREM SocksIsServed == Socks!Spec => []SocksServed
<1>1. SocksOK /\ [Socks!Next]_(Socks!socksVars) => SocksOK'
  BY SocksStep
<1>2. SocksOK => SocksServed
  BY Zenon DEF SocksOK, SocksServed
<1> QED BY <1>1, <1>2, SocksInit, PTL DEF Socks!Spec

-----------------------------------------------------------------------------
(* The DNS resolver.                                                       *)

ResolverQueries == SUBSET [of : Nat, type : RecordTypes, kind : Resolver!Kinds]
ResolverState ==
    [conn : {"none", "asked", "passed", "rejected", "open"}, accepted : BOOLEAN, queries : ResolverQueries,
     deadlines : ResolverQueries, check : BOOLEAN, timer : BOOLEAN]
ResolverTasks == {"resolve", "accept", "close"}

\* A resolver whose resolutions are in L.
ResolverIn(L) ==
    [left : L, queue : [Resolver!Kinds -> SUBSET Nat], state : ResolverState, tasks : Seq(ResolverTasks)]

WillResolve(s) == \E n \in DOMAIN s.tasks : s.tasks[n] = "resolve"

\* ResolutionsDriven, of the resolver s.
Drives(s) == \A i \in DOMAIN s.left : s.state.timer \/ \E k \in Resolver!Kinds : i \in s.queue[k] /\ WillResolve(s)

\* Without a connection its timeout is not running.
Resolves(s) == (\E L : s \in ResolverIn(L)) /\ (s.state.conn = "none" => ~s.state.timer) /\ Drives(s)

ResolverOK == Resolves(rsv) /\ nextRes \in Nat

LEMMA ResolverFields ==
  ASSUME NEW L, NEW s \in ResolverIn(L)
  PROVE  /\ s.left \in L /\ s.queue \in [Resolver!Kinds -> SUBSET Nat] /\ s.tasks \in Seq(ResolverTasks)
         /\ s.state \in ResolverState /\ s.state.accepted \in BOOLEAN /\ s.state.queries \in ResolverQueries
         /\ s.state.conn \in {"none", "asked", "passed", "rejected", "open"}
         /\ s.state.deadlines \in ResolverQueries /\ s.state.check \in BOOLEAN /\ s.state.timer \in BOOLEAN
BY Zenon DEF ResolverIn, ResolverState

\* Resolutions may go, the timer be started, queues and tasks grow.
LEMMA ResolvesOn ==
  ASSUME NEW s, Resolves(s), NEW L, NEW t \in ResolverIn(L), DOMAIN t.left \subseteq DOMAIN s.left,
         t.state.conn = "none" => ~t.state.timer, s.state.timer => t.state.timer,
         \A k \in Resolver!Kinds : \A i \in DOMAIN t.left : i \in s.queue[k] => i \in t.queue[k],
         WillResolve(s) => WillResolve(t)
  PROVE  Resolves(t)
BY Zenon DEF Resolves, Drives

LEMMA ResolvesNothing ==
  ASSUME NEW L, NEW s \in ResolverIn(L), DOMAIN s.left = {}, s.state.conn = "none" => ~s.state.timer
  PROVE  Resolves(s)
BY Zenon DEF Resolves, Drives

LEMMA NoResolverState ==
  /\ Resolver!NoState \in ResolverState /\ Resolver!NoState.conn = "none" /\ ~Resolver!NoState.timer
  /\ <<>> \in Seq(ResolverTasks) /\ DOMAIN <<>> = {}
  /\ [k \in Resolver!Kinds |-> {}] \in [Resolver!Kinds -> SUBSET Nat]
<1>1. {} \in ResolverQueries
  BY Zenon DEF ResolverQueries
<1>2. Resolver!NoState \in ResolverState /\ Resolver!NoState.conn = "none" /\ ~Resolver!NoState.timer
  BY <1>1, Zenon DEF Resolver!NoState, ResolverState
<1>3. <<>> \in Seq(ResolverTasks) /\ DOMAIN <<>> = {}
  BY SMT
<1> QED BY <1>2, <1>3, Zenon

LEMMA ResolverInit == Resolver!Init => ResolverOK
<1> SUFFICES ASSUME Resolver!Init PROVE ResolverOK
  OBVIOUS
<1>1. rsv \in ResolverIn({<<>>}) /\ rsv.left = <<>> /\ rsv.state = Resolver!NoState
  BY NoResolverState, Zenon DEF Resolver!Init, ResolverIn
<1>2. nextRes \in Nat
  BY SMT DEF Resolver!Init
<1>3. Resolves(rsv)
  BY <1>1, NoResolverState, ResolvesNothing, Zenon
<1> QED BY <1>2, <1>3, Zenon DEF ResolverOK

\* A task more.
LEMMA TaskSubmitted ==
  ASSUME NEW L, NEW s \in ResolverIn(L), NEW job \in ResolverTasks
  PROVE  /\ Resolver!Submitted(s, job) \in ResolverIn(L) /\ Resolver!Submitted(s, job).left = s.left
         /\ Resolver!Submitted(s, job).queue = s.queue /\ Resolver!Submitted(s, job).state = s.state
         /\ WillResolve(s) => WillResolve(Resolver!Submitted(s, job))
         /\ job = "resolve" => WillResolve(Resolver!Submitted(s, job))
<1> DEFINE more == Append(s.tasks, job)
           t == [s EXCEPT !.tasks = more]
<1>1. s.tasks \in Seq(ResolverTasks)
  BY ResolverFields, Zenon
<1>2. /\ more \in Seq(ResolverTasks)
      /\ \A n \in DOMAIN s.tasks : n \in DOMAIN more /\ more[n] = s.tasks[n]
      /\ Len(s.tasks) + 1 \in DOMAIN more /\ more[Len(s.tasks) + 1] = job
  BY <1>1, SMT
<1> HIDE DEF more
<1>3. t \in ResolverIn(L) /\ t.left = s.left /\ t.queue = s.queue /\ t.state = s.state /\ t.tasks = more
  BY <1>2, Zenon DEF ResolverIn
<1> HIDE DEF t
<1>4. CASE \E i \in DOMAIN s.tasks : s.tasks[i] = job
  <2>1. Resolver!Submitted(s, job) = s
    BY <1>4, Zenon DEF Resolver!Submitted
  <2> QED BY <1>4, <2>1, Zenon DEF WillResolve
<1>5. CASE ~\E i \in DOMAIN s.tasks : s.tasks[i] = job
  <2>1. Resolver!Submitted(s, job) = t
    BY <1>5, Zenon DEF Resolver!Submitted, t, more
  <2>2. (WillResolve(s) => WillResolve(t)) /\ (job = "resolve" => WillResolve(t))
    BY <1>2, <1>3, Zenon DEF WillResolve
  <2> QED BY <1>3, <2>1, <2>2, Zenon
<1> QED BY <1>4, <1>5, Zenon

LEMMA SubmittedResolves ==
  ASSUME NEW s, Resolves(s), NEW job \in ResolverTasks
  PROVE  Resolves(Resolver!Submitted(s, job))
<1>1. PICK L : s \in ResolverIn(L)
  BY Zenon DEF Resolves
<1> DEFINE t == Resolver!Submitted(s, job)
<1>2. t \in ResolverIn(L) /\ t.left = s.left /\ t.queue = s.queue /\ t.state = s.state /\ (WillResolve(s) => WillResolve(t))
  BY <1>1, TaskSubmitted, Zenon
<1>3. s.state.conn = "none" => ~s.state.timer
  BY Zenon DEF Resolves
<1> HIDE DEF t
<1>4. Resolves(t)
  BY <1>2, <1>3, ResolvesOn, Zenon
<1> QED BY <1>4, Zenon DEF t

\* resolve_queue keeps the connection.
LEMMA QueueResolved ==
  ASSUME NEW L, NEW s \in ResolverIn(L), NEW k \in Resolver!Kinds, NEW t \in Resolver!ResolveQueue(s, k)
  PROVE  t \in ResolverIn(L) /\ t.state.conn = s.state.conn
<1> DEFINE choices == (SUBSET s.queue[k]) \X (SUBSET [of : s.queue[k] \cap DOMAIN s.left, type : RecordTypes, kind : {k}])
<1>1. PICK p \in choices :
        t = [s EXCEPT !.queue[k] = @ \ p[1], !.state.queries = @ \cup p[2], !.state.deadlines = @ \cup p[2],
                      !.state.check = @ \/ p[2] # {}]
  BY Zenon DEF Resolver!ResolveQueue
<1>2. s.queue \in [Resolver!Kinds -> SUBSET Nat] /\ s.state \in ResolverState
  BY ResolverFields, Zenon
<1>3. p[2] \in ResolverQueries
  <2>1. p[2] \subseteq [of : s.queue[k] \cap DOMAIN s.left, type : RecordTypes, kind : {k}]
    BY <1>1, Zenon
  <2>2. s.queue[k] \subseteq Nat
    BY <1>2, Zenon
  <2>3. [of : s.queue[k] \cap DOMAIN s.left, type : RecordTypes, kind : {k}]
          \subseteq [of : Nat, type : RecordTypes, kind : Resolver!Kinds]
    BY <2>2, Zenon
  <2> QED BY <2>1, <2>3, Zenon DEF ResolverQueries
<1> DEFINE rest == s.queue[k] \ p[1]
           q == [s.queue EXCEPT ![k] = rest]
           asked == s.state.queries \cup p[2]
           timed == s.state.deadlines \cup p[2]
           due == s.state.check \/ p[2] # {}
           r == [s.state EXCEPT !.queries = asked, !.deadlines = timed, !.check = due]
<1>4. q \in [Resolver!Kinds -> SUBSET Nat]
  <2>1. rest \in SUBSET Nat
    BY <1>2, Zenon
  <2> HIDE DEF rest
  <2> QED BY <1>2, <2>1, Zenon
<1>5. asked \in ResolverQueries /\ timed \in ResolverQueries /\ due \in BOOLEAN
  <2>1. s.state.queries \in ResolverQueries /\ s.state.deadlines \in ResolverQueries
    BY ResolverFields, Zenon
  <2> QED BY <1>3, <2>1, Zenon DEF ResolverQueries
<1>6. t = [s EXCEPT !.queue = q, !.state = r]
  BY <1>1, Zenon
<1> HIDE DEF rest, asked, timed, due
<1>7. r \in ResolverState /\ r.conn = s.state.conn
  BY <1>2, <1>5, Zenon DEF ResolverState
<1> HIDE DEF q, r
<1> QED BY <1>4, <1>6, <1>7, Zenon DEF ResolverIn

\* The timeout of the connection is started.
LEMMA TimerStarted ==
  ASSUME NEW L, NEW s \in ResolverIn(L), s.state.conn # "none"
  PROVE  Resolves([s EXCEPT !.state.timer = TRUE])
<1> DEFINE r == [s.state EXCEPT !.timer = TRUE]
           t == [s EXCEPT !.state = r]
<1>1. s.state \in ResolverState
  BY ResolverFields, Zenon
<1>2. r \in ResolverState /\ r.conn = s.state.conn /\ r.timer = TRUE
  BY <1>1, Zenon DEF ResolverState
<1>3. [s EXCEPT !.state.timer = TRUE] = t
  BY Zenon
<1> HIDE DEF r
<1>4. t \in ResolverIn(L) /\ t.state = r
  BY <1>2, Zenon DEF ResolverIn
<1> HIDE DEF t
<1>5. Resolves(t)
  BY <1>2, <1>4, Zenon DEF Resolves, Drives
<1> QED BY <1>3, <1>5, Zenon

\* resolve_pending_domains leaves the timeout running, unless no queue has an entry.
LEMMA PendingResolved ==
  ASSUME NEW L, NEW s \in ResolverIn(L), s.state.conn = "none" => ~s.state.timer,
         (\A k \in Resolver!Kinds : s.queue[k] = {}) => s.state.timer \/ DOMAIN s.left = {},
         NEW t \in Resolver!ResolvePending(s)
  PROVE  Resolves(t)
<1>1. CASE \A k \in Resolver!Kinds : s.queue[k] = {}
  <2>1. t = s
    BY <1>1, Zenon DEF Resolver!ResolvePending
  <2> QED BY <1>1, <2>1, Zenon DEF Resolves, Drives
<1>2. CASE ~(\A k \in Resolver!Kinds : s.queue[k] = {}) /\ s.state.conn = "none"
  <2> DEFINE r == [s.state EXCEPT !.conn = "asked"]
             asked == [s EXCEPT !.state = r]
  <2>1. t = [s EXCEPT !.state.conn = "asked", !.state.timer = TRUE]
    BY <1>2, Zenon DEF Resolver!ResolvePending
  <2>2. t = [asked EXCEPT !.state.timer = TRUE]
    <3>1. s.state \in ResolverState
      BY ResolverFields, Zenon
    <3> QED BY <2>1, <3>1, Zenon DEF ResolverIn, ResolverState
  <2>3. r \in ResolverState /\ r.conn = "asked"
    <3>1. s.state \in ResolverState
      BY ResolverFields, Zenon
    <3> QED BY <3>1, Zenon DEF ResolverState
  <2> HIDE DEF r
  <2>4. asked \in ResolverIn(L) /\ asked.state = r
    BY <2>3, Zenon DEF ResolverIn
  <2> HIDE DEF asked
  <2>5. asked.state.conn # "none"
    BY <2>3, <2>4, SMT
  <2> QED BY <2>2, <2>4, <2>5, TimerStarted, Zenon
<1>3. CASE ~(\A k \in Resolver!Kinds : s.queue[k] = {}) /\ s.state.conn # "none" /\ ~s.state.accepted
  <2>1. t = [s EXCEPT !.state.timer = TRUE]
    BY <1>3, Zenon DEF Resolver!ResolvePending
  <2> QED BY <1>3, <2>1, TimerStarted, Zenon
<1>4. CASE ~(\A k \in Resolver!Kinds : s.queue[k] = {}) /\ s.state.conn # "none" /\ s.state.accepted
  <2>1. t \in {[u EXCEPT !.state.timer = TRUE] :
          u \in UNION {Resolver!ResolveQueue(v, "foreground") : v \in Resolver!ResolveQueue(s, "background")}}
    BY <1>4, Zenon DEF Resolver!ResolvePending
  <2>2. PICK u \in UNION {Resolver!ResolveQueue(v, "foreground") : v \in Resolver!ResolveQueue(s, "background")} :
          t = [u EXCEPT !.state.timer = TRUE]
    BY <2>1, Zenon
  <2>3. PICK v \in Resolver!ResolveQueue(s, "background") : u \in Resolver!ResolveQueue(v, "foreground")
    BY <2>2, Zenon
  <2>4. "background" \in Resolver!Kinds /\ "foreground" \in Resolver!Kinds
    BY Zenon DEF Resolver!Kinds
  <2>5. v \in ResolverIn(L) /\ v.state.conn = s.state.conn
    BY <2>4, QueueResolved, Zenon
  <2>6. u \in ResolverIn(L) /\ u.state.conn = s.state.conn
    BY <2>4, <2>5, <2>3, QueueResolved, Zenon
  <2> QED BY <1>4, <2>2, <2>6, TimerStarted, Zenon
<1> QED BY <1>1, <1>2, <1>3, <1>4, Zenon

\* What looks at the queues of a resolver that drives its resolutions keeps driving them.
LEMMA PendingResolves ==
  ASSUME NEW s, Resolves(s), NEW t \in Resolver!ResolvePending(s)
  PROVE  Resolves(t)
<1>1. PICK L : s \in ResolverIn(L)
  BY Zenon DEF Resolves
<1>2. (\A k \in Resolver!Kinds : s.queue[k] = {}) => s.state.timer \/ DOMAIN s.left = {}
  BY Zenon DEF Resolves, Drives
<1>3. s.state.conn = "none" => ~s.state.timer
  BY Zenon DEF Resolves
<1> QED BY <1>1, <1>2, <1>3, PendingResolved, Zenon

\* The answered or expired queries leave.
LEMMA SettledResolves ==
  ASSUME NEW s, Resolves(s), NEW qs
  PROVE  Resolves(Resolver!Settled(s, qs))
<1>1. PICK L : s \in ResolverIn(L)
  BY Zenon DEF Resolves
<1> DEFINE rest == [i \in DOMAIN s.left |-> s.left[i] \ {x.type : x \in {p \in qs : p.of = i}}]
           l == Resolver!Without(rest, {i \in DOMAIN rest : rest[i] = {}})
           asked == s.state.queries \ qs
           r == [s.state EXCEPT !.queries = asked]
           t == [s EXCEPT !.left = l, !.queue = s.queue, !.state = r, !.tasks = s.tasks]
<1>2. DOMAIN l \subseteq DOMAIN s.left
  BY Zenon DEF Resolver!Without
<1>3. /\ s.state \in ResolverState /\ s.queue \in [Resolver!Kinds -> SUBSET Nat] /\ s.tasks \in Seq(ResolverTasks)
      /\ s.state.queries \in ResolverQueries
  BY <1>1, ResolverFields, Zenon
<1>4. asked \in ResolverQueries
  BY <1>3, Zenon DEF ResolverQueries
<1>5. Resolver!Settled(s, qs) = [s EXCEPT !.state.queries = asked, !.left = l]
  BY Zenon DEF Resolver!Settled
<1> HIDE DEF rest, l, asked
<1>6. r \in ResolverState /\ r.conn = s.state.conn /\ r.timer = s.state.timer
  BY <1>3, <1>4, Zenon DEF ResolverState
<1>7. Resolver!Settled(s, qs) = t
  BY <1>1, <1>5, Zenon DEF ResolverIn
<1> HIDE DEF r
<1>8. t \in ResolverIn({l}) /\ t.left = l /\ t.queue = s.queue /\ t.state = r /\ t.tasks = s.tasks
  BY <1>1, <1>3, <1>6, Zenon DEF ResolverIn
<1>9. s.state.conn = "none" => ~s.state.timer
  BY Zenon DEF Resolves
<1> HIDE DEF t
<1>10. WillResolve(s) => WillResolve(t)
  BY <1>8, Zenon DEF WillResolve
<1>11. Resolves(t)
  BY <1>2, <1>6, <1>8, <1>9, <1>10, ResolvesOn, Zenon
<1> QED BY <1>7, <1>11, Zenon

\* close_connection: every resolution is raised.
LEMMA ClosedResolves ==
  ASSUME NEW L, NEW s \in ResolverIn(L)
  PROVE  /\ Resolves(Resolver!CloseConnection(s)) /\ Resolver!CloseConnection(s) \in ResolverIn({<<>>})
         /\ Resolver!CloseConnection(s).left = <<>>
<1> DEFINE none == [k \in Resolver!Kinds |-> {}]
           t == [s EXCEPT !.left = <<>>, !.queue = none, !.state = Resolver!NoState, !.tasks = s.tasks]
<1>1. none \in [Resolver!Kinds -> SUBSET Nat] /\ s.tasks \in Seq(ResolverTasks)
  BY NoResolverState, ResolverFields, Zenon
<1>2. Resolver!CloseConnection(s) = [s EXCEPT !.left = <<>>, !.queue = none, !.state = Resolver!NoState]
  BY Zenon DEF Resolver!CloseConnection
<1> HIDE DEF none
<1>3. Resolver!CloseConnection(s) = t
  BY <1>2, Zenon DEF ResolverIn
<1>4. t \in ResolverIn({<<>>}) /\ t.left = <<>> /\ t.state = Resolver!NoState
  BY <1>1, NoResolverState, Zenon DEF ResolverIn
<1> HIDE DEF t
<1>5. Resolves(t)
  BY <1>4, NoResolverState, ResolvesNothing, Zenon
<1> QED BY <1>3, <1>4, <1>5, Zenon

\* A step in the state of the connection, which exists, that leaves its timer running.
LEMMA StateResolves ==
  ASSUME NEW s, Resolves(s), NEW r \in ResolverState, r.conn = "none" => ~r.timer, s.state.timer => r.timer
  PROVE  Resolves([s EXCEPT !.state = r])
<1>1. PICK L : s \in ResolverIn(L)
  BY Zenon DEF Resolves
<1> DEFINE t == [s EXCEPT !.state = r]
<1>2. t \in ResolverIn(L) /\ t.left = s.left /\ t.queue = s.queue /\ t.state = r /\ t.tasks = s.tasks
  BY <1>1, Zenon DEF ResolverIn
<1> HIDE DEF t
<1>3. Resolves(t)
  BY <1>2, ResolvesOn, Zenon DEF WillResolve
<1> QED BY <1>3, Zenon DEF t

LEMMA ResolverResolve ==
  ASSUME ResolverOK, Resolver!Resolve
  PROVE  ResolverOK'
<1>1. PICK k \in Resolver!Kinds, types \in (SUBSET RecordTypes) \ {{}} :
        rsv' = Resolver!Submitted([rsv EXCEPT !.left = [i \in DOMAIN @ \cup {nextRes} |->
                                                          IF i = nextRes THEN types ELSE @[i]],
                                              !.queue[k] = @ \cup {nextRes}], "resolve")
  BY Zenon DEF Resolver!Resolve
<1>2. nextRes \in Nat /\ nextRes' \in Nat
  BY SMT DEF ResolverOK, Resolver!Resolve
<1>3. PICK L : rsv \in ResolverIn(L)
  BY Zenon DEF ResolverOK, Resolves
<1> DEFINE l == [i \in DOMAIN rsv.left \cup {nextRes} |-> IF i = nextRes THEN types ELSE rsv.left[i]]
           more == rsv.queue[k] \cup {nextRes}
           q == [rsv.queue EXCEPT ![k] = more]
           s == [rsv EXCEPT !.left = l, !.queue = q, !.state = rsv.state, !.tasks = rsv.tasks]
<1>4. rsv.queue \in [Resolver!Kinds -> SUBSET Nat] /\ rsv.state \in ResolverState /\ rsv.tasks \in Seq(ResolverTasks)
  BY <1>3, ResolverFields, Zenon
<1>5. q \in [Resolver!Kinds -> SUBSET Nat] /\ q[k] = more /\ \A j \in Resolver!Kinds : rsv.queue[j] \subseteq q[j]
  <2>1. more \in SUBSET Nat /\ rsv.queue[k] \subseteq more
    BY <1>2, <1>4, Zenon
  <2> HIDE DEF more
  <2> QED BY <1>4, <2>1, Zenon
<1>6. DOMAIN l = DOMAIN rsv.left \cup {nextRes} /\ nextRes \in more
  BY Zenon
<1>7. rsv' = Resolver!Submitted([rsv EXCEPT !.left = l, !.queue[k] = more], "resolve")
  BY <1>1, Zenon
<1> HIDE DEF l, more
<1>8. [rsv EXCEPT !.left = l, !.queue[k] = more] = s
  BY <1>3, Zenon DEF ResolverIn
<1> HIDE DEF q
<1>9. s \in ResolverIn({l}) /\ s.left = l /\ s.queue = q /\ s.state = rsv.state /\ s.tasks = rsv.tasks
  BY <1>3, <1>4, <1>5, Zenon DEF ResolverIn
<1> HIDE DEF s
<1>10. /\ rsv' \in ResolverIn({l}) /\ rsv'.left = l /\ rsv'.queue = q /\ rsv'.state = rsv.state
       /\ WillResolve(rsv')
  <2>1. rsv' = Resolver!Submitted(s, "resolve") /\ "resolve" \in ResolverTasks
    BY <1>7, <1>8, Zenon DEF ResolverTasks
  <2> QED BY <1>9, <2>1, TaskSubmitted, Zenon
<1>11. Drives(rsv')
  <2> SUFFICES ASSUME NEW i \in DOMAIN rsv'.left
               PROVE  rsv'.state.timer \/ \E j \in Resolver!Kinds : i \in rsv'.queue[j] /\ WillResolve(rsv')
    BY Zenon DEF Drives
  <2>1. CASE i = nextRes
    BY <1>5, <1>6, <1>10, <2>1, Zenon
  <2>2. CASE i # nextRes
    <3>1. i \in DOMAIN rsv.left
      BY <1>6, <1>10, <2>2, Zenon
    <3>2. rsv.state.timer \/ \E j \in Resolver!Kinds : i \in rsv.queue[j]
      BY <3>1, Zenon DEF ResolverOK, Resolves, Drives
    <3> QED BY <1>5, <1>10, <3>2, Zenon
  <2> QED BY <2>1, <2>2, Zenon
<1>12. rsv'.state.conn = "none" => ~rsv'.state.timer
  BY <1>10, Zenon DEF ResolverOK, Resolves
<1> QED BY <1>2, <1>10, <1>11, <1>12, Zenon DEF ResolverOK, Resolves

LEMMA ResolverReply ==
  ASSUME ResolverOK, Resolver!Reply
  PROVE  ResolverOK'
<1> DEFINE s == [rsv EXCEPT !.state.timer = TRUE]
<1>1. PICK L : rsv \in ResolverIn(L)
  BY Zenon DEF ResolverOK, Resolves
<1>2. rsv.state.conn # "none"
  BY SMT DEF Resolver!Reply
<1>3. Resolves(s)
  BY <1>1, <1>2, TimerStarted, Zenon
<1>4. rsv' = s \/ \E q \in s.state.queries : rsv' \in Resolver!ResolvePending(Resolver!Settled(s, {q}))
  BY Zenon DEF Resolver!Reply
<1> HIDE DEF s
<1>5. Resolves(rsv')
  BY <1>3, <1>4, SettledResolves, PendingResolves, Zenon
<1>6. nextRes' = nextRes
  BY Zenon DEF Resolver!Reply
<1> QED BY <1>5, <1>6, Zenon DEF ResolverOK

LEMMA ResolverCheck ==
  ASSUME ResolverOK, Resolver!PeriodicQueriesCheck
  PROVE  ResolverOK'
<1>1. PICK expired \in (SUBSET rsv.state.deadlines) \ {{}} :
        rsv' \in Resolver!ResolvePending(
                   Resolver!Settled([rsv EXCEPT !.state.check = FALSE, !.state.deadlines = @ \ expired],
                                    expired \cap rsv.state.queries))
  BY Zenon DEF Resolver!PeriodicQueriesCheck
<1>2. PICK L : rsv \in ResolverIn(L)
  BY Zenon DEF ResolverOK, Resolves
<1>3. rsv.state \in ResolverState /\ rsv.state.deadlines \in ResolverQueries
  BY <1>2, ResolverFields, Zenon
<1> DEFINE timed == rsv.state.deadlines \ expired
           r == [rsv.state EXCEPT !.check = FALSE, !.deadlines = timed]
           s == [rsv EXCEPT !.state = r]
<1>4. timed \in ResolverQueries
  BY <1>3, Zenon DEF ResolverQueries
<1>5. rsv' \in Resolver!ResolvePending(
                 Resolver!Settled([rsv EXCEPT !.state.check = FALSE, !.state.deadlines = timed],
                                  expired \cap rsv.state.queries))
  BY <1>1, Zenon
<1> HIDE DEF timed
<1>6. r \in ResolverState /\ r.conn = rsv.state.conn /\ r.timer = rsv.state.timer
  BY <1>3, <1>4, Zenon DEF ResolverState
<1>7. [rsv EXCEPT !.state.check = FALSE, !.state.deadlines = timed] = s
  BY <1>2, Zenon DEF ResolverIn
<1> HIDE DEF r
<1>8. Resolves(s)
  BY <1>6, StateResolves, Zenon DEF ResolverOK, Resolves
<1> HIDE DEF s
<1>9. Resolves(rsv')
  BY <1>5, <1>7, <1>8, SettledResolves, PendingResolves, Zenon
<1>10. nextRes' = nextRes
  BY Zenon DEF Resolver!PeriodicQueriesCheck
<1> QED BY <1>9, <1>10, Zenon DEF ResolverOK

LEMMA ResolverCompletes ==
  ASSUME ResolverOK, NEW pass \in BOOLEAN, Resolver!CompleteConnectRequest(pass)
  PROVE  ResolverOK'
<1>1. PICK L : rsv \in ResolverIn(L)
  BY Zenon DEF ResolverOK, Resolves
<1>2. rsv.state \in ResolverState /\ rsv.state.conn # "none"
  <2>1. rsv.state.conn = "asked"
    BY Zenon DEF Resolver!CompleteConnectRequest
  <2> QED BY <1>1, <2>1, ResolverFields, SMT
<1>3. ASSUME NEW to \in {"passed", "rejected"}
      PROVE  Resolves([rsv EXCEPT !.state.conn = to])
  <2> DEFINE r == [rsv.state EXCEPT !.conn = to]
  <2>1. to \in {"none", "asked", "passed", "rejected", "open"} /\ to # "none"
    BY SMT
  <2>2. r \in ResolverState /\ r.conn = to /\ r.timer = rsv.state.timer
    BY <1>2, <2>1, Zenon DEF ResolverState
  <2>3. [rsv EXCEPT !.state.conn = to] = [rsv EXCEPT !.state = r]
    BY <1>1, Zenon DEF ResolverIn
  <2> HIDE DEF r
  <2>4. Resolves([rsv EXCEPT !.state = r])
    BY <2>1, <2>2, StateResolves, Zenon DEF ResolverOK
  <2> QED BY <2>3, <2>4, Zenon
<1>4. "accept" \in ResolverTasks /\ "close" \in ResolverTasks
  BY Zenon DEF ResolverTasks
<1>5. \/ rsv' = Resolver!Submitted([rsv EXCEPT !.state.conn = "passed"], "accept")
      \/ rsv' = Resolver!Submitted([rsv EXCEPT !.state.conn = "rejected"], "close")
  BY Zenon DEF Resolver!CompleteConnectRequest
<1>6. Resolves([rsv EXCEPT !.state.conn = "passed"]) /\ Resolves([rsv EXCEPT !.state.conn = "rejected"])
  BY <1>3, Zenon
<1>7. Resolves(rsv')
  BY <1>4, <1>5, <1>6, SubmittedResolves, Zenon
<1>8. nextRes' = nextRes
  BY Zenon DEF Resolver!CompleteConnectRequest
<1> QED BY <1>7, <1>8, Zenon DEF ResolverOK

LEMMA ResolverCloses ==
  ASSUME ResolverOK, (\E async \in BOOLEAN : Resolver!TunnelCloses(async)) \/ Resolver!ConnectionTimeout
  PROVE  ResolverOK'
<1>1. PICK L : rsv \in ResolverIn(L)
  BY Zenon DEF ResolverOK, Resolves
<1>2. rsv' = Resolver!Submitted(rsv, "close") \/ rsv' = Resolver!CloseConnection(rsv)
  BY Zenon DEF Resolver!TunnelCloses, Resolver!ConnectionTimeout
<1>3. "close" \in ResolverTasks /\ Resolves(rsv)
  BY Zenon DEF ResolverTasks, ResolverOK
<1>4. Resolves(rsv')
  BY <1>1, <1>2, <1>3, SubmittedResolves, ClosedResolves, Zenon
<1>5. nextRes' = nextRes
  BY Zenon DEF Resolver!TunnelCloses, Resolver!ConnectionTimeout
<1> QED BY <1>4, <1>5, Zenon DEF ResolverOK

\* A resolver that drives its resolutions once its queues are looked at.
Looks(s, L) ==
    /\ s \in ResolverIn(L) /\ (s.state.conn = "none" => ~s.state.timer)
    /\ (\A k \in Resolver!Kinds : s.queue[k] = {}) => s.state.timer \/ DOMAIN s.left = {}

\* accept_connection looks at the queues too.
LEMMA AcceptResolves ==
  ASSUME NEW L, NEW s, Looks(s, L), NEW u \in Resolver!AcceptConnection(s)
  PROVE  Resolves(u)
<1> DEFINE r == [s.state EXCEPT !.accepted = TRUE]
           t == [s EXCEPT !.state = r]
           ro == [r EXCEPT !.conn = "open"]
           o == [t EXCEPT !.state = ro]
<1>1. s \in ResolverIn(L) /\ s.state \in ResolverState
  BY ResolverFields, Zenon DEF Looks
<1>2. r \in ResolverState /\ r.conn = s.state.conn /\ r.timer = s.state.timer
  BY <1>1, Zenon DEF ResolverState
<1>3. [s EXCEPT !.state.accepted = TRUE] = t
  BY <1>1, Zenon DEF ResolverIn
<1> HIDE DEF r
<1>4. t \in ResolverIn(L) /\ t.left = s.left /\ t.queue = s.queue /\ t.state = r
  BY <1>1, <1>2, Zenon DEF ResolverIn
<1>5. Looks(t, L)
  BY <1>2, <1>4, Zenon DEF Looks
<1>6. ro \in ResolverState /\ ro.conn = "open" /\ ro.timer = s.state.timer
  BY <1>2, Zenon DEF ResolverState
<1> HIDE DEF t
<1>7. [t EXCEPT !.state.conn = "open"] = o
  BY <1>4, Zenon DEF ResolverIn
<1> HIDE DEF ro
<1>8. o \in ResolverIn(L) /\ o.left = s.left /\ o.queue = s.queue /\ o.state = ro
  BY <1>4, <1>6, Zenon DEF ResolverIn
<1>9. Looks(o, L)
  <2>1. "open" # "none"
    BY SMT
  <2> QED BY <1>6, <1>8, <2>1, Zenon DEF Looks
<1> HIDE DEF o
<1>10. Looks(Resolver!Submitted(t, "close"), L)
  <2>1. "close" \in ResolverTasks
    BY Zenon DEF ResolverTasks
  <2>2. /\ Resolver!Submitted(t, "close") \in ResolverIn(L) /\ Resolver!Submitted(t, "close").left = t.left
        /\ Resolver!Submitted(t, "close").queue = t.queue /\ Resolver!Submitted(t, "close").state = t.state
    BY <1>4, <2>1, TaskSubmitted, Zenon
  <2> QED BY <1>5, <2>2, Zenon DEF Looks
<1>11. \/ u \in Resolver!ResolvePending(o) \/ u \in Resolver!ResolvePending(t)
       \/ u \in Resolver!ResolvePending(Resolver!Submitted(t, "close"))
  BY <1>3, <1>7, Zenon DEF Resolver!AcceptConnection
<1> QED BY <1>5, <1>9, <1>10, <1>11, PendingResolved, Zenon DEF Looks

LEMMA ResolverRuns ==
  ASSUME ResolverOK, Resolver!RunTask
  PROVE  ResolverOK'
<1>1. PICK L : rsv \in ResolverIn(L)
  BY Zenon DEF ResolverOK, Resolves
<1> DEFINE rest == Tail(rsv.tasks)
           s == [rsv EXCEPT !.tasks = rest]
           first == Head(rsv.tasks)
<1>2. rsv.tasks \in Seq(ResolverTasks) /\ rsv.tasks # <<>>
  BY <1>1, ResolverFields, Zenon DEF Resolver!RunTask
<1>3. rest \in Seq(ResolverTasks) /\ first \in ResolverTasks
  BY <1>2, SMT
<1>4. rsv' \in CASE first = "resolve" -> Resolver!ResolvePending(s)
                 [] first = "accept" -> Resolver!AcceptConnection(s)
                 [] first = "close" -> {Resolver!CloseConnection(s)}
  BY Zenon DEF Resolver!RunTask
<1> HIDE DEF rest, first
<1>5. s \in ResolverIn(L) /\ s.left = rsv.left /\ s.queue = rsv.queue /\ s.state = rsv.state
  BY <1>1, <1>3, Zenon DEF ResolverIn
<1> HIDE DEF s
<1>6. Looks(s, L)
  <2>1. (\A k \in Resolver!Kinds : rsv.queue[k] = {}) => rsv.state.timer \/ DOMAIN rsv.left = {}
    BY Zenon DEF ResolverOK, Resolves, Drives
  <2>2. rsv.state.conn = "none" => ~rsv.state.timer
    BY Zenon DEF ResolverOK, Resolves
  <2> QED BY <1>5, <2>1, <2>2, Zenon DEF Looks
<1>7. \/ rsv' \in Resolver!ResolvePending(s)
      \/ rsv' \in Resolver!AcceptConnection(s)
      \/ rsv' = Resolver!CloseConnection(s)
  <2>1. CASE first = "resolve"
    BY <1>4, <2>1, SMT
  <2>2. CASE first = "accept"
    BY <1>4, <2>2, SMT
  <2>3. CASE first = "close"
    BY <1>4, <2>3, SMT
  <2> QED BY <1>3, <2>1, <2>2, <2>3, Zenon DEF ResolverTasks
<1>8. Resolves(rsv')
  <2>1. CASE rsv' \in Resolver!ResolvePending(s)
    BY <1>6, <2>1, PendingResolved, Zenon DEF Looks
  <2>2. CASE rsv' \in Resolver!AcceptConnection(s)
    BY <1>6, <2>2, AcceptResolves, Zenon
  <2>3. CASE rsv' = Resolver!CloseConnection(s)
    BY <1>5, <2>3, ClosedResolves, Zenon
  <2> QED BY <1>7, <2>1, <2>2, <2>3, Zenon
<1>9. nextRes' = nextRes
  BY Zenon DEF Resolver!RunTask
<1> QED BY <1>8, <1>9, Zenon DEF ResolverOK

LEMMA ResolverCancels ==
  ASSUME ResolverOK, NEW id \in 1 .. MaxResolutions, Resolver!Cancel(id)
  PROVE  ResolverOK'
<1>1. PICK L : rsv \in ResolverIn(L)
  BY Zenon DEF ResolverOK, Resolves
<1> DEFINE l == Resolver!Without(rsv.left, {id})
           asked == {q \in rsv.state.queries : q.of # id}
           r == [rsv.state EXCEPT !.queries = asked]
           t == [rsv EXCEPT !.left = l, !.state = r]
<1>2. DOMAIN l \subseteq DOMAIN rsv.left
  BY Zenon DEF Resolver!Without
<1>3. rsv.state \in ResolverState /\ rsv.state.queries \in ResolverQueries
  BY <1>1, ResolverFields, Zenon
<1>4. asked \in ResolverQueries
  BY <1>3, Zenon DEF ResolverQueries
<1>5. rsv' = [rsv EXCEPT !.left = l, !.state.queries = asked]
  BY Zenon DEF Resolver!Cancel
<1> HIDE DEF l, asked
<1>6. r \in ResolverState /\ r.conn = rsv.state.conn /\ r.timer = rsv.state.timer
  BY <1>3, <1>4, Zenon DEF ResolverState
<1>7. rsv' = t
  BY <1>1, <1>5, Zenon DEF ResolverIn
<1> HIDE DEF r
<1>8. t \in ResolverIn({l}) /\ t.left = l /\ t.queue = rsv.queue /\ t.state = r /\ t.tasks = rsv.tasks
  BY <1>1, <1>6, Zenon DEF ResolverIn
<1> HIDE DEF t
<1>9. Resolves(rsv) /\ (rsv.state.conn = "none" => ~rsv.state.timer)
  BY Zenon DEF ResolverOK, Resolves
<1>10. WillResolve(rsv) => WillResolve(t)
  BY <1>8, Zenon DEF WillResolve
<1>11. Resolves(t)
  BY <1>2, <1>6, <1>8, <1>9, <1>10, ResolvesOn, Zenon
<1>12. nextRes' = nextRes
  BY Zenon DEF Resolver!Cancel
<1> QED BY <1>7, <1>11, <1>12, Zenon DEF ResolverOK

\* The queues of some kinds are emptied: what they held is not left.
LEMMA QueuesStopped ==
  ASSUME NEW L, NEW s \in ResolverIn(L), NEW kinds \in SUBSET Resolver!Kinds
  PROVE  \E l, t : /\ Resolver!StopQueues(s, kinds) = t /\ t \in ResolverIn({l}) /\ t.left = l /\ t.tasks = s.tasks
                   /\ DOMAIN l \subseteq DOMAIN s.left
                   /\ \A i \in DOMAIN l, k \in kinds : i \notin s.queue[k]
                   /\ \A k \in Resolver!Kinds \ kinds : t.queue[k] = s.queue[k]
                   /\ t.state.conn = s.state.conn /\ t.state.timer = s.state.timer
<1> DEFINE queued == UNION {s.queue[k] : k \in kinds}
           gone == queued \cup {q.of : q \in {p \in s.state.queries : p.kind \in kinds}}
           l == Resolver!Without(s.left, gone)
           qs == [k \in Resolver!Kinds |-> IF k \in kinds THEN {} ELSE s.queue[k]]
           asked == {q \in s.state.queries : q.kind \notin kinds /\ q.of \notin queued}
           r == [s.state EXCEPT !.queries = asked]
           t == [s EXCEPT !.left = l, !.queue = qs, !.state = r]
<1>1. s.queue \in [Resolver!Kinds -> SUBSET Nat] /\ s.state \in ResolverState /\ s.state.queries \in ResolverQueries
  BY ResolverFields, Zenon
<1>2. asked \in ResolverQueries
  BY <1>1, Zenon DEF ResolverQueries
<1>3. qs \in [Resolver!Kinds -> SUBSET Nat] /\ \A k \in Resolver!Kinds \ kinds : qs[k] = s.queue[k]
  BY <1>1, Zenon
<1>4. DOMAIN l = DOMAIN s.left \ gone
  BY Zenon DEF Resolver!Without
<1>5. \A i \in DOMAIN l, k \in kinds : i \notin s.queue[k]
  <2>1. \A k \in kinds : s.queue[k] \subseteq gone
    BY Zenon
  <2> HIDE DEF gone
  <2> QED BY <1>4, <2>1, Zenon
<1>6. Resolver!StopQueues(s, kinds) = [s EXCEPT !.queue = qs, !.left = l, !.state.queries = asked]
  BY Zenon DEF Resolver!StopQueues
<1> HIDE DEF queued, gone, l, qs, asked
<1>7. r \in ResolverState /\ r.conn = s.state.conn /\ r.timer = s.state.timer
  BY <1>1, <1>2, Zenon DEF ResolverState
<1>8. Resolver!StopQueues(s, kinds) = t
  BY <1>6, Zenon DEF ResolverIn
<1> HIDE DEF r
<1>9. t \in ResolverIn({l}) /\ t.left = l /\ t.queue = qs /\ t.state = r /\ t.tasks = s.tasks
  BY <1>3, <1>7, Zenon DEF ResolverIn
<1> HIDE DEF t
<1>10. DOMAIN l \subseteq DOMAIN s.left
  BY <1>4, Zenon
<1> QED BY <1>3, <1>5, <1>7, <1>8, <1>9, <1>10, Zenon

LEMMA ResolverStopsQueues ==
  ASSUME ResolverOK, Resolver!StopResolvingQueues
  PROVE  ResolverOK'
<1>1. PICK L : rsv \in ResolverIn(L)
  BY Zenon DEF ResolverOK, Resolves
<1> DEFINE kinds == {"background"}
<1>2. kinds \in SUBSET Resolver!Kinds
  BY Zenon DEF Resolver!Kinds
<1>3. rsv' = Resolver!StopQueues(rsv, kinds) /\ nextRes' = nextRes
  BY Zenon DEF Resolver!StopResolvingQueues
<1> HIDE DEF kinds
<1>4. PICK l, t : /\ Resolver!StopQueues(rsv, kinds) = t /\ t \in ResolverIn({l}) /\ t.left = l /\ t.tasks = rsv.tasks
                  /\ DOMAIN l \subseteq DOMAIN rsv.left
                  /\ \A i \in DOMAIN l, k \in kinds : i \notin rsv.queue[k]
                  /\ \A k \in Resolver!Kinds \ kinds : t.queue[k] = rsv.queue[k]
                  /\ t.state.conn = rsv.state.conn /\ t.state.timer = rsv.state.timer
  BY <1>1, <1>2, QueuesStopped, Zenon
<1>5. \A k \in Resolver!Kinds : \A i \in DOMAIN t.left : i \in rsv.queue[k] => i \in t.queue[k]
  BY <1>4, Zenon
<1>6. Resolves(rsv) /\ (rsv.state.conn = "none" => ~rsv.state.timer)
  BY Zenon DEF ResolverOK, Resolves
<1>7. WillResolve(rsv) => WillResolve(t)
  BY <1>4, Zenon DEF WillResolve
<1>8. Resolves(t)
  BY <1>4, <1>5, <1>6, <1>7, ResolvesOn, Zenon
<1> QED BY <1>3, <1>4, <1>8, Zenon DEF ResolverOK

LEMMA ResolverStops ==
  ASSUME ResolverOK, Resolver!StopResolving
  PROVE  ResolverOK'
<1>1. PICK L : rsv \in ResolverIn(L)
  BY Zenon DEF ResolverOK, Resolves
<1> DEFINE s == Resolver!StopQueues(rsv, Resolver!Kinds)
           t == IF s.state.conn = "none" THEN s ELSE Resolver!CloseConnection(s)
           none == [k \in Resolver!Kinds |-> {}]
<1>2. rsv' = [t EXCEPT !.queue = none, !.state = Resolver!NoState, !.tasks = <<>>] /\ nextRes' = nextRes
  BY Zenon DEF Resolver!StopResolving
<1>3. none \in [Resolver!Kinds -> SUBSET Nat]
  BY NoResolverState, Zenon
<1> HIDE DEF none
<1>4. PICK l : /\ s \in ResolverIn({l}) /\ s.left = l /\ DOMAIN l \subseteq DOMAIN rsv.left
               /\ \A i \in DOMAIN l, k \in Resolver!Kinds : i \notin rsv.queue[k]
               /\ s.state.conn = rsv.state.conn
  <2>1. Resolver!Kinds \in SUBSET Resolver!Kinds
    BY Zenon
  <2>2. \E l, u : /\ s = u /\ u \in ResolverIn({l}) /\ u.left = l /\ u.tasks = rsv.tasks
                  /\ DOMAIN l \subseteq DOMAIN rsv.left
                  /\ \A i \in DOMAIN l, k \in Resolver!Kinds : i \notin rsv.queue[k]
                  /\ \A k \in Resolver!Kinds \ Resolver!Kinds : u.queue[k] = rsv.queue[k]
                  /\ u.state.conn = rsv.state.conn /\ u.state.timer = rsv.state.timer
    BY <1>1, <2>1, QueuesStopped, Zenon
  <2> HIDE DEF s
  <2> QED BY <2>2, Zenon
<1> HIDE DEF s
<1>5. PICK E : t \in ResolverIn(E) /\ DOMAIN t.left = {}
  <2>1. CASE s.state.conn = "none"
    <3>1. ~rsv.state.timer
      BY <1>4, <2>1, Zenon DEF ResolverOK, Resolves
    <3>2. \A i \in DOMAIN rsv.left : \E k \in Resolver!Kinds : i \in rsv.queue[k]
      BY <3>1, Zenon DEF ResolverOK, Resolves, Drives
    <3>3. DOMAIN l = {}
      BY <1>4, <3>2, Zenon
    <3>4. t = s
      BY <2>1, Zenon
    <3> QED BY <1>4, <3>3, <3>4, Zenon
  <2>2. CASE s.state.conn # "none"
    <3>1. t = Resolver!CloseConnection(s)
      BY <2>2, Zenon
    <3>2. Resolver!CloseConnection(s) \in ResolverIn({<<>>}) /\ Resolver!CloseConnection(s).left = <<>>
      BY <1>4, ClosedResolves, Zenon
    <3> QED BY <3>1, <3>2, NoResolverState, Zenon
  <2> QED BY <2>1, <2>2, Zenon
<1> HIDE DEF t
<1>6. rsv' \in ResolverIn(E) /\ rsv'.left = t.left /\ rsv'.state = Resolver!NoState
  BY <1>2, <1>3, <1>5, NoResolverState, Zenon DEF ResolverIn
<1>7. Resolves(rsv')
  BY <1>5, <1>6, NoResolverState, ResolvesNothing, Zenon
<1> QED BY <1>2, <1>7, Zenon DEF ResolverOK

LEMMA ResolverStep ==
  ASSUME ResolverOK, [Resolver!Next]_(Resolver!resolverVars)
  PROVE  ResolverOK'
<1>1. CASE UNCHANGED Resolver!resolverVars
  <2>1. rsv' = rsv /\ nextRes' = nextRes
    BY <1>1, Zenon DEF Resolver!resolverVars
  <2> QED BY <2>1, Zenon DEF ResolverOK
<1> QED BY <1>1, ResolverResolve, ResolverReply, ResolverCheck, ResolverRuns, ResolverCompletes, ResolverCloses,
           ResolverCancels, ResolverStopsQueues, ResolverStops, Zenon DEF Resolver!Next

LEMMA ResolverImplies == ResolverOK => ResolutionsDriven
BY Zenon DEF ResolverOK, Resolves, Drives, WillResolve, ResolutionsDriven, Resolver!ResolutionsDriven

\* A resolution whose handler was not called can still be answered, for any number of resolutions, record types and
\* capacity, in any order of replies, expiries, stale tasks, rejections, cancellations and stops
\* (vpn_dns_resolver.cpp).
THEOREM ResolverDrivesResolutions == Resolver!Spec => []ResolutionsDriven
<1>1. ResolverOK /\ [Resolver!Next]_(Resolver!resolverVars) => ResolverOK'
  BY ResolverStep
<1> QED BY <1>1, ResolverImplies, ResolverInit, PTL DEF Resolver!Spec

-----------------------------------------------------------------------------
(* The DNS proxy.                                                          *)

DnsDeadlines == [at : Nat, id : Nat]
DnsClients ==
    [up : BOOLEAN, next : Nat, sent : SUBSET Nat, timed : SUBSET DnsDeadlines, deferred : SUBSET Nat,
     deferredTimed : SUBSET DnsDeadlines, tcp : {"none", "connecting", "up"}, timer : BOOLEAN]

IdsOf(D) == {d.id : d \in D}

\* The client c has a deadline for every request; one that waits for the TCP socket has a single one.
Settles(c) ==
    /\ c.sent \cap c.deferred = {} /\ c.sent \subseteq IdsOf(c.timed) /\ c.deferred = IdsOf(c.deferredTimed)
    /\ \A d, e \in c.deferredTimed : d.id = e.id => d = e

DnsRequestsOK ==
    /\ dns \in DnsClients /\ clock \in Nat /\ Settles(dns)
    /\ requestIds = dns.sent \cup dns.deferred /\ (requestIds # {} => dns.timer)

\* The servers the proxy has, or is about to be restarted with, were set last or a task says so.
DnsServersOK ==
    /\ manager \in [version : Nat, subscribed : BOOLEAN, task : BOOLEAN]
    /\ used \in [version : Nat, missed : BOOLEAN]
    /\ loopAt \in {"idle", "restarting"} /\ manager.subscribed /\ ~manager.task /\ ~used.missed
         => used.version = manager.version
    /\ loopAt = "subscribe" /\ ~used.missed => used.version = manager.version

\* The proxies v4 and v6 run with the servers that were read last, except the IPv6 one after a restart that ended
\* at the IPv4 one.
ProxiesFollow(p, v) ==
    /\ p.v4 \subseteq {v} /\ (p.end # "v4" => p.v6 \subseteq {v}) /\ (p.end = "ok" => p.v4 \cup p.v6 = {v})

DnsProxiesOK == loopAt \in {"idle", "subscribe"} => ProxiesFollow(proxies, used.version)

LEMMA DnsClientFields ==
  ASSUME NEW c \in DnsClients
  PROVE  /\ c.up \in BOOLEAN /\ c.next \in Nat /\ c.sent \subseteq Nat /\ c.timed \subseteq DnsDeadlines
         /\ c.deferred \subseteq Nat /\ c.deferredTimed \subseteq DnsDeadlines
         /\ c.tcp \in {"none", "connecting", "up"} /\ c.timer \in BOOLEAN
BY Zenon DEF DnsClients

\* A client that has nothing.
LEMMA NewClientSettles ==
  ASSUME NEW ok \in BOOLEAN, dns' = [Proxy!NewClient EXCEPT !.up = ok], requestIds' = {}, clock' \in Nat
  PROVE  DnsRequestsOK'
<1>1. 0 \in Nat
  BY SMT
<1>2. dns' \in DnsClients /\ dns'.sent = {} /\ dns'.deferred = {} /\ dns'.timed = {} /\ dns'.deferredTimed = {}
  BY <1>1, Zenon DEF Proxy!NewClient, DnsClients
<1> QED BY <1>2, Zenon DEF DnsRequestsOK, Settles, IdsOf

LEMMA DnsInit == Proxy!Init => DnsRequestsOK /\ DnsServersOK /\ DnsProxiesOK
<1> SUFFICES ASSUME Proxy!Init PROVE DnsRequestsOK /\ DnsServersOK /\ DnsProxiesOK
  OBVIOUS
<1>1. 0 \in Nat
  BY SMT
<1>2. dns \in DnsClients /\ dns.sent = {} /\ dns.deferred = {} /\ dns.timed = {} /\ dns.deferredTimed = {}
  BY <1>1, Zenon DEF Proxy!Init, Proxy!NewClient, DnsClients
<1>3. DnsRequestsOK
  BY <1>1, <1>2, Zenon DEF Proxy!Init, DnsRequestsOK, Settles, IdsOf
<1>4. manager \in [version : Nat, subscribed : BOOLEAN, task : BOOLEAN] /\ used \in [version : Nat, missed : BOOLEAN]
  BY <1>1, Zenon DEF Proxy!Init
<1>5. loopAt \notin {"idle", "restarting", "subscribe"}
  BY SMT DEF Proxy!Init
<1>6. DnsServersOK
  BY <1>4, <1>5, Zenon DEF DnsServersOK
<1>7. DnsProxiesOK
  BY <1>5, Zenon DEF DnsProxiesOK
<1> QED BY <1>3, <1>6, <1>7

\* send, of a request that is not in flight
LEMMA RequestSent ==
  ASSUME DnsRequestsOK, NEW c \in DnsClients, Settles(c), NEW id \in Nat, id \notin c.sent \cup c.deferred,
         NEW t \in {Proxy!Sent(c, id)} \cup Proxy!Deferred(c, id)
  PROVE  t \in DnsClients /\ Settles(t) /\ t.sent \cup t.deferred = c.sent \cup c.deferred \cup {id}
<1> DEFINE dl == Proxy!Deadline(id)
<1>1. dl \in DnsDeadlines /\ dl.id = id
  <2>1. clock + 1 \in Nat
    BY SMT DEF DnsRequestsOK
  <2> QED BY <2>1, Zenon DEF Proxy!Deadline, DnsDeadlines
<1>2. /\ c.sent \subseteq Nat /\ c.timed \subseteq DnsDeadlines /\ c.deferred \subseteq Nat
      /\ c.deferredTimed \subseteq DnsDeadlines
  BY DnsClientFields, Zenon
<1> HIDE DEF dl
<1>3. CASE t = Proxy!Sent(c, id)
  <2> DEFINE more == c.sent \cup {id}
             timed == c.timed \cup {dl}
  <2>1. more \in SUBSET Nat /\ timed \in SUBSET DnsDeadlines
    BY <1>1, <1>2, Zenon
  <2>2. t = [c EXCEPT !.sent = more, !.timed = timed]
    BY <1>3, Zenon DEF Proxy!Sent, dl
  <2>3. /\ more \cap c.deferred = {} /\ more \subseteq IdsOf(timed)
        /\ more \cup c.deferred = c.sent \cup c.deferred \cup {id}
    BY <1>1, ZenonT(30) DEF Settles, IdsOf
  <2> HIDE DEF more, timed
  <2>4. /\ t \in DnsClients /\ t.sent = more /\ t.timed = timed /\ t.deferred = c.deferred
        /\ t.deferredTimed = c.deferredTimed
    BY <2>1, <2>2, Zenon DEF DnsClients
  <2> QED BY <2>3, <2>4, Zenon DEF Settles
<1>4. CASE t \in Proxy!Deferred(c, id)
  <2>1. PICK b \in IF c.tcp = "none" THEN Proxy!Connected(c) ELSE {c} :
          t = [b EXCEPT !.deferred = @ \cup {id}, !.deferredTimed = @ \cup {dl}]
    BY <1>4, Zenon DEF Proxy!Deferred, dl
  <2>2. /\ b \in DnsClients /\ b.sent = c.sent /\ b.timed = c.timed /\ b.deferred = c.deferred
        /\ b.deferredTimed = c.deferredTimed
    BY <2>1, ZenonT(30) DEF Proxy!Connected, DnsClients
  <2> DEFINE more == c.deferred \cup {id}
             timed == c.deferredTimed \cup {dl}
  <2>3. more \in SUBSET Nat /\ timed \in SUBSET DnsDeadlines
    BY <1>1, <1>2, Zenon
  <2>4. t = [b EXCEPT !.deferred = more, !.deferredTimed = timed]
    BY <2>1, <2>2, Zenon
  <2>5. c.sent \cap more = {} /\ c.sent \cup more = c.sent \cup c.deferred \cup {id}
    BY Zenon DEF Settles
  <2>6. more = IdsOf(timed)
    BY <1>1, Zenon DEF Settles, IdsOf
  <2>7. \A d, e \in timed : d.id = e.id => d = e
    <3>1. \A d \in c.deferredTimed : d.id # id
      BY Zenon DEF Settles, IdsOf
    <3> QED BY <1>1, <3>1, Zenon DEF Settles
  <2> HIDE DEF more, timed
  <2>8. /\ t \in DnsClients /\ t.sent = c.sent /\ t.timed = c.timed /\ t.deferred = more
        /\ t.deferredTimed = timed
    BY <2>2, <2>3, <2>4, Zenon DEF DnsClients
  <2> QED BY <2>5, <2>6, <2>7, <2>8, Zenon DEF Settles
<1> QED BY <1>3, <1>4, Zenon

LEMMA DnsSendRequest ==
  ASSUME DnsRequestsOK, Proxy!SendRequest
  PROVE  DnsRequestsOK'
<1> DEFINE id == dns.next
           following == (id + 1) % IdMod
           c == [dns EXCEPT !.next = following]
<1>1. id \in Nat /\ following \in Nat
  <2>1. id \in Nat
    BY DnsClientFields, Zenon DEF DnsRequestsOK
  <2> QED BY <2>1, NetAssumption, SMT
<1>2. \/ id \in c.sent \cup c.deferred /\ dns' = c /\ requestIds' = requestIds /\ clock' = clock
      \/ /\ id \notin c.sent \cup c.deferred
         /\ \E t \in {Proxy!Sent(c, id)} \cup Proxy!Deferred(c, id) : dns' = [t EXCEPT !.timer = TRUE]
         /\ requestIds' = requestIds \cup {id} /\ clock' = clock + 1
  BY Zenon DEF Proxy!SendRequest
<1> HIDE DEF following
<1>3. /\ c \in DnsClients /\ c.sent = dns.sent /\ c.timed = dns.timed /\ c.deferred = dns.deferred
      /\ c.deferredTimed = dns.deferredTimed /\ c.timer = dns.timer
  BY <1>1, Zenon DEF DnsRequestsOK, DnsClients
<1> HIDE DEF c, id
<1>4. Settles(c)
  BY <1>3, Zenon DEF DnsRequestsOK, Settles
<1>5. CASE dns' = c /\ requestIds' = requestIds /\ clock' = clock
  BY <1>3, <1>4, <1>5, Zenon DEF DnsRequestsOK
<1>6. ASSUME id \notin c.sent \cup c.deferred, NEW t \in {Proxy!Sent(c, id)} \cup Proxy!Deferred(c, id),
             dns' = [t EXCEPT !.timer = TRUE], requestIds' = requestIds \cup {id}, clock' = clock + 1
      PROVE  DnsRequestsOK'
  <2>1. t \in DnsClients /\ Settles(t) /\ t.sent \cup t.deferred = c.sent \cup c.deferred \cup {id}
    <3>1. c \in DnsClients /\ Settles(c) /\ id \in Nat /\ id \notin c.sent \cup c.deferred
      BY <1>1, <1>3, <1>4, <1>6, Zenon
    <3>2. t \in {Proxy!Sent(c, id)} \cup Proxy!Deferred(c, id)
      BY <1>6, Zenon
    <3> QED BY ONLY DnsRequestsOK, <3>1, <3>2, RequestSent, Zenon
  <2>2. /\ dns' \in DnsClients /\ dns'.sent = t.sent /\ dns'.timed = t.timed /\ dns'.deferred = t.deferred
        /\ dns'.deferredTimed = t.deferredTimed /\ dns'.timer = TRUE
    BY <1>6, <2>1, Zenon DEF DnsClients
  <2>3. Settles(dns')
    BY <2>1, <2>2, Zenon DEF Settles
  <2>4. requestIds' = dns'.sent \cup dns'.deferred
    BY <1>3, <1>6, <2>1, <2>2, Zenon DEF DnsRequestsOK
  <2>5. clock' \in Nat
    BY <1>6, SMT DEF DnsRequestsOK
  <2> QED BY <2>2, <2>3, <2>4, <2>5, Zenon DEF DnsRequestsOK
<1> QED BY <1>2, <1>5, <1>6, Zenon

\* The deadlines of the requests that wait, split in two.
LEMMA DeadlinesSplit ==
  ASSUME NEW c, Settles(c), NEW now \in SUBSET c.deferredTimed
  PROVE  c.deferred \ IdsOf(now) = IdsOf(c.deferredTimed \ now) /\ IdsOf(now) \subseteq c.deferred
<1>1. IdsOf(now) \subseteq c.deferred
  BY Zenon DEF Settles, IdsOf
<1>2. ASSUME NEW x \in c.deferred \ IdsOf(now)
      PROVE  x \in IdsOf(c.deferredTimed \ now)
  BY Zenon DEF Settles, IdsOf
<1>3. ASSUME NEW x \in IdsOf(c.deferredTimed \ now)
      PROVE  x \in c.deferred \ IdsOf(now)
  <2>1. PICK d \in c.deferredTimed \ now : x = d.id
    BY Zenon DEF IdsOf
  <2>2. x \in c.deferred
    BY <2>1, Zenon DEF Settles, IdsOf
  <2>3. \A e \in now : x # e.id
    BY <2>1, Zenon DEF Settles
  <2> QED BY <2>2, <2>3, Zenon DEF IdsOf
<1> QED BY <1>1, <1>2, <1>3, Zenon

LEMMA DnsTcpReady ==
  ASSUME DnsRequestsOK, Proxy!TcpReady
  PROVE  DnsRequestsOK'
<1> DEFINE c == [dns EXCEPT !.tcp = "up"]
<1>1. /\ c \in DnsClients /\ c.sent = dns.sent /\ c.timed = dns.timed /\ c.deferred = dns.deferred
      /\ c.deferredTimed = dns.deferredTimed /\ c.timer = dns.timer
  BY Zenon DEF DnsRequestsOK, DnsClients
<1>2. dns' \in Proxy!SendDeferred(c) /\ requestIds' = requestIds /\ clock' = clock
  BY Zenon DEF Proxy!TcpReady
<1> HIDE DEF c
<1>3. PICK upTo \in 0 .. clock :
        LET now == {d \in c.deferredTimed : d.at <= upTo}
        IN dns' = [c EXCEPT !.deferredTimed = @ \ now, !.deferred = @ \ {d.id : d \in now},
                            !.timed = @ \cup now, !.sent = @ \cup {d.id : d \in now}]
  BY <1>2, Zenon DEF Proxy!SendDeferred
<1> DEFINE now == {d \in c.deferredTimed : d.at <= upTo}
           waiting == c.deferredTimed \ now
           ids == c.deferred \ IdsOf(now)
           timed == c.timed \cup now
           out == c.sent \cup IdsOf(now)
<1>4. dns' = [c EXCEPT !.deferredTimed = waiting, !.deferred = ids, !.timed = timed, !.sent = out]
  BY <1>3, Zenon DEF IdsOf
<1>5. now \in SUBSET c.deferredTimed
  BY Zenon
<1> HIDE DEF now
<1>6. Settles(c)
  BY <1>1, Zenon DEF DnsRequestsOK, Settles
<1>7. ids = IdsOf(waiting) /\ IdsOf(now) \subseteq c.deferred
  BY <1>5, <1>6, DeadlinesSplit, Zenon
<1>8. /\ waiting \in SUBSET DnsDeadlines /\ ids \in SUBSET Nat /\ timed \in SUBSET DnsDeadlines
      /\ out \in SUBSET Nat
  <2>1. /\ c.sent \subseteq Nat /\ c.timed \subseteq DnsDeadlines /\ c.deferred \subseteq Nat
        /\ c.deferredTimed \subseteq DnsDeadlines
    BY <1>1, DnsClientFields, Zenon
  <2> QED BY <1>5, <1>7, <2>1, Zenon
<1>9. out \cap ids = {} /\ out \cup ids = c.sent \cup c.deferred
  BY <1>6, <1>7, Zenon DEF Settles
<1>10. out \subseteq IdsOf(timed)
  BY <1>6, Zenon DEF Settles, IdsOf
<1>11. \A d, e \in waiting : d.id = e.id => d = e
  BY <1>6, Zenon DEF Settles
<1> HIDE DEF waiting, ids, timed, out
<1>12. /\ dns' \in DnsClients /\ dns'.sent = out /\ dns'.timed = timed /\ dns'.deferred = ids
       /\ dns'.deferredTimed = waiting /\ dns'.timer = c.timer
  BY <1>1, <1>4, <1>8, Zenon DEF DnsClients
<1>13. Settles(dns')
  BY <1>7, <1>9, <1>10, <1>11, <1>12, Zenon DEF Settles
<1>14. requestIds' = dns'.sent \cup dns'.deferred /\ dns'.timer = dns.timer
  BY <1>1, <1>2, <1>9, <1>12, Zenon DEF DnsRequestsOK
<1> QED BY <1>2, <1>12, <1>13, <1>14, Zenon DEF DnsRequestsOK

LEMMA DnsConnectFails ==
  ASSUME DnsRequestsOK, Proxy!ConnectFails
  PROVE  DnsRequestsOK'
<1>1. /\ requestIds' = requestIds \ dns.deferred /\ clock' = clock
      /\ dns' = [dns EXCEPT !.tcp = "none", !.deferred = {}, !.deferredTimed = {}]
  BY Zenon DEF Proxy!ConnectFails
<1>2. /\ dns' \in DnsClients /\ dns'.sent = dns.sent /\ dns'.timed = dns.timed /\ dns'.deferred = {}
      /\ dns'.deferredTimed = {} /\ dns'.timer = dns.timer
  BY <1>1, Zenon DEF DnsRequestsOK, DnsClients
<1>3. Settles(dns')
  BY <1>2, Zenon DEF DnsRequestsOK, Settles, IdsOf
<1>4. requestIds' = dns'.sent \cup dns'.deferred /\ (requestIds' # {} => requestIds # {})
  BY <1>1, <1>2, Zenon DEF DnsRequestsOK, Settles
<1> QED BY <1>1, <1>2, <1>3, <1>4, Zenon DEF DnsRequestsOK

LEMMA DnsTcpEnds ==
  ASSUME DnsRequestsOK, Proxy!TcpEnds
  PROVE  DnsRequestsOK'
<1> DEFINE c == [dns EXCEPT !.tcp = "none", !.sent = {}, !.timed = {}]
<1>1. /\ requestIds' = requestIds \ dns.sent /\ clock' = clock
      /\ dns' \in IF c.deferredTimed # {} THEN Proxy!Connected(c) ELSE {c}
  BY Zenon DEF Proxy!TcpEnds
<1>2. /\ c \in DnsClients /\ c.sent = {} /\ c.timed = {} /\ c.deferred = dns.deferred
      /\ c.deferredTimed = dns.deferredTimed /\ c.timer = dns.timer
  BY Zenon DEF DnsRequestsOK, DnsClients
<1> HIDE DEF c
<1>3. dns' = [c EXCEPT !.tcp = "connecting"] \/ dns' = [c EXCEPT !.tcp = "none"] \/ dns' = c
  BY <1>1, Zenon DEF Proxy!Connected
<1>4. /\ dns' \in DnsClients /\ dns'.sent = {} /\ dns'.timed = {} /\ dns'.deferred = dns.deferred
      /\ dns'.deferredTimed = dns.deferredTimed /\ dns'.timer = dns.timer
  BY <1>2, <1>3, Zenon DEF DnsClients
<1>5. Settles(dns')
  BY <1>4, Zenon DEF DnsRequestsOK, Settles, IdsOf
<1>6. requestIds' = dns'.sent \cup dns'.deferred /\ (requestIds' # {} => requestIds # {})
  BY <1>1, <1>4, Zenon DEF DnsRequestsOK, Settles
<1> QED BY <1>1, <1>4, <1>5, <1>6, Zenon DEF DnsRequestsOK

LEMMA DnsAnswered ==
  ASSUME DnsRequestsOK, NEW id, Proxy!Answered(id)
  PROVE  DnsRequestsOK'
<1> DEFINE out == dns.sent \ {id}
<1>1. id \in dns.sent /\ requestIds' = requestIds \ {id} /\ clock' = clock /\ dns' = [dns EXCEPT !.sent = out]
  BY Zenon DEF Proxy!Answered
<1>2. out \in SUBSET Nat
  BY DnsClientFields, Zenon DEF DnsRequestsOK
<1>3. /\ out \subseteq dns.sent /\ out \cup dns.deferred = (dns.sent \cup dns.deferred) \ {id}
  BY <1>1, Zenon DEF DnsRequestsOK, Settles
<1> HIDE DEF out
<1>4. /\ dns' \in DnsClients /\ dns'.sent = out /\ dns'.timed = dns.timed /\ dns'.deferred = dns.deferred
      /\ dns'.deferredTimed = dns.deferredTimed /\ dns'.timer = dns.timer
  BY <1>1, <1>2, Zenon DEF DnsRequestsOK, DnsClients
<1>5. Settles(dns')
  BY <1>3, <1>4, Zenon DEF DnsRequestsOK, Settles
<1>6. requestIds' = dns'.sent \cup dns'.deferred /\ (requestIds' # {} => requestIds # {})
  BY <1>1, <1>3, <1>4, Zenon DEF DnsRequestsOK
<1> QED BY <1>1, <1>4, <1>5, <1>6, Zenon DEF DnsRequestsOK

LEMMA DnsTimer ==
  ASSUME DnsRequestsOK, Proxy!TimerHandler
  PROVE  DnsRequestsOK'
<1>1. PICK now \in 0 .. clock :
        LET expired(ds) == {d.id : d \in {e \in ds : e.at <= now}} IN
        /\ dns' = Proxy!Rearmed([dns EXCEPT !.timed = {d \in @ : d.at > now}, !.sent = @ \ expired(dns.timed),
                                            !.deferredTimed = {d \in @ : d.at > now},
                                            !.deferred = @ \ expired(dns.deferredTimed)])
        /\ requestIds' = requestIds \ ((expired(dns.timed) \cap dns.sent)
                                       \cup (expired(dns.deferredTimed) \cap dns.deferred))
  BY Zenon DEF Proxy!TimerHandler
<1> DEFINE past(ds) == {d \in ds : d.at <= now}
           timed == {d \in dns.timed : d.at > now}
           out == dns.sent \ IdsOf(past(dns.timed))
           waiting == {d \in dns.deferredTimed : d.at > now}
           ids == dns.deferred \ IdsOf(past(dns.deferredTimed))
           c == [dns EXCEPT !.timed = timed, !.sent = out, !.deferredTimed = waiting, !.deferred = ids]
           due == timed \cup waiting # {}
<1>2. /\ dns.sent \subseteq Nat /\ dns.timed \subseteq DnsDeadlines /\ dns.deferred \subseteq Nat
      /\ dns.deferredTimed \subseteq DnsDeadlines /\ clock \in Nat
  BY DnsClientFields, Zenon DEF DnsRequestsOK
<1>3. \A d \in DnsDeadlines : d.at > now <=> ~(d.at <= now)
  BY <1>2, SMT DEF DnsDeadlines
<1>4. /\ dns' = Proxy!Rearmed(c)
      /\ requestIds' = requestIds \ ((IdsOf(past(dns.timed)) \cap dns.sent)
                                     \cup (IdsOf(past(dns.deferredTimed)) \cap dns.deferred))
  BY <1>1, Zenon DEF IdsOf
<1>5. /\ timed \in SUBSET DnsDeadlines /\ out \in SUBSET Nat /\ waiting \in SUBSET DnsDeadlines
      /\ ids \in SUBSET Nat
  BY <1>2, Zenon
<1>6. out \subseteq IdsOf(timed)
  <2> SUFFICES ASSUME NEW x \in out PROVE x \in IdsOf(timed)
    BY Zenon
  <2>1. PICK d \in dns.timed : x = d.id
    BY Zenon DEF DnsRequestsOK, Settles, IdsOf
  <2>2. ~(d.at <= now)
    BY <2>1, Zenon DEF IdsOf
  <2>3. d \in timed
    BY <1>2, <1>3, <2>2, Zenon
  <2> QED BY <2>1, <2>3, Zenon DEF IdsOf
<1>7. ids = IdsOf(waiting)
  <2>1. past(dns.deferredTimed) \in SUBSET dns.deferredTimed
    BY Zenon
  <2>2. waiting = dns.deferredTimed \ past(dns.deferredTimed)
    BY <1>2, <1>3, Zenon
  <2> HIDE DEF past, waiting
  <2>3. Settles(dns)
    BY Zenon DEF DnsRequestsOK
  <2> QED BY <2>1, <2>2, <2>3, DeadlinesSplit, Zenon
<1>8. /\ out \cap ids = {} /\ \A d, e \in waiting : d.id = e.id => d = e
  BY Zenon DEF DnsRequestsOK, Settles
<1>9. requestIds' = out \cup ids
  <2>1. requestIds = dns.sent \cup dns.deferred /\ dns.sent \cap dns.deferred = {}
    BY Zenon DEF DnsRequestsOK, Settles
  <2> HIDE DEF past
  <2> QED BY <1>4, <2>1, Zenon
<1>10. due \in BOOLEAN /\ (out \cup ids # {} => due)
  BY <1>6, <1>7, Zenon DEF IdsOf
<1>11. due <=> timed \cup waiting # {}
  BY Zenon
<1> HIDE DEF past, timed, out, waiting, ids, due
<1>12. /\ c \in DnsClients /\ c.sent = out /\ c.timed = timed /\ c.deferred = ids /\ c.deferredTimed = waiting
  BY <1>5, Zenon DEF DnsRequestsOK, DnsClients
<1>13. dns' = [c EXCEPT !.timer = due]
  <2> HIDE DEF c
  <2> QED BY <1>4, <1>12, Zenon DEF Proxy!Rearmed, due
<1> HIDE DEF c
<1>14. /\ dns' \in DnsClients /\ dns'.sent = out /\ dns'.timed = timed /\ dns'.deferred = ids
       /\ dns'.deferredTimed = waiting /\ dns'.timer = due
  BY <1>10, <1>12, <1>13, Zenon DEF DnsClients
<1>15. Settles(dns')
  BY <1>6, <1>7, <1>8, <1>14, Zenon DEF Settles
<1>16. clock' = clock
  BY Zenon DEF Proxy!TimerHandler
<1> QED BY <1>9, <1>10, <1>14, <1>15, <1>16, Zenon DEF DnsRequestsOK

LEMMA DnsRequestsStep ==
  ASSUME DnsRequestsOK, [Proxy!Next]_(Proxy!dnsVars)
  PROVE  DnsRequestsOK'
<1>1. CASE dns' = dns /\ requestIds' = requestIds /\ clock' = clock
  BY <1>1, Zenon DEF DnsRequestsOK
<1>2. CASE UNCHANGED Proxy!dnsVars \/ Proxy!Subscribe \/ Proxy!SetSystemServers \/ Proxy!BeginNotification
           \/ Proxy!OnDnsChange \/ Proxy!OnNetworkChange
  BY <1>1, <1>2, Zenon DEF Proxy!dnsVars, Proxy!Subscribe, Proxy!SetSystemServers, Proxy!BeginNotification,
                          Proxy!OnDnsChange, Proxy!OnNetworkChange
<1>3. CASE Proxy!StartSystemProxy \/ Proxy!Initialize \/ Proxy!UpdateParameters
  <2>1. clock' = clock /\ (Proxy!StartClient \/ UNCHANGED <<dns, requestIds>>)
    BY <1>3, Zenon DEF Proxy!StartSystemProxy, Proxy!Initialize, Proxy!UpdateParameters
  <2> SUFFICES ASSUME Proxy!StartClient PROVE DnsRequestsOK'
    BY <1>1, <2>1, Zenon
  <2>2. PICK ok \in BOOLEAN : dns' = [Proxy!NewClient EXCEPT !.up = ok]
    BY Zenon DEF Proxy!StartClient, Proxy!AccessorStart
  <2>3. requestIds' = {} /\ clock' \in Nat
    BY <2>1, Zenon DEF Proxy!StartClient, DnsRequestsOK
  <2> QED BY <2>2, <2>3, NewClientSettles, Zenon
<1>4. CASE Proxy!Shutdown
  <2>1. dns' = [Proxy!NewClient EXCEPT !.up = FALSE] /\ requestIds' = {} /\ clock' \in Nat
    BY <1>4, Zenon DEF Proxy!Shutdown, DnsRequestsOK
  <2> QED BY <2>1, NewClientSettles, Zenon
<1>5. CASE Proxy!TcpSocketHandler \/ Proxy!UdpSocketHandler
  BY <1>5, DnsTcpReady, DnsConnectFails, DnsTcpEnds, DnsAnswered, Zenon
     DEF Proxy!TcpSocketHandler, Proxy!UdpSocketHandler, Proxy!TcpResponse
<1> QED BY <1>2, <1>3, <1>4, <1>5, DnsSendRequest, DnsTimer, Zenon DEF Proxy!Next

LEMMA DnsServersStep ==
  ASSUME DnsServersOK, [Proxy!Next]_(Proxy!dnsVars)
  PROVE  DnsServersOK'
<1>1. manager \in [version : Nat, subscribed : BOOLEAN, task : BOOLEAN] /\ used \in [version : Nat, missed : BOOLEAN]
  BY Zenon DEF DnsServersOK
<1>2. manager.version \in Nat /\ manager.version + 1 \in Nat
  <2>1. manager.version \in Nat
    BY <1>1, Zenon
  <2> QED BY <2>1, SMT
<1>3. CASE manager' = manager /\ loopAt' = loopAt /\ used' = used
  BY <1>3, Zenon DEF DnsServersOK
<1>4. CASE Proxy!ReadServers /\ manager' = manager
  <2>1. used' \in [version : Nat, missed : BOOLEAN] /\ used'.version = manager.version
    BY <1>2, <1>4, Zenon DEF Proxy!ReadServers
  <2> QED BY <1>1, <1>4, <2>1, Zenon DEF DnsServersOK
<1>5. CASE Proxy!Subscribe
  <2>1. manager' = [manager EXCEPT !.subscribed = TRUE] /\ loopAt = "subscribe" /\ used' = used /\ loopAt' = "idle"
    BY <1>5, Zenon DEF Proxy!Subscribe
  <2>2. manager' \in [version : Nat, subscribed : BOOLEAN, task : BOOLEAN] /\ manager'.version = manager.version
    BY <1>1, <2>1, Zenon
  <2> QED BY <1>1, <2>1, <2>2, SMT DEF DnsServersOK
<1>6. CASE Proxy!SetSystemServers
  <2> DEFINE job == manager.task \/ manager.subscribed
             unheard == used.missed \/ loopAt = "subscribe"
             next == manager.version + 1
  <2>1. /\ manager' = [manager EXCEPT !.version = next, !.task = job]
        /\ used' = [used EXCEPT !.missed = unheard] /\ loopAt' = loopAt
    BY <1>6, Zenon DEF Proxy!SetSystemServers
  <2>2. job \in BOOLEAN /\ unheard \in BOOLEAN /\ (manager.subscribed => job) /\ (loopAt = "subscribe" => unheard)
    BY Zenon
  <2> HIDE DEF job, unheard, next
  <2>3. /\ manager' \in [version : Nat, subscribed : BOOLEAN, task : BOOLEAN]
        /\ manager'.subscribed = manager.subscribed /\ manager'.task = job
        /\ used' \in [version : Nat, missed : BOOLEAN] /\ used'.missed = unheard
    <3>1. next \in Nat
      BY <1>2, Zenon DEF next
    <3> QED BY <1>1, <2>1, <2>2, <3>1, Zenon
  <2> QED BY <2>1, <2>2, <2>3, Zenon DEF DnsServersOK
<1>7. CASE Proxy!BeginNotification
  <2>1. manager' = [manager EXCEPT !.task = FALSE] /\ loopAt' = "notified" /\ used' = used
    BY <1>7, Zenon DEF Proxy!BeginNotification
  <2>2. manager' \in [version : Nat, subscribed : BOOLEAN, task : BOOLEAN]
    BY <1>1, <2>1, Zenon
  <2>3. loopAt' \notin {"idle", "restarting"} /\ loopAt' # "subscribe"
    BY <2>1, SMT
  <2> QED BY <1>1, <2>1, <2>2, <2>3, Zenon DEF DnsServersOK
<1>8. CASE Proxy!Shutdown
  <2>1. manager' = [manager EXCEPT !.subscribed = FALSE, !.task = FALSE] /\ loopAt' = "off" /\ used' = used
    BY <1>8, Zenon DEF Proxy!Shutdown
  <2>2. manager' \in [version : Nat, subscribed : BOOLEAN, task : BOOLEAN]
    BY <1>1, <2>1, Zenon
  <2>3. loopAt' \notin {"idle", "restarting"} /\ loopAt' # "subscribe"
    BY <2>1, SMT
  <2> QED BY <1>1, <2>1, <2>2, <2>3, Zenon DEF DnsServersOK
<1>9. CASE Proxy!StartSystemProxy
  <2>1. manager' = manager /\ used' = used /\ loopAt = "restarting" /\ loopAt' = "idle"
    BY <1>9, Zenon DEF Proxy!StartSystemProxy
  <2> QED BY <2>1, SMT DEF DnsServersOK
<1>10. CASE UNCHANGED Proxy!dnsVars \/ Proxy!SendRequest \/ Proxy!TcpSocketHandler \/ Proxy!UdpSocketHandler
            \/ Proxy!TimerHandler \/ Proxy!UpdateParameters
  <2>1. manager' = manager /\ loopAt' = loopAt /\ used' = used
    BY <1>10, Zenon DEF Proxy!dnsVars, Proxy!SendRequest, Proxy!TcpSocketHandler, Proxy!UdpSocketHandler,
                       Proxy!TimerHandler, Proxy!UpdateParameters, Proxy!TcpReady, Proxy!ConnectFails, Proxy!TcpEnds,
                       Proxy!TcpResponse, Proxy!Answered
  <2> QED BY <1>3, <2>1, Zenon
<1>11. CASE Proxy!Initialize \/ Proxy!OnDnsChange \/ Proxy!OnNetworkChange
  BY <1>4, <1>11, Zenon DEF Proxy!Initialize, Proxy!OnDnsChange, Proxy!OnNetworkChange
<1> QED BY <1>5, <1>6, <1>7, <1>8, <1>9, <1>10, <1>11, Zenon DEF Proxy!Next

\* What a restart leaves.
LEMMA StartedFollows ==
  ASSUME NEW v \in Nat, NEW p \in Proxy!Started(v)
  PROVE  ProxiesFollow(p, v)
<1>1. CASE \E r \in [four : {{}, {v}}, six : {{}, {v}}] :
              (r.four # {} \/ r.six # {}) /\ p = [v4 |-> r.four, v6 |-> r.six, end |-> "ok"]
  <2>1. PICK r \in [four : {{}, {v}}, six : {{}, {v}}] :
           (r.four # {} \/ r.six # {}) /\ p = [v4 |-> r.four, v6 |-> r.six, end |-> "ok"]
    BY <1>1, Zenon
  <2> QED BY <2>1, SMT DEF ProxiesFollow
<1>2. CASE p = [v4 |-> {}, v6 |-> proxies.v6, end |-> "v4"]
  BY <1>2, SMT DEF ProxiesFollow
<1>3. CASE \E four \in {{}, {v}} : p = [v4 |-> four, v6 |-> {}, end |-> "v6"]
  <2>1. PICK four \in {{}, {v}} : p = [v4 |-> four, v6 |-> {}, end |-> "v6"]
    BY <1>3, Zenon
  <2> QED BY <2>1, SMT DEF ProxiesFollow
<1> QED BY <1>1, <1>2, <1>3, Zenon DEF Proxy!Started, Proxy!NoProxies

LEMMA DnsProxiesStep ==
  ASSUME DnsProxiesOK, DnsServersOK, [Proxy!Next]_(Proxy!dnsVars)
  PROVE  DnsProxiesOK'
<1>1. used \in [version : Nat, missed : BOOLEAN] /\ used.version \in Nat /\ manager.version \in Nat
  BY Zenon DEF DnsServersOK
<1>2. CASE loopAt' = loopAt /\ used'.version = used.version /\ proxies' = proxies
  BY <1>2, Zenon DEF DnsProxiesOK
<1>3. CASE Proxy!StartSystemProxy
  BY <1>1, <1>3, StartedFollows, Zenon DEF Proxy!StartSystemProxy, DnsProxiesOK
<1>4. CASE Proxy!Initialize
  <2>1. used'.version = manager.version /\ loopAt = "off"
    BY <1>4, Zenon DEF Proxy!Initialize, Proxy!ReadServers
  <2>2. (proxies' \in Proxy!Started(manager.version)) \/ loopAt' = "off"
    BY <1>4, Zenon DEF Proxy!Initialize
  <2>3. loopAt' = "off" => DnsProxiesOK'
    BY SMT DEF DnsProxiesOK
  <2> QED BY <1>1, <2>1, <2>2, <2>3, StartedFollows, Zenon DEF DnsProxiesOK
<1>5. CASE Proxy!Subscribe
  BY <1>5, SMT DEF Proxy!Subscribe, DnsProxiesOK
<1>6. CASE Proxy!SetSystemServers
  <2>1. used' = [used EXCEPT !.missed = used.missed \/ loopAt = "subscribe"] /\ loopAt' = loopAt /\ proxies' = proxies
    BY <1>6, Zenon DEF Proxy!SetSystemServers
  <2> QED BY <1>1, <1>2, <2>1, Zenon
<1>7. CASE Proxy!BeginNotification \/ Proxy!OnDnsChange \/ Proxy!OnNetworkChange \/ Proxy!Shutdown
  <2>1. loopAt' \in {"notified", "restarting", "off"}
    BY <1>7, Zenon DEF Proxy!BeginNotification, Proxy!OnDnsChange, Proxy!OnNetworkChange, Proxy!Shutdown
  <2> QED BY <2>1, SMT DEF DnsProxiesOK
<1>8. CASE UNCHANGED Proxy!dnsVars \/ Proxy!SendRequest \/ Proxy!TcpSocketHandler \/ Proxy!UdpSocketHandler
           \/ Proxy!TimerHandler \/ Proxy!UpdateParameters
  <2>1. proxies' = proxies /\ loopAt' = loopAt /\ used' = used
    BY <1>8, Zenon DEF Proxy!dnsVars, Proxy!SendRequest, Proxy!TcpSocketHandler, Proxy!UdpSocketHandler,
                       Proxy!TimerHandler, Proxy!UpdateParameters, Proxy!TcpReady, Proxy!ConnectFails, Proxy!TcpEnds,
                       Proxy!TcpResponse, Proxy!Answered
  <2> QED BY <1>2, <2>1, Zenon
<1> QED BY <1>3, <1>4, <1>5, <1>6, <1>7, <1>8, Zenon DEF Proxy!Next

LEMMA DnsImplies == DnsRequestsOK /\ DnsServersOK /\ DnsProxiesOK => DnsProxyServed
<1> SUFFICES ASSUME DnsRequestsOK, DnsServersOK, DnsProxiesOK PROVE DnsProxyServed
  OBVIOUS
<1>1. Proxy!RequestsSettle
  BY Zenon DEF DnsRequestsOK, Settles, IdsOf, Proxy!RequestsSettle
<1>2. Proxy!ServersFollowed
  BY Zenon DEF DnsServersOK, DnsProxiesOK, ProxiesFollow, Proxy!ServersFollowed
<1> QED BY <1>1, <1>2, Zenon DEF DnsProxyServed

\* The handler and the client have the same requests and each of them ends, and the proxy follows the servers that
\* other threads set, for any size of the ids and any order of requests, responses, socket events, timeouts,
\* restarts and notifications (dns_client.cpp, dns_handler.cpp, dns_manager.cpp).
THEOREM DnsProxyIsServed == Proxy!Spec => []DnsProxyServed
<1>1. DnsRequestsOK /\ [Proxy!Next]_(Proxy!dnsVars) => DnsRequestsOK'
  BY DnsRequestsStep
<1>2. DnsServersOK /\ [Proxy!Next]_(Proxy!dnsVars) => DnsServersOK'
  BY DnsServersStep
<1>3. DnsProxiesOK /\ DnsServersOK /\ [Proxy!Next]_(Proxy!dnsVars) => DnsProxiesOK'
  BY DnsProxiesStep
<1> QED BY <1>1, <1>2, <1>3, DnsImplies, DnsInit, PTL DEF Proxy!Spec

-----------------------------------------------------------------------------
(* The DNS handler.                                                        *)

HandlerUpstream ==
    [tunnel : {"none", "opening", "open", "closing", "gone"}, known : BOOLEAN, udp : BOOLEAN, unanswered : Nat,
     proxied : Nat]
HandlerListener == [tunnel : {"none", "asked", "open", "gone"}, reads : BOOLEAN, kept : Nat]

\* A connection that is not open has asked for nothing yet; p is the upstream's record, l the listener's.
Unused(p, l) == p.proxied = 0 /\ l.tunnel = "none"

\* DnsConnectionsServed of the connection u, and what is known of it before it is open; O are the connections whose
\* opening is to be reported, S those whose data is to be sent, or that are to be closed.
Serves(p, l, u, O, S) ==
    /\ p.tunnel = "open" => p.known
    /\ l.tunnel \in {"asked", "open"} => p.known
    /\ l.tunnel = "open" /\ l.reads /\ l.kept > 0 /\ ~p.udp => u \in S
    /\ p.tunnel = "none" => Unused(p, l)
    /\ u \in O => p.tunnel = "opening" /\ p.known /\ Unused(p, l)

Due == toSend \cup toClose

HandlerOK ==
    /\ upstreamSide \in [DnsConns -> HandlerUpstream] /\ listenerSide \in [DnsConns -> HandlerListener]
    /\ \A u \in DnsConns : Serves(upstreamSide[u], listenerSide[u], u, opening, Due)

LEMMA HandlerFields ==
  ASSUME NEW p \in HandlerUpstream, NEW l \in HandlerListener
  PROVE  /\ p.tunnel \in {"none", "opening", "open", "closing", "gone"} /\ p.known \in BOOLEAN /\ p.udp \in BOOLEAN
         /\ p.unanswered \in Nat /\ p.proxied \in Nat
         /\ l.tunnel \in {"none", "asked", "open", "gone"} /\ l.reads \in BOOLEAN /\ l.kept \in Nat
BY Zenon DEF HandlerUpstream, HandlerListener

LEMMA HandlerInit == Handler!Init => HandlerOK
<1> SUFFICES ASSUME Handler!Init PROVE HandlerOK
  OBVIOUS
<1>1. 0 \in Nat
  BY SMT
<1>2. /\ Handler!NoUpstream \in HandlerUpstream /\ Handler!NoListener \in HandlerListener
      /\ Handler!NoUpstream.tunnel = "none" /\ Handler!NoListener.tunnel = "none" /\ Handler!NoUpstream.proxied = 0
  BY <1>1, Zenon DEF Handler!NoUpstream, Handler!NoListener, HandlerUpstream, HandlerListener
<1>3. /\ upstreamSide = [u \in DnsConns |-> Handler!NoUpstream] /\ listenerSide = [u \in DnsConns |-> Handler!NoListener]
      /\ opening = {}
  BY Zenon DEF Handler!Init
<1>4. \A u \in DnsConns : Serves(Handler!NoUpstream, Handler!NoListener, u, {}, Due)
  BY <1>2, SMT DEF Serves, Unused
<1> QED BY <1>2, <1>3, <1>4, Zenon DEF HandlerOK

\* One connection has changed.
LEMMA HandlerOne ==
  ASSUME HandlerOK, NEW u \in DnsConns, NEW p \in HandlerUpstream, NEW l \in HandlerListener,
         upstreamSide' = [upstreamSide EXCEPT ![u] = p], listenerSide' = [listenerSide EXCEPT ![u] = l],
         \A v \in DnsConns : v # u => (v \in opening' => v \in opening) /\ (v \in Due => v \in Due'),
         Serves(p, l, u, opening', Due')
  PROVE  HandlerOK'
<1>1. upstreamSide \in [DnsConns -> HandlerUpstream] /\ listenerSide \in [DnsConns -> HandlerListener]
  BY Zenon DEF HandlerOK
<1>2. /\ upstreamSide' \in [DnsConns -> HandlerUpstream] /\ listenerSide' \in [DnsConns -> HandlerListener]
      /\ upstreamSide'[u] = p /\ listenerSide'[u] = l
      /\ \A v \in DnsConns : v # u => upstreamSide'[v] = upstreamSide[v] /\ listenerSide'[v] = listenerSide[v]
  BY <1>1, Zenon
<1>3. ASSUME NEW v \in DnsConns
      PROVE  Serves(upstreamSide'[v], listenerSide'[v], v, opening', Due')
  <2>1. CASE v = u
    BY <1>2, <2>1, Zenon
  <2>2. CASE v # u
    <3>1. Serves(upstreamSide[v], listenerSide[v], v, opening, Due)
      BY Zenon DEF HandlerOK
    <3>2. upstreamSide'[v] = upstreamSide[v] /\ listenerSide'[v] = listenerSide[v]
      BY <1>2, <2>2, Zenon
    <3> QED BY <2>2, <3>1, <3>2, Zenon DEF Serves
  <2> QED BY <2>1, <2>2, Zenon
<1> QED BY <1>2, <1>3, Zenon DEF HandlerOK

\* CLIENT_EVENT_CONNECTION_CLOSED
LEMMA ListenerIsClosed ==
  ASSUME NEW l \in HandlerListener
  PROVE  Handler!ListenerClosed(l) \in HandlerListener /\ Handler!ListenerClosed(l).tunnel \notin {"asked", "open"}
<1> DEFINE to == IF l.tunnel = "none" THEN "none" ELSE "gone"
           m == [l EXCEPT !.tunnel = to]
<1>1. to \in {"none", "gone"} /\ to \in {"none", "asked", "open", "gone"} /\ to \notin {"asked", "open"}
  BY SMT
<1>2. Handler!ListenerClosed(l) = m
  BY Zenon DEF Handler!ListenerClosed
<1> HIDE DEF to
<1>3. m \in HandlerListener /\ m.tunnel = to
  BY <1>1, Zenon DEF HandlerListener
<1> QED BY <1>1, <1>2, <1>3, Zenon

\* raise_read leaves nothing that the tunnel takes, or it has failed.
LEMMA ReadRaised ==
  ASSUME NEW l \in HandlerListener, NEW r \in Handler!RaiseRead(l)
  PROVE  /\ r[1] \in HandlerListener /\ r[1].tunnel = l.tunnel /\ r[2] \in BOOLEAN
         /\ r[2] => ~(r[1].tunnel = "open" /\ r[1].reads /\ r[1].kept > 0)
<1>1. l.kept \in Nat /\ 0 \in Nat /\ ~(0 > 0)
  BY HandlerFields, SMT DEF HandlerListener
<1>2. CASE ~l.reads \/ l.kept = 0 \/ l.tunnel = "gone"
  <2>1. r = <<l, TRUE>>
    BY <1>2, Zenon DEF Handler!RaiseRead
  <2>2. ~(l.tunnel = "open" /\ l.reads /\ l.kept > 0)
    BY <1>1, <1>2, SMT
  <2> QED BY <2>1, <2>2, Zenon
<1>3. CASE ~(~l.reads \/ l.kept = 0 \/ l.tunnel = "gone")
  <2>1. \/ r = <<[l EXCEPT !.kept = 0], TRUE>>
        \/ \E k \in 0 .. l.kept : r = <<[l EXCEPT !.reads = FALSE, !.kept = k], k <= MaxQueued>>
        \/ \E on \in BOOLEAN : r = <<[l EXCEPT !.reads = on], FALSE>>
    BY <1>3, Zenon DEF Handler!RaiseRead
  <2>2. CASE r = <<[l EXCEPT !.kept = 0], TRUE>>
    <3>1. r[1] \in HandlerListener /\ r[1].tunnel = l.tunnel /\ r[1].kept = 0 /\ r[2] = TRUE
      BY <1>1, <2>2, Zenon DEF HandlerListener
    <3> QED BY <1>1, <3>1, Zenon
  <2>3. ASSUME NEW k \in 0 .. l.kept, r = <<[l EXCEPT !.reads = FALSE, !.kept = k], k <= MaxQueued>>
        PROVE  r[1] \in HandlerListener /\ r[1].tunnel = l.tunnel /\ ~r[1].reads /\ r[2] \in BOOLEAN
    <3>1. k \in Nat /\ (k <= MaxQueued) \in BOOLEAN
      BY <1>1, SMT
    <3> QED BY <2>3, <3>1, Zenon DEF HandlerListener
  <2>4. ASSUME NEW on \in BOOLEAN, r = <<[l EXCEPT !.reads = on], FALSE>>
        PROVE  r[1] \in HandlerListener /\ r[1].tunnel = l.tunnel /\ r[2] = FALSE
    BY <2>4, Zenon DEF HandlerListener
  <2> QED BY <2>1, <2>2, <2>3, <2>4, Zenon
<1> QED BY <1>2, <1>3, Zenon

\* What is left by a caller that closes the connection of a failed read at once.
LEMMA ReadOrClosed ==
  ASSUME NEW r, r[1] \in HandlerListener, r[2] \in BOOLEAN,
         r[2] => ~(r[1].tunnel = "open" /\ r[1].reads /\ r[1].kept > 0)
  PROVE  LET m == Handler!ReadOrClosed(r)
         IN  /\ m \in HandlerListener /\ ~(m.tunnel = "open" /\ m.reads /\ m.kept > 0)
             /\ m.tunnel = r[1].tunnel \/ m.tunnel \notin {"asked", "open"}
             /\ r[1].tunnel = "none" => m.tunnel = "none"
<1>1. CASE r[2]
  <2>1. Handler!ReadOrClosed(r) = r[1]
    BY <1>1, Zenon DEF Handler!ReadOrClosed
  <2> QED BY <1>1, <2>1, Zenon
<1>2. CASE ~r[2]
  <2>1. Handler!ReadOrClosed(r) = Handler!ListenerClosed(r[1])
    BY <1>2, Zenon DEF Handler!ReadOrClosed
  <2>2. r[1].tunnel = "none" => Handler!ListenerClosed(r[1]).tunnel = "none"
    BY Zenon DEF Handler!ListenerClosed, HandlerListener
  <2> QED BY <2>1, <2>2, ListenerIsClosed, Zenon
<1> QED BY <1>1, <1>2

LEMMA HandlerCompletes ==
  ASSUME HandlerOK, NEW u \in DnsConns, NEW pass \in BOOLEAN, Handler!CompleteConnectRequest(u, pass)
  PROVE  HandlerOK'
<1> DEFINE p == upstreamSide[u]
           l == listenerSide[u]
<1>1. p \in HandlerUpstream /\ l \in HandlerListener /\ Serves(p, l, u, opening, Due)
      /\ upstreamSide \in [DnsConns -> HandlerUpstream]
  BY Zenon DEF HandlerOK
<1>2. l.tunnel = "asked" /\ upstreamSide' = [upstreamSide EXCEPT ![u] = p] /\ opening' = opening /\ Due' = Due
  BY <1>1, Zenon DEF Handler!CompleteConnectRequest, Due
<1>3. p.known /\ u \notin opening /\ p.tunnel # "none"
  <2>1. l.tunnel \in {"asked", "open"} /\ l.tunnel # "none"
    BY <1>2, SMT
  <2> QED BY <1>1, <2>1, Zenon DEF Serves, Unused
<1>4. PICK m \in HandlerListener : /\ listenerSide' = [listenerSide EXCEPT ![u] = m]
                                   /\ m.tunnel = "open" /\ m.reads /\ m.kept > 0 => p.udp
  <2>1. CASE pass
    <3> DEFINE o == [l EXCEPT !.tunnel = "open", !.reads = TRUE]
    <3>1. o \in HandlerListener
      BY <1>1, Zenon DEF HandlerListener
    <3>2. PICK r \in IF p.udp THEN {<<[o EXCEPT !.kept = 0], TRUE>>} ELSE Handler!RaiseRead(o) :
            listenerSide' = [listenerSide EXCEPT ![u] = Handler!ReadOrClosed(r)]
      BY <2>1, Zenon DEF Handler!CompleteConnectRequest
    <3> HIDE DEF o, p, l
    <3>3. CASE p.udp
      <4>1. 0 \in Nat /\ ~(0 > 0)
        BY SMT
      <4>2. r = <<[o EXCEPT !.kept = 0], TRUE>>
        BY <3>2, <3>3, Zenon
      <4>3. r[1] \in HandlerListener /\ r[2] = TRUE /\ r[1].kept = 0
        BY <3>1, <4>1, <4>2, Zenon DEF HandlerListener
      <4> QED BY <3>2, <3>3, <4>1, <4>3, ReadOrClosed, Zenon
    <3>4. CASE ~p.udp
      <4>1. r \in Handler!RaiseRead(o)
        BY <3>2, <3>4, Zenon
      <4>2. /\ r[1] \in HandlerListener /\ r[2] \in BOOLEAN
            /\ r[2] => ~(r[1].tunnel = "open" /\ r[1].reads /\ r[1].kept > 0)
        BY <3>1, <4>1, ReadRaised, Zenon
      <4> QED BY <3>2, <4>2, ReadOrClosed, Zenon
    <3> QED BY <3>3, <3>4, Zenon
  <2>2. CASE ~pass
    <3>1. listenerSide' = [listenerSide EXCEPT ![u] = Handler!ListenerClosed(l)]
      BY <2>2, Zenon DEF Handler!CompleteConnectRequest
    <3> HIDE DEF l
    <3>2. Handler!ListenerClosed(l) \in HandlerListener /\ Handler!ListenerClosed(l).tunnel \notin {"asked", "open"}
      BY <1>1, ListenerIsClosed, Zenon
    <3> QED BY <3>1, <3>2, Zenon
  <2> QED BY <2>1, <2>2, Zenon
<1> HIDE DEF p, l
<1>5. Serves(p, m, u, opening', Due')
  BY <1>1, <1>2, <1>3, <1>4, Zenon DEF Serves
<1> QED BY <1>1, <1>2, <1>4, <1>5, HandlerOne, Zenon

LEMMA HandlerCloseListener ==
  ASSUME HandlerOK, NEW u \in DnsConns, NEW async \in BOOLEAN, Handler!CloseListener(u, async)
  PROVE  HandlerOK'
<1> DEFINE p == upstreamSide[u]
           l == listenerSide[u]
<1>1. /\ p \in HandlerUpstream /\ l \in HandlerListener /\ Serves(p, l, u, opening, Due)
      /\ upstreamSide \in [DnsConns -> HandlerUpstream]
  BY Zenon DEF HandlerOK
<1>2. upstreamSide' = upstreamSide /\ opening' = opening /\ Due \subseteq Due' /\ l.tunnel = "open"
  BY Zenon DEF Handler!CloseListener, Due
<1>3. CASE listenerSide' = listenerSide
  BY <1>2, <1>3, Zenon DEF HandlerOK, Serves
<1>4. CASE listenerSide' = [listenerSide EXCEPT ![u] = Handler!ListenerClosed(l)]
  <2>1. upstreamSide' = [upstreamSide EXCEPT ![u] = p]
    BY <1>1, <1>2, Zenon
  <2>2. l.tunnel # "none"
    BY <1>2, SMT
  <2> HIDE DEF p, l
  <2>3. Handler!ListenerClosed(l) \in HandlerListener /\ Handler!ListenerClosed(l).tunnel \notin {"asked", "open"}
    BY <1>1, ListenerIsClosed, Zenon
  <2>4. Serves(p, Handler!ListenerClosed(l), u, opening', Due')
    BY <1>1, <1>2, <2>2, <2>3, Zenon DEF Serves, Unused
  <2> QED BY <1>1, <1>2, <1>4, <2>1, <2>3, <2>4, HandlerOne, Zenon
<1> QED BY <1>3, <1>4, Zenon DEF Handler!CloseListener

LEMMA HandlerTurnRead ==
  ASSUME HandlerOK, NEW u \in DnsConns, NEW on \in BOOLEAN, Handler!TurnRead(u, on)
  PROVE  HandlerOK'
<1> DEFINE p == upstreamSide[u]
           l == listenerSide[u]
           m == [l EXCEPT !.reads = on]
<1>1. /\ p \in HandlerUpstream /\ l \in HandlerListener /\ Serves(p, l, u, opening, Due)
      /\ upstreamSide \in [DnsConns -> HandlerUpstream]
  BY Zenon DEF HandlerOK
<1>2. /\ upstreamSide' = [upstreamSide EXCEPT ![u] = p] /\ opening' = opening
      /\ listenerSide' = [listenerSide EXCEPT ![u] = m] /\ l.tunnel = "open"
      /\ toSend' = IF ~p.udp /\ ~l.reads /\ on /\ l.kept > 0 THEN toSend \cup {u} ELSE toSend
      /\ toClose' = toClose
  BY <1>1, Zenon DEF Handler!TurnRead
<1>3. m \in HandlerListener /\ m.tunnel = l.tunnel /\ m.reads = on /\ m.kept = l.kept
  BY <1>1, Zenon DEF HandlerListener
<1> HIDE DEF p, l, m
<1>4. Due \subseteq Due' /\ (~p.udp /\ ~l.reads /\ on /\ l.kept > 0 => u \in Due')
  BY <1>2, Zenon DEF Due
<1>5. l.tunnel # "none"
  BY <1>2, SMT
<1>6. Serves(p, m, u, opening', Due')
  BY <1>1, <1>2, <1>3, <1>4, <1>5, Zenon DEF Serves, Unused
<1> QED BY <1>1, <1>2, <1>3, <1>4, <1>6, HandlerOne, Zenon

LEMMA HandlerListenerTask ==
  ASSUME HandlerOK, Handler!ListenerTask
  PROVE  HandlerOK'
<1> DEFINE after(u) == IF u \in toClose THEN Handler!ListenerClosed(listenerSide[u]) ELSE listenerSide[u]
           results(u) == IF u \in toSend THEN Handler!RaiseRead(after(u)) ELSE {<<after(u), TRUE>>}
<1>1. PICK r \in [DnsConns -> UNION {results(u) : u \in DnsConns}] :
        /\ \A u \in DnsConns : r[u] \in results(u)
        /\ listenerSide' = [u \in DnsConns |-> Handler!ReadOrClosed(r[u])]
  BY Zenon DEF Handler!ListenerTask
<1>2. upstreamSide' = upstreamSide /\ opening' = opening /\ Due' = {}
  BY Zenon DEF Handler!ListenerTask, Due
<1>3. listenerSide' = [u \in DnsConns |-> listenerSide'[u]]
  BY <1>1, Zenon
<1>4. ASSUME NEW u \in DnsConns
      PROVE  /\ listenerSide'[u] \in HandlerListener
             /\ Serves(upstreamSide[u], listenerSide'[u], u, opening, {})
  <2>1. /\ listenerSide[u] \in HandlerListener /\ upstreamSide[u] \in HandlerUpstream
        /\ Serves(upstreamSide[u], listenerSide[u], u, opening, Due)
    BY Zenon DEF HandlerOK
  <2>2. /\ after(u) \in HandlerListener
        /\ after(u) = listenerSide[u] \/ after(u).tunnel \notin {"asked", "open"}
        /\ listenerSide[u].tunnel = "none" => after(u).tunnel = "none"
    <3>1. CASE u \in toClose
      <4>1. after(u) = Handler!ListenerClosed(listenerSide[u])
        BY <3>1, Zenon
      <4>2. /\ Handler!ListenerClosed(listenerSide[u]) \in HandlerListener
            /\ Handler!ListenerClosed(listenerSide[u]).tunnel \notin {"asked", "open"}
        BY <2>1, ListenerIsClosed, Zenon
      <4>3. listenerSide[u].tunnel = "none" => Handler!ListenerClosed(listenerSide[u]).tunnel = "none"
        BY <2>1, Zenon DEF Handler!ListenerClosed, HandlerListener
      <4> QED BY <4>1, <4>2, <4>3, Zenon
    <3>2. CASE u \notin toClose
      BY <2>1, <3>2, Zenon
    <3> QED BY <3>1, <3>2, Zenon
  <2>3. r[u] \in results(u) /\ listenerSide'[u] = Handler!ReadOrClosed(r[u])
    BY <1>1, Zenon
  <2>4. after(u).tunnel = "open" => u \notin toClose
    BY <2>1, ListenerIsClosed, Zenon
  <2>5. /\ r[u][1] \in HandlerListener /\ r[u][1].tunnel = after(u).tunnel /\ r[u][2] \in BOOLEAN
        /\ r[u][2] /\ r[u][1].tunnel = "open" /\ r[u][1].reads /\ r[u][1].kept > 0 => upstreamSide[u].udp
    <3>1. CASE u \in toSend
      <4>1. r[u] \in Handler!RaiseRead(after(u))
        BY <2>3, <3>1, Zenon
      <4> HIDE DEF after
      <4> QED BY <2>2, <4>1, ReadRaised, Zenon
    <3>2. CASE u \notin toSend
      <4>1. r[u] = <<after(u), TRUE>>
        BY <2>3, <3>2, Zenon
      <4> HIDE DEF after
      <4>2. after(u).tunnel = "open" => u \notin Due /\ after(u) = listenerSide[u]
        BY <2>2, <2>4, <3>2, Zenon DEF Due
      <4>3. r[u][1] = after(u) /\ r[u][2] = TRUE
        BY <4>1, SMT
      <4> QED BY <2>1, <2>2, <4>2, <4>3, Zenon DEF Serves
    <3> QED BY <3>1, <3>2, Zenon
  <2> HIDE DEF after, results
  <2> DEFINE m == Handler!ReadOrClosed(r[u])
  <2>6. /\ m \in HandlerListener /\ (m.tunnel = after(u).tunnel \/ m.tunnel \notin {"asked", "open"})
        /\ after(u).tunnel = "none" => m.tunnel = "none"
        /\ m.tunnel = "open" /\ m.reads /\ m.kept > 0 => upstreamSide[u].udp
    <3>1. CASE r[u][2]
      <4>1. m = r[u][1]
        BY <3>1, Zenon DEF Handler!ReadOrClosed
      <4> QED BY <2>5, <3>1, <4>1, Zenon
    <3>2. CASE ~r[u][2]
      <4>1. m = Handler!ListenerClosed(r[u][1])
        BY <3>2, Zenon DEF Handler!ReadOrClosed
      <4>2. r[u][1].tunnel = "none" => m.tunnel = "none"
        BY <2>5, <4>1, Zenon DEF Handler!ListenerClosed, HandlerListener
      <4> QED BY <2>5, <4>1, <4>2, ListenerIsClosed, Zenon
    <3> QED BY <3>1, <3>2
  <2> HIDE DEF m
  <2>7. Serves(upstreamSide[u], m, u, opening, {})
    BY <2>1, <2>2, <2>6, Zenon DEF Serves, Unused
  <2> QED BY <2>3, <2>6, <2>7, Zenon DEF m
<1>5. listenerSide' \in [DnsConns -> HandlerListener]
  BY <1>3, <1>4, Zenon
<1> QED BY <1>2, <1>4, <1>5, Zenon DEF HandlerOK

LEMMA HandlerOpens ==
  ASSUME HandlerOK, NEW u \in DnsConns, Handler!OpenConnection(u)
  PROVE  HandlerOK'
<1> DEFINE l == listenerSide[u]
<1>1. /\ upstreamSide[u] \in HandlerUpstream /\ l \in HandlerListener
      /\ Serves(upstreamSide[u], l, u, opening, Due) /\ listenerSide \in [DnsConns -> HandlerListener]
  BY Zenon DEF HandlerOK
<1>2. PICK udp \in BOOLEAN :
        upstreamSide' = [upstreamSide EXCEPT ![u] = [Handler!NoUpstream EXCEPT !.tunnel = "opening", !.known = TRUE,
                                                                              !.udp = udp]]
  BY Zenon DEF Handler!OpenConnection
<1>3. /\ upstreamSide[u].tunnel = "none" /\ listenerSide' = [listenerSide EXCEPT ![u] = l]
      /\ opening' = opening \cup {u} /\ Due' = Due
  BY <1>1, Zenon DEF Handler!OpenConnection, Due
<1> DEFINE p == [Handler!NoUpstream EXCEPT !.tunnel = "opening", !.known = TRUE, !.udp = udp]
<1>4. p \in HandlerUpstream /\ p.tunnel = "opening" /\ p.known = TRUE /\ p.proxied = 0
  <2>1. 0 \in Nat
    BY SMT
  <2> QED BY <2>1, Zenon DEF Handler!NoUpstream, HandlerUpstream
<1> HIDE DEF p, l
<1>5. l.tunnel = "none"
  BY <1>1, <1>3, Zenon DEF Serves, Unused
<1>6. Serves(p, l, u, opening', Due')
  BY <1>4, <1>5, SMT DEF Serves, Unused
<1>7. upstreamSide' = [upstreamSide EXCEPT ![u] = p]
  BY <1>2, Zenon DEF p
<1>8. \A v \in DnsConns : v # u => (v \in opening' => v \in opening) /\ (v \in Due => v \in Due')
  BY <1>3, Zenon
<1> QED BY <1>1, <1>3, <1>4, <1>6, <1>7, <1>8, HandlerOne, Zenon

\* A connection is closed on both sides.
LEMMA HandlerBothClosed ==
  ASSUME HandlerOK, NEW u \in DnsConns, u \notin opening, NEW p \in HandlerUpstream, NEW async \in BOOLEAN,
         upstreamSide' = [upstreamSide EXCEPT ![u] = Handler!Closed(p, async)],
         listenerSide' = [listenerSide EXCEPT ![u] = Handler!ListenerClosed(@)], opening' = opening, Due' = Due
  PROVE  HandlerOK'
<1> DEFINE to == IF async THEN "closing" ELSE "gone"
           q == [p EXCEPT !.known = FALSE, !.tunnel = to]
           l == Handler!ListenerClosed(listenerSide[u])
<1>1. to \in {"closing", "gone"} /\ to \in {"none", "opening", "open", "closing", "gone"}
  BY Zenon
<1>2. upstreamSide' = [upstreamSide EXCEPT ![u] = q] /\ listenerSide' = [listenerSide EXCEPT ![u] = l]
  BY Zenon DEF Handler!Closed
<1> HIDE DEF to
<1>3. q \in HandlerUpstream /\ q.tunnel = to
  BY <1>1, Zenon DEF HandlerUpstream
<1>4. l \in HandlerListener /\ l.tunnel \notin {"asked", "open"}
  <2>1. listenerSide[u] \in HandlerListener
    BY Zenon DEF HandlerOK
  <2> QED BY <2>1, ListenerIsClosed, Zenon
<1> HIDE DEF q, l
<1>5. Serves(q, l, u, opening', Due')
  BY <1>1, <1>3, <1>4, SMT DEF Serves
<1> QED BY <1>2, <1>3, <1>4, <1>5, HandlerOne, Zenon

LEMMA HandlerCloses ==
  ASSUME HandlerOK, NEW u \in DnsConns, Handler!CloseConnection(u)
  PROVE  HandlerOK'
<1> DEFINE l == listenerSide[u]
<1>1. /\ upstreamSide[u] \in HandlerUpstream /\ l \in HandlerListener
      /\ Serves(upstreamSide[u], l, u, opening, Due) /\ listenerSide \in [DnsConns -> HandlerListener]
      /\ Due' = Due
  BY Zenon DEF HandlerOK, Handler!CloseConnection, Due
<1>2. CASE u \in opening
  <2> DEFINE p == [upstreamSide[u] EXCEPT !.tunnel = "closing"]
  <2>1. /\ upstreamSide' = [upstreamSide EXCEPT ![u] = p] /\ listenerSide' = [listenerSide EXCEPT ![u] = l]
        /\ opening' = opening \ {u}
    BY <1>1, <1>2, Zenon DEF Handler!CloseConnection
  <2>2. p \in HandlerUpstream /\ p.tunnel = "closing" /\ p.known = upstreamSide[u].known
    BY <1>1, Zenon DEF HandlerUpstream
  <2> HIDE DEF p, l
  <2>3. u \notin opening' /\ l.tunnel = "none"
    BY <1>1, <1>2, <2>1, Zenon DEF Serves, Unused
  <2>4. Serves(p, l, u, opening', Due')
    BY <2>2, <2>3, SMT DEF Serves, Unused
  <2>5. \A v \in DnsConns : v # u => (v \in opening' => v \in opening) /\ (v \in Due => v \in Due')
    BY <1>1, <2>1, Zenon
  <2> QED BY <1>1, <2>1, <2>2, <2>4, <2>5, HandlerOne, Zenon
<1>3. CASE u \notin opening
  <2>1. PICK async \in BOOLEAN : upstreamSide' = [upstreamSide EXCEPT ![u] = Handler!Closed(@, async)]
    BY <1>3, Zenon DEF Handler!CloseConnection
  <2>2. /\ listenerSide' = [listenerSide EXCEPT ![u] = Handler!ListenerClosed(@)] /\ opening' = opening
        /\ upstreamSide' = [upstreamSide EXCEPT ![u] = Handler!Closed(upstreamSide[u], async)]
    BY <1>3, <2>1, Zenon DEF Handler!CloseConnection
  <2> QED BY <1>1, <1>3, <2>2, HandlerBothClosed, Zenon
<1> QED BY <1>2, <1>3, Zenon

LEMMA HandlerUpstreamTask ==
  ASSUME HandlerOK, Handler!UpstreamTask
  PROVE  HandlerOK'
<1>1. /\ upstreamSide' = [u \in DnsConns |->
            IF u \in closing THEN [upstreamSide[u] EXCEPT !.tunnel = "gone"]
            ELSE IF u \in opening THEN [upstreamSide[u] EXCEPT !.tunnel = "open"] ELSE upstreamSide[u]]
      /\ listenerSide' = listenerSide /\ opening' = {} /\ Due' = Due
  BY Zenon DEF Handler!UpstreamTask, Due
<1>2. ASSUME NEW u \in DnsConns
      PROVE  /\ upstreamSide'[u] \in HandlerUpstream
             /\ Serves(upstreamSide'[u], listenerSide[u], u, {}, Due)
  <2> DEFINE p == upstreamSide[u]
             l == listenerSide[u]
  <2>1. p \in HandlerUpstream /\ Serves(p, l, u, opening, Due)
    BY Zenon DEF HandlerOK
  <2>2. CASE u \in closing
    <3> DEFINE q == [p EXCEPT !.tunnel = "gone"]
    <3>1. upstreamSide'[u] = q
      BY <1>1, <2>2, Zenon
    <3>2. q \in HandlerUpstream /\ q.tunnel = "gone" /\ q.known = p.known /\ q.udp = p.udp
      BY <2>1, Zenon DEF HandlerUpstream
    <3> HIDE DEF p, l, q
    <3>3. q.tunnel # "open" /\ q.tunnel # "none"
      BY <3>2, SMT
    <3>4. Serves(q, l, u, {}, Due)
      BY <2>1, <3>2, <3>3, Zenon DEF Serves
    <3> QED BY <3>1, <3>2, <3>4, Zenon DEF l
  <2>3. CASE u \notin closing /\ u \in opening
    <3> DEFINE q == [p EXCEPT !.tunnel = "open"]
    <3>1. upstreamSide'[u] = q
      BY <1>1, <2>3, Zenon
    <3>2. q \in HandlerUpstream /\ q.tunnel = "open" /\ q.known = p.known /\ q.udp = p.udp
      BY <2>1, Zenon DEF HandlerUpstream
    <3> HIDE DEF p, l, q
    <3>3. q.tunnel # "none"
      BY <3>2, SMT
    <3>4. Serves(q, l, u, {}, Due)
      BY <2>1, <2>3, <3>2, <3>3, Zenon DEF Serves
    <3> QED BY <3>1, <3>2, <3>4, Zenon DEF l
  <2>4. CASE u \notin closing /\ u \notin opening
    <3>1. upstreamSide'[u] = p
      BY <1>1, <2>4, Zenon
    <3> HIDE DEF p, l
    <3>2. Serves(p, l, u, {}, Due)
      BY <2>1, Zenon DEF Serves
    <3> QED BY <2>1, <3>1, <3>2, Zenon DEF l
  <2> QED BY <2>2, <2>3, <2>4, Zenon
<1>3. upstreamSide' \in [DnsConns -> HandlerUpstream]
  <2>1. upstreamSide' = [u \in DnsConns |-> upstreamSide'[u]]
    BY <1>1, Zenon
  <2> QED BY <1>2, <2>1, Zenon
<1> QED BY <1>1, <1>2, <1>3, Zenon DEF HandlerOK

\* send_as_listener, of a connection the upstream knows
LEMMA SentAsListener ==
  ASSUME HandlerOK, NEW u \in DnsConns, Handler!SendAsListener(u)
  PROVE  /\ opening' = opening /\ Due \subseteq Due'
         /\ \E m \in HandlerListener : /\ listenerSide' = [listenerSide EXCEPT ![u] = m]
                                       /\ m.tunnel = "open" /\ m.reads /\ m.kept > 0 => upstreamSide[u].udp \/ u \in Due'
<1> DEFINE l == listenerSide[u]
           grown == [l EXCEPT !.kept = @ + 1]
           first == [Handler!NoListener EXCEPT !.tunnel = "asked", !.kept = 1]
<1>1. l \in HandlerListener
  BY Zenon DEF HandlerOK
<1>2. PICK r \in IF l.tunnel = "none" THEN {<<first, TRUE>>}
                 ELSE IF upstreamSide[u].udp THEN {<<IF l.reads \/ l.kept >= MaxQueued THEN l ELSE grown, TRUE>>}
                 ELSE Handler!RaiseRead(grown) :
        /\ listenerSide' = [listenerSide EXCEPT ![u] = r[1]]
        /\ toClose' = IF r[2] THEN toClose ELSE toClose \cup {u}
  BY Zenon DEF Handler!SendAsListener
<1>3. /\ opening' = opening /\ Due \subseteq Due' /\ (~r[2] => u \in Due')
  BY <1>2, Zenon DEF Handler!SendAsListener, Due
<1>4. first \in HandlerListener /\ first.tunnel # "open"
  <2>1. 1 \in Nat /\ "asked" # "open"
    BY SMT
  <2>2. first \in HandlerListener /\ first.tunnel = "asked"
    BY <2>1, Zenon DEF Handler!NoListener, HandlerListener
  <2> QED BY <2>1, <2>2, Zenon
<1>5. grown \in HandlerListener
  <2>1. l.kept + 1 \in Nat
    <3>1. l.kept \in Nat
      BY <1>1, Zenon DEF HandlerListener
    <3> QED BY <3>1, SMT
  <2> QED BY <1>1, <2>1, Zenon DEF HandlerListener
<1> HIDE DEF l, grown, first
<1>6. CASE r = <<first, TRUE>>
  BY <1>2, <1>3, <1>4, <1>6, Zenon
<1>7. CASE (r = <<l, TRUE>> \/ r = <<grown, TRUE>>) /\ upstreamSide[u].udp
  <2>1. CASE r = <<l, TRUE>>
    <3>1. r[1] = l
      BY <2>1, SMT
    <3> QED BY <1>1, <1>2, <1>3, <1>7, <3>1, Zenon
  <2>2. CASE r = <<grown, TRUE>>
    <3>1. r[1] = grown
      BY <2>2, SMT
    <3> QED BY <1>2, <1>3, <1>5, <1>7, <3>1, Zenon
  <2> QED BY <1>7, <2>1, <2>2, Zenon
<1>8. CASE r \in Handler!RaiseRead(grown)
  <2>1. r[1] \in HandlerListener /\ (r[2] => ~(r[1].tunnel = "open" /\ r[1].reads /\ r[1].kept > 0))
    BY <1>5, <1>8, ReadRaised, Zenon
  <2> QED BY <1>2, <1>3, <2>1, Zenon
<1> QED BY <1>2, <1>6, <1>7, <1>8, Zenon

LEMMA HandlerSends ==
  ASSUME HandlerOK, NEW u \in DnsConns, Handler!Send(u)
  PROVE  HandlerOK'
<1> DEFINE p == upstreamSide[u]
           l == listenerSide[u]
<1>1. /\ p \in HandlerUpstream /\ l \in HandlerListener /\ Serves(p, l, u, opening, Due)
      /\ listenerSide \in [DnsConns -> HandlerListener]
  BY Zenon DEF HandlerOK
<1>2. PICK way \in Handler!Ways :
        /\ upstreamSide' = [upstreamSide EXCEPT ![u].unanswered = @ + IF upstreamSide[u].udp THEN 1 ELSE 0,
                                                ![u].proxied = @ + IF way = "proxy" THEN 1 ELSE 0]
        /\ IF way = "listener" THEN Handler!SendAsListener(u)
           ELSE UNCHANGED <<opening, closing, listenerSide, toClose, toSend, stray>>
  BY Zenon DEF Handler!Send
<1> DEFINE more == p.unanswered + IF p.udp THEN 1 ELSE 0
           passed == p.proxied + IF way = "proxy" THEN 1 ELSE 0
           q == [p EXCEPT !.unanswered = more, !.proxied = passed]
<1>3. more \in Nat /\ passed \in Nat
  <2>1. p.unanswered \in Nat /\ p.proxied \in Nat
    BY <1>1, Zenon DEF HandlerUpstream
  <2> HIDE DEF p
  <2> QED BY <2>1, SMT
<1>4. p.tunnel = "open" /\ p.known
  BY Zenon DEF Handler!Send
<1>5. upstreamSide' = [upstreamSide EXCEPT ![u] = q]
  <2>1. upstreamSide \in [DnsConns -> HandlerUpstream]
    BY Zenon DEF HandlerOK
  <2> QED BY <1>2, <2>1, Zenon
<1> HIDE DEF more, passed
<1>6. q \in HandlerUpstream /\ q.tunnel = p.tunnel /\ q.known = p.known /\ q.udp = p.udp
  BY <1>1, <1>3, Zenon DEF HandlerUpstream
<1>7. opening' = opening /\ Due \subseteq Due'
  BY <1>2, SentAsListener, Zenon DEF Due
<1>8. \E m \in HandlerListener : /\ listenerSide' = [listenerSide EXCEPT ![u] = m]
                                 /\ m.tunnel = "open" /\ m.reads /\ m.kept > 0 => p.udp \/ u \in Due'
  <2>1. CASE way = "listener"
    <3>1. Handler!SendAsListener(u)
      BY <1>2, <2>1, Zenon
    <3> QED BY <3>1, SentAsListener, Zenon
  <2>2. CASE way # "listener"
    <3>1. listenerSide' = [listenerSide EXCEPT ![u] = l]
      BY <1>1, <1>2, <2>2, Zenon
    <3> HIDE DEF p, l
    <3> QED BY <1>1, <1>7, <3>1, Zenon DEF Serves
  <2> QED BY <2>1, <2>2, Zenon
<1> HIDE DEF p, l, q
<1>9. PICK m \in HandlerListener : /\ listenerSide' = [listenerSide EXCEPT ![u] = m]
                                   /\ m.tunnel = "open" /\ m.reads /\ m.kept > 0 => p.udp \/ u \in Due'
  BY <1>8, Zenon
<1>10. q.tunnel # "none" /\ p.tunnel # "opening"
  BY <1>4, <1>6, SMT
<1>11. u \notin opening'
  BY <1>1, <1>7, <1>10, Zenon DEF Serves
<1>12. Serves(q, m, u, opening', Due')
  BY <1>4, <1>6, <1>7, <1>9, <1>10, <1>11, Zenon DEF Serves
<1> QED BY <1>5, <1>6, <1>7, <1>9, <1>12, HandlerOne, Zenon

\* send_response, of a connection that has left or may leave a request
LEMMA HandlerResponds ==
  ASSUME HandlerOK, NEW u \in DnsConns, upstreamSide[u].tunnel # "none", u \notin opening, NEW n \in Nat, NEW p,
         p = [upstreamSide[u] EXCEPT !.proxied = n], Handler!SendResponse(u, p), opening' = opening, Due' = Due
  PROVE  HandlerOK'
<1> DEFINE l == listenerSide[u]
<1>1. /\ upstreamSide[u] \in HandlerUpstream /\ l \in HandlerListener
      /\ Serves(upstreamSide[u], l, u, opening, Due) /\ listenerSide \in [DnsConns -> HandlerListener]
  BY Zenon DEF HandlerOK
<1>2. /\ p \in HandlerUpstream /\ p.tunnel = upstreamSide[u].tunnel /\ p.known = upstreamSide[u].known
      /\ p.udp = upstreamSide[u].udp
  BY <1>1, Zenon DEF HandlerUpstream
<1>3. ASSUME NEW q \in HandlerUpstream, q.tunnel = p.tunnel, q.known = p.known, q.udp = p.udp,
             upstreamSide' = [upstreamSide EXCEPT ![u] = q], listenerSide' = listenerSide
      PROVE  HandlerOK'
  <2>1. listenerSide' = [listenerSide EXCEPT ![u] = l]
    BY <1>1, <1>3, Zenon
  <2> HIDE DEF l
  <2>2. Serves(q, l, u, opening', Due')
    BY <1>1, <1>2, <1>3, Zenon DEF Serves
  <2> QED BY <1>1, <1>3, <2>1, <2>2, HandlerOne, Zenon
<1>4. CASE upstreamSide' = [upstreamSide EXCEPT ![u] = p] /\ listenerSide' = listenerSide
  BY <1>2, <1>3, <1>4, Zenon
<1>5. CASE /\ p.unanswered > 1 /\ upstreamSide' = [upstreamSide EXCEPT ![u] = [p EXCEPT !.unanswered = @ - 1]]
           /\ listenerSide' = listenerSide
  <2>1. p.unanswered - 1 \in Nat
    <3>1. p.unanswered \in Nat
      BY <1>2, Zenon DEF HandlerUpstream
    <3> QED BY <1>5, <3>1, SMT
  <2> DEFINE q == [p EXCEPT !.unanswered = @ - 1]
  <2>2. q \in HandlerUpstream /\ q.tunnel = p.tunnel /\ q.known = p.known /\ q.udp = p.udp
    BY <1>2, <2>1, Zenon DEF HandlerUpstream
  <2>3. upstreamSide' = [upstreamSide EXCEPT ![u] = q]
    BY <1>5, Zenon
  <2> HIDE DEF q
  <2> QED BY <1>3, <1>5, <2>2, <2>3, Zenon
<1>6. CASE /\ upstreamSide' = [upstreamSide EXCEPT ![u] = Handler!Closed(p, FALSE)]
           /\ listenerSide' = [listenerSide EXCEPT ![u] = Handler!ListenerClosed(@)]
  <2>1. FALSE \in BOOLEAN
    BY Zenon
  <2> QED BY <1>2, <1>6, <2>1, HandlerBothClosed, Zenon
<1> QED BY <1>4, <1>5, <1>6, Zenon DEF Handler!SendResponse

LEMMA HandlerResponses ==
  ASSUME HandlerOK, NEW u \in DnsConns, Handler!ProxyResponds(u) \/ Handler!ServerResponds(u)
  PROVE  HandlerOK'
<1>1. /\ upstreamSide[u] \in HandlerUpstream /\ listenerSide[u] \in HandlerListener
      /\ Serves(upstreamSide[u], listenerSide[u], u, opening, Due)
  BY Zenon DEF HandlerOK
<1>2. opening' = opening /\ Due' = Due
  BY Zenon DEF Handler!ProxyResponds, Handler!ServerResponds, Due
<1>3. upstreamSide[u].proxied \in Nat
  BY <1>1, Zenon DEF HandlerUpstream
<1>4. CASE Handler!ProxyResponds(u)
  <2>1. upstreamSide[u].proxied # 0 /\ upstreamSide[u].proxied - 1 \in Nat
    <3>1. upstreamSide[u].proxied > 0
      BY <1>4, Zenon DEF Handler!ProxyResponds
    <3> QED BY <1>3, <3>1, SMT
  <2>2. upstreamSide[u].tunnel # "none" /\ u \notin opening
    BY <1>1, <2>1, Zenon DEF Serves, Unused
  <2> DEFINE n == upstreamSide[u].proxied - 1
             p == [upstreamSide[u] EXCEPT !.proxied = n]
  <2>3. Handler!SendResponse(u, p)
    BY <1>4, Zenon DEF Handler!ProxyResponds
  <2>4. p = [upstreamSide[u] EXCEPT !.proxied = n] /\ n \in Nat
    BY <2>1, Zenon
  <2> HIDE DEF n, p
  <2> QED BY <1>2, <2>2, <2>3, <2>4, HandlerResponds, Zenon
<1>5. CASE Handler!ServerResponds(u)
  <2>1. listenerSide[u].tunnel # "none"
    BY <1>5, SMT DEF Handler!ServerResponds
  <2>2. upstreamSide[u].tunnel # "none" /\ u \notin opening
    BY <1>1, <2>1, Zenon DEF Serves, Unused
  <2>3. upstreamSide[u] = [upstreamSide[u] EXCEPT !.proxied = upstreamSide[u].proxied]
    BY <1>1, Zenon DEF HandlerUpstream
  <2>4. Handler!SendResponse(u, upstreamSide[u])
    BY <1>5, Zenon DEF Handler!ServerResponds
  <2> QED BY <1>2, <1>3, <2>2, <2>3, <2>4, HandlerResponds, Zenon
<1> QED BY <1>4, <1>5, Zenon

LEMMA HandlerStep ==
  ASSUME HandlerOK, [Handler!Next]_(Handler!handlerVars)
  PROVE  HandlerOK'
<1>1. CASE UNCHANGED Handler!handlerVars
  <2>1. upstreamSide' = upstreamSide /\ listenerSide' = listenerSide /\ opening' = opening /\ Due' = Due
    BY <1>1, Zenon DEF Handler!handlerVars, Due
  <2> QED BY <2>1, Zenon DEF HandlerOK
<1>2. ASSUME NEW u \in DnsConns,
             \/ Handler!OpenConnection(u) \/ Handler!CloseConnection(u) \/ Handler!Send(u)
             \/ Handler!ProxyResponds(u) \/ Handler!ServerResponds(u)
      PROVE  HandlerOK'
  BY <1>2, HandlerOpens, HandlerCloses, HandlerSends, HandlerResponses, Zenon
<1>3. ASSUME NEW u \in DnsConns, NEW b \in BOOLEAN,
             Handler!CompleteConnectRequest(u, b) \/ Handler!CloseListener(u, b) \/ Handler!TurnRead(u, b)
      PROVE  HandlerOK'
  BY <1>3, HandlerCompletes, HandlerCloseListener, HandlerTurnRead, Zenon
<1> QED BY <1>1, <1>2, <1>3, HandlerUpstreamTask, HandlerListenerTask, Zenon DEF Handler!Next

LEMMA HandlerImplies == HandlerOK => DnsConnectionsServed
BY Zenon DEF HandlerOK, Serves, Due, DnsConnectionsServed, Handler!DnsConnectionsServed

\* The two faces of DnsHandler stay in step and what was kept while the tunnel took no data is sent once it does, or
\* the connection is about to be closed, for any connections and bounds and any order of opens, closes, responses and deferred tasks (dns_handler.cpp).
THEOREM DnsConnectionsAreServed == Handler!Spec => []DnsConnectionsServed
<1>1. HandlerOK /\ [Handler!Next]_(Handler!handlerVars) => HandlerOK'
  BY HandlerStep
<1> QED BY <1>1, HandlerImplies, HandlerInit, PTL DEF Handler!Spec

-----------------------------------------------------------------------------
(* Together.                                                               *)

LEMMA NetParts ==
  NetSpec => Socks!Spec /\ Sock!Spec /\ Ping!Spec /\ Resolver!Spec /\ Proxy!Spec /\ Handler!Spec
<1> DEFINE all == <<part, netVars, dnsVars>>
<1>1. NetInit => Socks!Init /\ Sock!Init /\ Ping!Init /\ Resolver!Init /\ Proxy!Init /\ Handler!Init
  BY Zenon DEF NetInit
<1>2. [NetNext]_all => [Socks!Next]_(Socks!socksVars)
  BY Zenon DEF NetNext, netVars, socksVars, Socks!socksVars
<1>3. [NetNext]_all => [Sock!Next]_(Sock!sockVars)
  BY Zenon DEF NetNext, netVars, sockVars, Sock!sockVars
<1>4. [NetNext]_all => [Ping!Next]_(Ping!pingVars)
  BY Zenon DEF NetNext, netVars, pingVars, Ping!pingVars
<1>5. [NetNext]_all => [Resolver!Next]_(Resolver!resolverVars)
  BY Zenon DEF NetNext, dnsVars, resolverVars, Resolver!resolverVars
<1>6. [NetNext]_all => [Proxy!Next]_(Proxy!dnsVars)
  BY Zenon DEF NetNext, dnsVars, proxyVars, Proxy!dnsVars
<1>7. [NetNext]_all => [Handler!Next]_(Handler!handlerVars)
  BY Zenon DEF NetNext, dnsVars, handlerVars, Handler!handlerVars
<1> QED BY <1>1, <1>2, <1>3, <1>4, <1>5, <1>6, <1>7, PTL
        DEF NetSpec, Socks!Spec, Sock!Spec, Ping!Spec, Resolver!Spec, Proxy!Spec, Handler!Spec

\* Every property of the run holds of the specification of all the parts.
THEOREM NetServes ==
  NetSpec => [](/\ SocksServed /\ SocketsServed /\ PingSettles /\ ResolutionsDriven /\ DnsProxyServed
                /\ DnsConnectionsServed)
BY NetParts, SocksIsServed, SocketsAreServed, PingGoesToItsEnd, ResolverDrivesResolutions, DnsProxyIsServed,
   DnsConnectionsAreServed, PTL

=============================================================================
