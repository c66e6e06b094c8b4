---------------------------- MODULE UpstreamProofs ----------------------------
(***************************************************************************)
(* The connectors that open the session with the endpoint, the buffers of  *)
(* an upstream, the HTTP/2 and the HTTP/3 upstream, the multiplexers of    *)
(* connections and of UDP packets and the routing rules, for every value   *)
(* of their constants: for each the inductive invariant, what its steps do *)
(* to it, and the property that the runs check.                            *)
(***************************************************************************)
EXTENDS Upstreams, Integers, Sequences, SequenceTheorems, NaturalsInduction, WellFoundedInduction, TLAPS

-----------------------------------------------------------------------------
(* The connectors.                                                         *)

Connector ==
    [fsm : {"DISCONNECTED", "CONNECTING", "DISCONNECTING", "gone"},
     sess : {"closed", "opening", "open"}, deferred : BOOLEAN,
     result : {NON, "ok", "err"}, has : BOOLEAN]

\* What a connector's fields say of one another: a session that is opening has no result yet, a result
\* says what became of the session, and a connector that was destroyed has nothing on its way.
Sound(k) ==
    /\ k.has <=> k.fsm = "gone"
    /\ k.fsm = "CONNECTING" => k.sess = "opening" /\ k.result = NON
    /\ k.fsm = "DISCONNECTING" => k.deferred /\ k.sess # "open" /\ k.result = NON
    /\ k.result # NON => k.fsm = "DISCONNECTED"
    /\ k.result = "ok" => k.sess = "open"
    /\ k.result = "err" => k.sess = "closed"

\* It will report, or has reported.
Reports(k) == k.fsm = "CONNECTING" \/ k.fsm = "DISCONNECTING" \/ k.result # NON \/ k.has

\* Nothing of it is left to run but a deferred task that does nothing.
Over(k) == (k.fsm = "DISCONNECTED" \/ k.fsm = "gone") /\ k.result = NON

\* While the connector runs, either the fallback is still to be tried and its delay is on, or it was
\* tried and one of the two has not failed yet.
ConnectorsOK ==
    /\ one \in [Conn!Sides -> Connector] /\ tried \in BOOLEAN /\ delay \in BOOLEAN
    /\ outcome \in {"idle", "running", "ok", "err", "disconnected"}
    /\ \A i \in Conn!Sides : Sound(one[i])
    /\ outcome = "idle" => ~tried /\ ~delay /\ \A i \in Conn!Sides : one[i] = Conn!NewConnector
    /\ outcome = "running" =>
         /\ Reports(one["main"])
         /\ ~tried => delay /\ one["fallback"] = Conn!NewConnector
         /\ tried => ~delay /\ Reports(one["fallback"]) /\ ~(one["main"].has /\ one["fallback"].has)
    /\ outcome \notin {"idle", "running"} => ~delay /\ \A i \in Conn!Sides : Over(one[i])
    /\ outcome = "ok" =>
         \E i \in Conn!Sides : one[i].sess = "open" /\ one[Conn!Other(i)].sess = "closed"

LEMMA OtherSide ==
  /\ Conn!Sides = {"main", "fallback"}
  /\ Conn!Other("main") = "fallback" /\ Conn!Other("fallback") = "main"
<1>1. Conn!Sides = {"main", "fallback"}
  BY Zenon DEF Conn!Sides
<1>2. Conn!Other("main") \in Conn!Sides /\ Conn!Other("main") # "main"
  BY <1>1, SMT DEF Conn!Other
<1>3. Conn!Other("fallback") \in Conn!Sides /\ Conn!Other("fallback") # "fallback"
  BY <1>1, SMT DEF Conn!Other
<1> QED BY <1>1, <1>2, <1>3, SMT

LEMMA NewConnectorSound ==
  /\ Conn!NewConnector \in Connector /\ Sound(Conn!NewConnector) /\ Over(Conn!NewConnector)
  /\ Conn!NewConnector.has = FALSE /\ Conn!NewConnector.sess = "closed"
  /\ Conn!Destroyed \in Connector /\ Sound(Conn!Destroyed) /\ Over(Conn!Destroyed)
  /\ Conn!Destroyed.has = TRUE /\ Conn!Destroyed.sess = "closed"
<1>1. NON # "ok" /\ NON # "err"
  BY UpstreamsAssumption, Zenon
<1> DEFINE n == Conn!NewConnector
           d == Conn!Destroyed
<1>2. /\ n.fsm = "DISCONNECTED" /\ n.sess = "closed" /\ n.deferred = FALSE
      /\ n.result = NON /\ n.has = FALSE
  BY SMT DEF Conn!NewConnector
<1>3. n \in Connector
  BY SMT DEF Conn!NewConnector, Connector
<1>6. /\ d.fsm = "gone" /\ d.sess = "closed" /\ d.deferred = FALSE
      /\ d.result = NON /\ d.has = TRUE
  BY SMT DEF Conn!Destroyed, Conn!NewConnector
<1>7. d \in Connector
  <2>1. "gone" \in {"DISCONNECTED", "CONNECTING", "DISCONNECTING", "gone"} /\ TRUE \in BOOLEAN
    OBVIOUS
  <2> QED BY <1>3, <2>1, Zenon DEF Conn!Destroyed, Connector
<1>4. /\ d.fsm = "gone" /\ d.sess = "closed" /\ d.deferred = FALSE
      /\ d.result = NON /\ d.has = TRUE /\ d \in Connector
  BY <1>6, <1>7, Zenon
<1>5. Sound(n) /\ Over(n) /\ Sound(d) /\ Over(d)
  BY <1>1, <1>2, <1>4, SMT DEF Sound, Over
<1> QED BY <1>2, <1>3, <1>4, <1>5, Zenon

\* What one connector does to itself keeps its fields consistent: disconnect, a result, an error
\* whose disconnect is deferred, and the end of the connector.
LEMMA DisconnectedSound ==
  ASSUME NEW k \in Connector, Sound(k)
  PROVE  /\ Conn!Disconnected(k) \in Connector /\ Sound(Conn!Disconnected(k))
         /\ Conn!Disconnected(k).fsm \in {"DISCONNECTED", "gone"}
         /\ Conn!Disconnected(k).has = k.has /\ Conn!Disconnected(k).result = k.result
<1>1. CASE k.fsm \in {"CONNECTING", "DISCONNECTING"}
  <2> DEFINE d == [k EXCEPT !.fsm = "DISCONNECTED", !.sess = "closed", !.deferred = FALSE]
  <2>1. Conn!Disconnected(k) = d
    BY <1>1, Zenon DEF Conn!Disconnected
  <2>2. d \in Connector
    <3>1. "DISCONNECTED" \in {"DISCONNECTED", "CONNECTING", "DISCONNECTING", "gone"}
          /\ "closed" \in {"closed", "opening", "open"} /\ FALSE \in BOOLEAN
      OBVIOUS
    <3> QED BY <3>1, Zenon DEF Connector
  <2>3. /\ d.fsm = "DISCONNECTED" /\ d.sess = "closed" /\ d.deferred = FALSE
        /\ d.has = k.has /\ d.result = k.result
    BY SMT DEF Connector
  <2>4. k.result = NON /\ k.has \in BOOLEAN /\ ~k.has
    BY <1>1, SMT DEF Sound, Connector
  <2> HIDE DEF d
  <2>6. NON # "ok" /\ NON # "err"
    BY UpstreamsAssumption, Zenon
  <2>5. Sound(d)
    BY <2>3, <2>4, <2>6, SMT DEF Sound
  <2> QED BY <2>1, <2>2, <2>3, <2>5, Zenon
<1>2. CASE k.fsm \notin {"CONNECTING", "DISCONNECTING"}
  <2>1. Conn!Disconnected(k) = k
    BY <1>2, Zenon DEF Conn!Disconnected
  <2>2. k.fsm \in {"DISCONNECTED", "gone"}
    BY <1>2, SMT DEF Connector
  <2> QED BY <2>1, <2>2, Zenon
<1> QED BY <1>1, <1>2, Zenon

LEMMA RaiseSound ==
  ASSUME NEW k \in Connector, k.has = FALSE, NEW s \in {"closed", "opening", "open"}, k.sess = s,
         NEW res \in {"ok", "err"}, res = "ok" => s = "open", res = "err" => s = "closed"
  PROVE  /\ Conn!Raise(k, res) \in Connector /\ Sound(Conn!Raise(k, res))
         /\ Conn!Raise(k, res).result = res /\ Conn!Raise(k, res).has = FALSE
<1> DEFINE d == Conn!Raise(k, res)
<1>1. d \in Connector
  <2>1. "DISCONNECTED" \in {"DISCONNECTED", "CONNECTING", "DISCONNECTING", "gone"}
        /\ res \in {NON, "ok", "err"}
    BY Zenon
  <2> QED BY <2>1, Zenon DEF Connector, Conn!Raise
<1>2. /\ d.fsm = "DISCONNECTED" /\ d.sess = s /\ d.result = res /\ d.has = FALSE
  BY SMT DEF Connector, Conn!Raise
<1> HIDE DEF d
<1>3. Sound(d)
  BY <1>2, SMT DEF Sound
<1> QED BY <1>1, <1>2, <1>3, Zenon DEF d

LEMMA DestroyedWithSession ==
  ASSUME NEW s \in {"closed", "opening", "open"}
  PROVE  LET d == [Conn!Destroyed EXCEPT !.sess = s]
         IN  d \in Connector /\ Sound(d) /\ Over(d) /\ d.has = TRUE /\ d.sess = s
<1> DEFINE d == [Conn!Destroyed EXCEPT !.sess = s]
<1>1. d \in Connector
  BY NewConnectorSound, Zenon DEF Connector
<1>2. /\ d.fsm = "gone" /\ d.sess = s /\ d.result = NON /\ d.has = TRUE
  BY SMT DEF Conn!Destroyed, Conn!NewConnector
<1>3. NON # "ok" /\ NON # "err"
  BY UpstreamsAssumption, Zenon
<1> HIDE DEF d
<1>4. Sound(d) /\ Over(d)
  BY <1>2, <1>3, SMT DEF Sound, Over
<1> QED BY <1>1, <1>2, <1>4, Zenon DEF d

\* What disconnect leaves of a connector: nothing that could still report.
LEMMA ClearedOver ==
  ASSUME NEW k \in Connector, Sound(k), k.fsm \in {"DISCONNECTED", "gone"}
  PROVE  LET d == [k EXCEPT !.result = NON, !.sess = "closed"]
         IN  d \in Connector /\ Sound(d) /\ Over(d)
<1> DEFINE d == [k EXCEPT !.result = NON, !.sess = "closed"]
<1>1. d \in Connector
  <2>1. NON \in {NON, "ok", "err"} /\ "closed" \in {"closed", "opening", "open"}
    OBVIOUS
  <2> QED BY <2>1, Zenon DEF Connector
<1>2. /\ d.fsm = k.fsm /\ d.sess = "closed" /\ d.result = NON /\ d.has = k.has
  BY SMT DEF Connector
<1>3. NON # "ok" /\ NON # "err"
  BY UpstreamsAssumption, Zenon
<1> HIDE DEF d
<1>4. Sound(d) /\ Over(d)
  BY <1>2, <1>3, SMT DEF Sound, Over
<1> QED BY <1>1, <1>4, Zenon DEF d

\* The connectors as functions of their side.
LEMMA OneSide ==
  ASSUME NEW all \in [Conn!Sides -> Connector], NEW i \in Conn!Sides, NEW k \in Connector
  PROVE  /\ Conn!Other(i) \in Conn!Sides /\ Conn!Other(i) # i
         /\ \A j \in Conn!Sides : j = i \/ j = Conn!Other(i)
         /\ [all EXCEPT ![i] = k] \in [Conn!Sides -> Connector]
         /\ [all EXCEPT ![i] = k][i] = k
         /\ [all EXCEPT ![i] = k][Conn!Other(i)] = all[Conn!Other(i)]
<1>1. Conn!Other(i) \in Conn!Sides /\ Conn!Other(i) # i /\ \A j \in Conn!Sides : j = i \/ j = Conn!Other(i)
  BY OtherSide, SMT
<1> QED BY <1>1, Zenon

\* handle_connect_result: it ends both attempts, or leaves the other one as it was.
LEMMA HandleEffect ==
  ASSUME one \in [Conn!Sides -> Connector], NEW i \in Conn!Sides, NEW res \in {"ok", "err"},
         Conn!HandleConnectResult(i, res, one)
  PROVE  /\ one' \in [Conn!Sides -> Connector]
         /\ one'[i] = [Conn!Destroyed EXCEPT !.sess = one[i].sess]
         /\ res = "ok" \/ one[Conn!Other(i)].has =>
              outcome' = res /\ delay' = FALSE /\ one'[Conn!Other(i)] = Conn!Destroyed
         /\ ~(res = "ok" \/ one[Conn!Other(i)].has) =>
              outcome' = "running" /\ delay' = ~tried' /\ one'[Conn!Other(i)] = one[Conn!Other(i)]
<1> DEFINE o == Conn!Other(i)
           d == [Conn!Destroyed EXCEPT !.sess = one[i].sess]
           cs == [one EXCEPT ![i] = d, ![o] = IF res = "ok" THEN Conn!Disconnected(@) ELSE @]
<1>1. o \in Conn!Sides /\ o # i /\ (\A j \in Conn!Sides : j = i \/ j = o)
  BY OneSide, NewConnectorSound, Zenon
<1>2. one[i] \in Connector /\ one[i].sess \in {"closed", "opening", "open"} /\ one[o] \in Connector
  BY <1>1, SMT DEF Connector
<1>3. d \in Connector
  BY <1>2, DestroyedWithSession, Zenon
<1>4. cs[i] = d /\ (res # "ok" => cs[o] = one[o] /\ cs \in [Conn!Sides -> Connector])
  <2> HIDE DEF d
  <2>1. cs[i] = d
    BY <1>1, SMT
  <2>2. ASSUME res # "ok" PROVE cs[o] = one[o] /\ cs \in [Conn!Sides -> Connector]
    <3>1. cs = [[one EXCEPT ![i] = d] EXCEPT ![o] = one[o]]
      BY <1>1, <2>2, SMT
    <3> QED BY <1>1, <1>2, <1>3, <3>1, SMT
  <2> QED BY <2>1, <2>2, Zenon
<1>5. /\ res = "ok" \/ cs[o].has =>
           /\ outcome' = res /\ delay' = FALSE
           /\ one' = [j \in Conn!Sides |-> IF j = i THEN cs[j] ELSE Conn!Destroyed]
      /\ ~(res = "ok" \/ cs[o].has) => one' = cs /\ outcome' = "running" /\ delay' = ~tried'
  BY Zenon DEF Conn!HandleConnectResult
<1> HIDE DEF cs, d
<1>6. ASSUME res = "ok" \/ one[o].has
      PROVE  /\ outcome' = res /\ delay' = FALSE
             /\ one' = [j \in Conn!Sides |-> IF j = i THEN d ELSE Conn!Destroyed]
  <2>1. res = "ok" \/ cs[o].has
    BY <1>4, <1>6, Zenon
  <2>2. one' = [j \in Conn!Sides |-> IF j = i THEN cs[j] ELSE Conn!Destroyed]
    BY <1>5, <2>1, Zenon
  <2> QED BY <1>4, <1>5, <2>1, <2>2, Zenon
<1>7. ASSUME res = "ok" \/ one[o].has
      PROVE  one' \in [Conn!Sides -> Connector] /\ one'[i] = d /\ one'[o] = Conn!Destroyed
  <2>1. one' = [j \in Conn!Sides |-> IF j = i THEN d ELSE Conn!Destroyed]
    BY <1>6, <1>7, Zenon
  <2> QED BY <1>1, <1>3, <2>1, NewConnectorSound, Zenon
<1>8. ASSUME ~(res = "ok" \/ one[o].has)
      PROVE  /\ outcome' = "running" /\ delay' = ~tried' /\ one' \in [Conn!Sides -> Connector]
             /\ one'[i] = d /\ one'[o] = one[o]
  <2>1. res # "ok" /\ cs[o] = one[o] /\ ~(res = "ok" \/ cs[o].has)
    BY <1>4, <1>8, Zenon
  <2> QED BY <1>4, <1>5, <2>1, Zenon
<1> QED BY <1>6, <1>7, <1>8, Zenon DEF d

\* The invariant as a relation of the two connectors and the rest, for steps that change one side.
Settling(m, f, t, d, out) ==
    /\ Sound(m) /\ Sound(f)
    /\ out = "idle" => ~t /\ ~d /\ m = Conn!NewConnector /\ f = Conn!NewConnector
    /\ out = "running" =>
         /\ Reports(m)
         /\ ~t => d /\ f = Conn!NewConnector
         /\ t => ~d /\ Reports(f) /\ ~(m.has /\ f.has)
    /\ out \notin {"idle", "running"} => ~d /\ Over(m) /\ Over(f)
    /\ out = "ok" => \/ m.sess = "open" /\ f.sess = "closed"
                     \/ f.sess = "open" /\ m.sess = "closed"

ConnectorsTyped ==
    /\ one \in [Conn!Sides -> Connector] /\ tried \in BOOLEAN /\ delay \in BOOLEAN
    /\ outcome \in {"idle", "running", "ok", "err", "disconnected"}

LEMMA ConnectorsBySide ==
  ConnectorsOK <=> ConnectorsTyped /\ Settling(one["main"], one["fallback"], tried, delay, outcome)
BY OtherSide, Zenon DEF ConnectorsOK, ConnectorsTyped, Settling

LEMMA ConnectorsBySideNext ==
  ASSUME ConnectorsTyped', Settling(one'["main"], one'["fallback"], tried', delay', outcome')
  PROVE  ConnectorsOK'
BY OtherSide, Zenon DEF ConnectorsOK, ConnectorsTyped, Settling

LEMMA ConnectorsInit == Conn!Init => ConnectorsOK
<1> SUFFICES ASSUME Conn!Init PROVE ConnectorsOK
  OBVIOUS
<1>1. /\ one = [i \in Conn!Sides |-> Conn!NewConnector] /\ tried = FALSE /\ delay = FALSE
      /\ outcome = "idle"
  BY Zenon DEF Conn!Init
<1>2. ConnectorsTyped
  BY <1>1, NewConnectorSound, Zenon DEF ConnectorsTyped
<1>3. one["main"] = Conn!NewConnector /\ one["fallback"] = Conn!NewConnector
  BY <1>1, OtherSide, Zenon
<1>4. Settling(one["main"], one["fallback"], tried, delay, outcome)
  <2>1. "idle" # "running" /\ "idle" # "ok"
    BY SMT
  <2> QED BY <1>1, <1>3, <2>1, NewConnectorSound, Zenon DEF Settling
<1> QED BY <1>2, <1>4, ConnectorsBySide, Zenon

\* A step of one side that leaves the other, and leaves it reporting if it reported, with no more
\* than it had before.
LEMMA OneSideSettles ==
  ASSUME ConnectorsOK, NEW i \in Conn!Sides, NEW k \in Connector, Sound(k),
         one' = [one EXCEPT ![i] = k], UNCHANGED <<tried, delay, outcome>>,
         one[i] # Conn!NewConnector, Reports(one[i]) => Reports(k), Over(one[i]) => Over(k),
         k.has = one[i].has, Over(one[i]) => k.sess = one[i].sess
  PROVE  ConnectorsOK'
<1> DEFINE o == Conn!Other(i)
<1>1. ConnectorsTyped /\ Settling(one["main"], one["fallback"], tried, delay, outcome)
  BY ConnectorsBySide, Zenon
<1>2. ConnectorsTyped'
  BY <1>1, OneSide, Zenon DEF ConnectorsTyped
<1>3. one'[i] = k /\ o \in Conn!Sides /\ o # i /\ one'[o] = one[o]
  BY <1>1, OneSide, Zenon DEF ConnectorsTyped
<1>4. CASE i = "main"
  <2>1. one'["main"] = k /\ one'["fallback"] = one["fallback"]
    BY <1>3, <1>4, OtherSide, Zenon
  <2>2. Settling(k, one["fallback"], tried, delay, outcome)
    BY <1>1, <1>4, Zenon DEF Settling
  <2> QED BY <1>2, <2>1, <2>2, ConnectorsBySideNext, Zenon
<1>5. CASE i = "fallback"
  <2>1. one'["fallback"] = k /\ one'["main"] = one["main"]
    BY <1>3, <1>5, OtherSide, Zenon
  <2>2. Settling(one["main"], k, tried, delay, outcome)
    BY <1>1, <1>5, Zenon DEF Settling
  <2> QED BY <1>2, <2>1, <2>2, ConnectorsBySideNext, Zenon
<1> QED BY <1>4, <1>5, OtherSide, Zenon

\* handle_connect_result keeps the invariant wherever the code calls it: for a side that reported,
\* when the other one is still to report, to be tried, or has failed.
LEMMA HandleSettles ==
  ASSUME ConnectorsTyped, tried' \in BOOLEAN, NEW i \in Conn!Sides, NEW res \in {"ok", "err"},
         Conn!HandleConnectResult(i, res, one), Sound(one[Conn!Other(i)]),
         res = "ok" => one[i].sess = "open",
         i = "main" => IF tried' THEN Reports(one["fallback"]) ELSE one["fallback"] = Conn!NewConnector,
         i = "fallback" => tried' /\ Reports(one["main"])
  PROVE  ConnectorsOK'
<1> DEFINE o == Conn!Other(i)
           d == [Conn!Destroyed EXCEPT !.sess = one[i].sess]
<1>1. one \in [Conn!Sides -> Connector]
  BY Zenon DEF ConnectorsTyped
<1>2. /\ one' \in [Conn!Sides -> Connector] /\ one'[i] = d
      /\ res = "ok" \/ one[o].has => outcome' = res /\ delay' = FALSE /\ one'[o] = Conn!Destroyed
      /\ ~(res = "ok" \/ one[o].has) => outcome' = "running" /\ delay' = ~tried' /\ one'[o] = one[o]
  BY <1>1, HandleEffect, Zenon
<1>3. o \in Conn!Sides /\ o # i
  BY <1>1, OneSide, NewConnectorSound, Zenon
<1>4. one[i].sess \in {"closed", "opening", "open"}
  BY <1>1, SMT DEF Connector
<1>5. d \in Connector /\ Sound(d) /\ Over(d) /\ d.has = TRUE /\ d.sess = one[i].sess
  BY <1>4, DestroyedWithSession, Zenon
<1>6. Reports(d)
  BY <1>5, Zenon DEF Reports
<1>7. ConnectorsTyped'
  <2>1. delay' \in BOOLEAN /\ outcome' \in {"idle", "running", "ok", "err", "disconnected"}
    BY <1>2, Zenon
  <2> QED BY <1>2, <2>1, Zenon DEF ConnectorsTyped
<1> HIDE DEF d
<1>8. CASE res = "ok" \/ one[o].has
  <2>1. outcome' = res /\ delay' = FALSE /\ one'[o] = Conn!Destroyed /\ one'[i] = d
    BY <1>2, <1>8, Zenon
  <2>2. res # "idle" /\ res # "running"
    BY SMT
  <2>3. CASE i = "main"
    <3>1. one'["main"] = d /\ one'["fallback"] = Conn!Destroyed
      BY <2>1, <2>3, OtherSide, Zenon
    <3>2. Settling(d, Conn!Destroyed, tried', delay', outcome')
      BY <1>5, <2>1, <2>2, NewConnectorSound, Zenon DEF Settling
    <3> QED BY <1>7, <3>1, <3>2, ConnectorsBySideNext, Zenon
  <2>4. CASE i = "fallback"
    <3>1. one'["fallback"] = d /\ one'["main"] = Conn!Destroyed
      BY <2>1, <2>4, OtherSide, Zenon
    <3>2. Settling(Conn!Destroyed, d, tried', delay', outcome')
      BY <1>5, <2>1, <2>2, NewConnectorSound, Zenon DEF Settling
    <3> QED BY <1>7, <3>1, <3>2, ConnectorsBySideNext, Zenon
  <2> QED BY <2>3, <2>4, OtherSide, Zenon
<1>9. CASE ~(res = "ok" \/ one[o].has)
  <2>1. outcome' = "running" /\ delay' = ~tried' /\ one'[o] = one[o] /\ one'[i] = d
    BY <1>2, <1>9, Zenon
  <2>2. "running" # "idle" /\ "running" # "ok"
    BY SMT
  <2>3. CASE i = "main"
    <3>1. one'["main"] = d /\ one'["fallback"] = one["fallback"] /\ ~one["fallback"].has
          /\ Sound(one["fallback"])
      BY <1>9, <2>1, <2>3, OtherSide, Zenon
    <3>2. Settling(d, one["fallback"], tried', delay', outcome')
      BY <1>5, <1>6, <2>1, <2>2, <2>3, <3>1, Zenon DEF Settling
    <3> QED BY <1>7, <3>1, <3>2, ConnectorsBySideNext, Zenon
  <2>4. CASE i = "fallback"
    <3>1. one'["fallback"] = d /\ one'["main"] = one["main"] /\ ~one["main"].has /\ Sound(one["main"])
      BY <1>9, <2>1, <2>4, OtherSide, Zenon
    <3>2. Settling(one["main"], d, tried', delay', outcome')
      BY <1>5, <1>6, <2>1, <2>2, <2>4, <3>1, Zenon DEF Settling
    <3> QED BY <1>7, <3>1, <3>2, ConnectorsBySideNext, Zenon
  <2> QED BY <2>3, <2>4, OtherSide, Zenon
<1> QED BY <1>8, <1>9, Zenon

\* A connector that opens its session.
LEMMA OpeningSide ==
  ASSUME one \in [Conn!Sides -> Connector], NEW i \in Conn!Sides, one[i] = Conn!NewConnector
  PROVE  /\ Conn!Opening(i) \in [Conn!Sides -> Connector]
         /\ Conn!Opening(i)[Conn!Other(i)] = one[Conn!Other(i)]
         /\ Sound(Conn!Opening(i)[i]) /\ Reports(Conn!Opening(i)[i]) /\ Conn!Opening(i)[i].has = FALSE
<1> DEFINE all == Conn!Opening(i)
           k == [Conn!NewConnector EXCEPT !.fsm = "CONNECTING", !.sess = "opening"]
<1>1. all = [one EXCEPT ![i] = k]
  BY Zenon DEF Conn!Opening
<1>2. k \in Connector
  <2>1. "CONNECTING" \in {"DISCONNECTED", "CONNECTING", "DISCONNECTING", "gone"}
        /\ "opening" \in {"closed", "opening", "open"}
    OBVIOUS
  <2> QED BY <2>1, NewConnectorSound, Zenon DEF Connector
<1>3. NON # "ok" /\ NON # "err"
  BY UpstreamsAssumption, Zenon
<1>4. k.fsm = "CONNECTING" /\ k.sess = "opening" /\ k.result = NON /\ k.has = FALSE
  BY SMT DEF Conn!NewConnector
<1> HIDE DEF k
<1>5. Sound(k) /\ Reports(k)
  BY <1>3, <1>4, SMT DEF Sound, Reports
<1>6. all \in [Conn!Sides -> Connector] /\ all[i] = k /\ all[Conn!Other(i)] = one[Conn!Other(i)]
  <2>1. /\ [one EXCEPT ![i] = k] \in [Conn!Sides -> Connector] /\ [one EXCEPT ![i] = k][i] = k
        /\ [one EXCEPT ![i] = k][Conn!Other(i)] = one[Conn!Other(i)]
    BY <1>2, OneSide, Zenon
  <2> QED BY <1>1, <2>1, Zenon
<1> QED BY <1>4, <1>5, <1>6, Zenon

LEMMA ConnectSettles == ConnectorsOK /\ Conn!Connect => ConnectorsOK'
<1> SUFFICES ASSUME ConnectorsOK, Conn!Connect PROVE ConnectorsOK'
  OBVIOUS
<1>1. ConnectorsTyped /\ Settling(one["main"], one["fallback"], tried, delay, outcome)
  BY ConnectorsBySide, Zenon
<1>2. outcome = "idle" /\ tried' = tried
  BY Zenon DEF Conn!Connect
<1>3. tried = FALSE /\ one["main"] = Conn!NewConnector /\ one["fallback"] = Conn!NewConnector
  BY <1>1, <1>2, Zenon DEF Settling, ConnectorsTyped
<1>4. CASE one' = Conn!Opening("main") /\ delay' = TRUE /\ outcome' = "running"
  <2>1. one \in [Conn!Sides -> Connector] /\ "main" \in Conn!Sides
    BY <1>1, OtherSide, Zenon DEF ConnectorsTyped
  <2>2. /\ one' \in [Conn!Sides -> Connector] /\ one'["fallback"] = one["fallback"]
        /\ Sound(one'["main"]) /\ Reports(one'["main"])
    BY <1>3, <1>4, <2>1, OpeningSide, OtherSide, Zenon
  <2>3. ConnectorsTyped'
    BY <1>1, <1>2, <1>4, <2>2, Zenon DEF ConnectorsTyped
  <2>4. "running" # "idle" /\ "running" # "ok"
    BY SMT
  <2>5. Settling(one'["main"], one'["fallback"], tried', delay', outcome')
    BY <1>2, <1>3, <1>4, <2>2, <2>4, NewConnectorSound, Zenon DEF Settling
  <2> QED BY <2>3, <2>5, ConnectorsBySideNext, Zenon
<1>5. CASE Conn!HandleConnectResult("main", "err", one)
  <2>1. "main" \in Conn!Sides /\ "main" # "fallback" /\ "err" # "ok" /\ Sound(one[Conn!Other("main")])
    <3>1. "main" # "fallback" /\ "err" # "ok"
      BY SMT
    <3> QED BY <1>3, <3>1, OtherSide, NewConnectorSound, Zenon
  <2>2. tried' \in BOOLEAN
    BY <1>2, <1>3, Zenon
  <2> QED BY <1>1, <1>2, <1>3, <1>5, <2>1, <2>2, HandleSettles, Zenon
<1> QED BY <1>4, <1>5, Zenon DEF Conn!Connect

LEMMA StartFallbackSettles == ConnectorsOK /\ Conn!StartFallbackConnection => ConnectorsOK'
<1> SUFFICES ASSUME ConnectorsOK, Conn!StartFallbackConnection PROVE ConnectorsOK'
  OBVIOUS
<1>1. ConnectorsTyped /\ Settling(one["main"], one["fallback"], tried, delay, outcome)
  BY ConnectorsBySide, Zenon
<1>2. delay /\ tried' = TRUE
  BY Zenon DEF Conn!StartFallbackConnection
<1>3. outcome = "running"
  BY <1>1, <1>2, Zenon DEF Settling
<1>4. /\ Reports(one["main"]) /\ Sound(one["main"]) /\ one["fallback"] = Conn!NewConnector
      /\ Sound(one["fallback"])
  BY <1>1, <1>2, <1>3, Zenon DEF Settling
<1>5. CASE one' = Conn!Opening("fallback") /\ delay' = FALSE /\ UNCHANGED outcome
  <2>1. one \in [Conn!Sides -> Connector] /\ "fallback" \in Conn!Sides
    BY <1>1, OtherSide, Zenon DEF ConnectorsTyped
  <2>2. /\ one' \in [Conn!Sides -> Connector] /\ one'["main"] = one["main"]
        /\ Sound(one'["fallback"]) /\ Reports(one'["fallback"]) /\ one'["fallback"].has = FALSE
    BY <1>4, <1>5, <2>1, OpeningSide, OtherSide, Zenon
  <2>3. ConnectorsTyped'
    BY <1>1, <1>2, <1>5, <2>2, Zenon DEF ConnectorsTyped
  <2>4. "running" # "idle" /\ "running" # "ok"
    BY SMT
  <2>5. outcome' = "running"
    BY <1>3, <1>5, Zenon
  <2>6. Settling(one'["main"], one'["fallback"], tried', delay', outcome')
    BY <1>2, <1>4, <1>5, <2>2, <2>4, <2>5, Zenon DEF Settling
  <2> QED BY <2>3, <2>6, ConnectorsBySideNext, Zenon
<1>6. CASE Conn!HandleConnectResult("fallback", "err", one)
  <2>1. "fallback" \in Conn!Sides /\ "main" # "fallback" /\ "err" # "ok" /\ Sound(one[Conn!Other("fallback")])
    <3>1. "main" # "fallback" /\ "err" # "ok"
      BY SMT
    <3> QED BY <1>4, <3>1, OtherSide, Zenon
  <2>2. tried' \in BOOLEAN
    BY <1>2, Zenon
  <2> QED BY <1>1, <1>2, <1>4, <1>6, <2>1, <2>2, HandleSettles, Zenon
<1> QED BY <1>5, <1>6, Zenon DEF Conn!StartFallbackConnection

LEMMA ResultTaskSettles ==
  ASSUME ConnectorsOK, NEW i \in Conn!Sides, Conn!ResultTask(i)
  PROVE  ConnectorsOK'
<1>1. ConnectorsTyped /\ Settling(one["main"], one["fallback"], tried, delay, outcome)
  BY ConnectorsBySide, Zenon
<1>2. one[i].result # NON /\ tried' = tried /\ Conn!HandleConnectResult(i, one[i].result, one)
  BY Zenon DEF Conn!ResultTask
<1>3. one[i] \in Connector /\ one[i].result \in {NON, "ok", "err"}
  BY <1>1, SMT DEF ConnectorsTyped, Connector
<1>4. PICK res \in {"ok", "err"} : res = one[i].result
  BY <1>2, <1>3, Zenon
<1>5. ~Over(one[i]) /\ one[i] # Conn!NewConnector
  BY <1>2, NewConnectorSound, Zenon DEF Over
<1>6. Sound(one["main"]) /\ Sound(one["fallback"])
  BY <1>1, Zenon DEF Settling
<1>7. Sound(one[i]) /\ Sound(one[Conn!Other(i)])
  BY <1>6, OtherSide, Zenon
<1>8. res = "ok" => one[i].sess = "open"
  BY <1>4, <1>7, Zenon DEF Sound
<1>9. outcome = "running"
  BY <1>1, <1>5, OtherSide, Zenon DEF Settling
<1>10. i = "fallback" => tried /\ Reports(one["main"])
  BY <1>1, <1>5, <1>9, Zenon DEF Settling
<1>11. i = "main" => IF tried THEN Reports(one["fallback"]) ELSE one["fallback"] = Conn!NewConnector
  BY <1>1, <1>9, Zenon DEF Settling
<1>12. tried' \in BOOLEAN /\ Conn!HandleConnectResult(i, res, one)
  BY <1>1, <1>2, <1>4, Zenon DEF ConnectorsTyped
<1> QED BY <1>1, <1>2, <1>7, <1>8, <1>10, <1>11, <1>12, HandleSettles, Zenon

LEMMA UpstreamEventSettles ==
  ASSUME ConnectorsOK, NEW i \in Conn!Sides, Conn!UpstreamEvent(i)
  PROVE  ConnectorsOK'
<1> DEFINE k == one[i]
<1>1. ConnectorsTyped /\ Settling(one["main"], one["fallback"], tried, delay, outcome)
  BY ConnectorsBySide, Zenon
<1>2. k \in Connector
  BY <1>1, SMT DEF ConnectorsTyped
<1>3. k.fsm \in {"CONNECTING", "DISCONNECTING"} /\ k.sess = "opening" /\ UNCHANGED <<tried, delay, outcome>>
  BY Zenon DEF Conn!UpstreamEvent
<1>4. Sound(k)
  BY <1>1, OtherSide, Zenon DEF Settling
<1>5. k.has = FALSE /\ k.result = NON
  BY <1>2, <1>3, <1>4, SMT DEF Sound, Connector
<1>6. ~Over(k) /\ k # Conn!NewConnector
  <2>1. ~Over(k)
    BY <1>3, SMT DEF Over
  <2> QED BY <2>1, NewConnectorSound, Zenon
<1>9. ASSUME NEW s \in {"closed", "open"}, NEW res \in {"ok", "err"},
             res = "ok" => s = "open", res = "err" => s = "closed",
             one' = [one EXCEPT ![i] = Conn!Raise([k EXCEPT !.sess = s], res)]
      PROVE  ConnectorsOK'
  <2> DEFINE n == [k EXCEPT !.sess = s]
  <2>1. s \in {"closed", "opening", "open"}
    BY Zenon
  <2>2. n \in Connector
    BY <1>2, <2>1, Zenon DEF Connector
  <2>3. n.has = FALSE /\ n.sess = s
    BY <1>2, <1>5, SMT DEF Connector
  <2> HIDE DEF n
  <2>4. Conn!Raise(n, res) \in Connector /\ Sound(Conn!Raise(n, res))
        /\ Conn!Raise(n, res).result = res /\ Conn!Raise(n, res).has = FALSE
    BY <1>9, <2>1, <2>2, <2>3, RaiseSound, Zenon
  <2>5. res # NON
    BY UpstreamsAssumption, Zenon
  <2>6. Reports(Conn!Raise(n, res))
    BY <2>4, <2>5, Zenon DEF Reports
  <2>7. one' = [one EXCEPT ![i] = Conn!Raise(n, res)]
    BY <1>9, Zenon DEF n
  <2> HIDE DEF k
  <2> QED BY <1>3, <1>5, <1>6, <2>4, <2>6, <2>7, OneSideSettles, Zenon DEF k
<1>10. ASSUME NEW s \in {"opening", "closed"},
              one' = [one EXCEPT ![i] = [k EXCEPT !.fsm = "DISCONNECTING", !.sess = s, !.deferred = TRUE]]
       PROVE  ConnectorsOK'
  <2> DEFINE n == [k EXCEPT !.fsm = "DISCONNECTING", !.sess = s, !.deferred = TRUE]
  <2>1. n \in Connector
    <3>1. "DISCONNECTING" \in {"DISCONNECTED", "CONNECTING", "DISCONNECTING", "gone"}
          /\ s \in {"closed", "opening", "open"} /\ TRUE \in BOOLEAN
      BY Zenon
    <3> QED BY <1>2, <3>1, Zenon DEF Connector
  <2>2. /\ n.fsm = "DISCONNECTING" /\ n.sess = s /\ n.deferred = TRUE /\ n.result = NON
        /\ n.has = FALSE
    BY <1>2, <1>5, SMT DEF Connector
  <2> HIDE DEF n
  <2>3. NON # "ok" /\ NON # "err"
    BY UpstreamsAssumption, Zenon
  <2>4. Sound(n) /\ Reports(n)
    BY <2>2, <2>3, SMT DEF Sound, Reports
  <2>5. one' = [one EXCEPT ![i] = n]
    BY <1>10, Zenon DEF n
  <2> QED BY <1>3, <1>5, <1>6, <2>1, <2>2, <2>4, <2>5, OneSideSettles, Zenon
<1> QED
  <2>1. \/ one' = [one EXCEPT ![i] = Conn!Raise([k EXCEPT !.sess = "open"], "ok")]
        \/ one' = [one EXCEPT ![i] = Conn!Raise([k EXCEPT !.sess = "closed"], "err")]
        \/ \E s \in {"opening", "closed"} :
              one' = [one EXCEPT ![i] = [k EXCEPT !.fsm = "DISCONNECTING", !.sess = s, !.deferred = TRUE]]
    BY Zenon DEF Conn!UpstreamEvent
  <2>2. "ok" # "err" /\ "open" \in {"closed", "open"} /\ "closed" \in {"closed", "open"}
        /\ "ok" \in {"ok", "err"} /\ "err" \in {"ok", "err"}
    BY SMT
  <2> QED BY <1>9, <1>10, <2>1, <2>2, Zenon

LEMMA DeferredDisconnectSettles ==
  ASSUME ConnectorsOK, NEW i \in Conn!Sides, Conn!DeferredDisconnect(i)
  PROVE  ConnectorsOK'
<1> DEFINE k == one[i]
<1>1. ConnectorsTyped /\ Settling(one["main"], one["fallback"], tried, delay, outcome)
  BY ConnectorsBySide, Zenon
<1>2. k \in Connector
  BY <1>1, SMT DEF ConnectorsTyped
<1>3. /\ k.deferred /\ UNCHANGED <<tried, delay, outcome>>
      /\ one' = [one EXCEPT ![i] = IF k.fsm = "DISCONNECTING" THEN Conn!Raise(Conn!Disconnected(k), "err")
                                   ELSE [k EXCEPT !.deferred = FALSE]]
  BY Zenon DEF Conn!DeferredDisconnect
<1>4. Sound(k)
  BY <1>1, OtherSide, Zenon DEF Settling
<1>5. k # Conn!NewConnector
  <2>1. Conn!NewConnector.deferred = FALSE
    BY SMT DEF Conn!NewConnector
  <2> QED BY <1>3, <2>1, Zenon
<1>6. CASE k.fsm = "DISCONNECTING"
  <2> DEFINE n == Conn!Disconnected(k)
  <2>1. n \in Connector /\ n.has = k.has
    BY <1>2, <1>4, DisconnectedSound, Zenon
  <2>2. n.sess = "closed"
    BY <1>2, <1>6, SMT DEF Conn!Disconnected, Connector
  <2>3. k.has = FALSE
    BY <1>2, <1>4, <1>6, SMT DEF Sound, Connector
  <2>4. "err" # "ok" /\ "err" \in {"ok", "err"} /\ "closed" \in {"closed", "opening", "open"}
    BY SMT
  <2> HIDE DEF n
  <2>5. /\ Conn!Raise(n, "err") \in Connector /\ Sound(Conn!Raise(n, "err"))
        /\ Conn!Raise(n, "err").result = "err" /\ Conn!Raise(n, "err").has = FALSE
    BY <2>1, <2>2, <2>3, <2>4, RaiseSound, Zenon
  <2>6. Reports(Conn!Raise(n, "err"))
    BY <2>5, UpstreamsAssumption, Zenon DEF Reports
  <2>7. ~Over(k)
    BY <1>6, SMT DEF Over
  <2>8. one' = [one EXCEPT ![i] = Conn!Raise(n, "err")]
    BY <1>3, <1>6, Zenon DEF n
  <2> QED BY <1>3, <1>5, <2>3, <2>5, <2>6, <2>7, <2>8, OneSideSettles, Zenon
<1>7. CASE k.fsm # "DISCONNECTING"
  <2> DEFINE n == [k EXCEPT !.deferred = FALSE]
  <2>1. n \in Connector
    BY <1>2, Zenon DEF Connector
  <2>2. n.fsm = k.fsm /\ n.sess = k.sess /\ n.result = k.result /\ n.has = k.has
    BY <1>2, SMT DEF Connector
  <2> HIDE DEF n
  <2>3. Sound(n) /\ (Reports(k) => Reports(n)) /\ (Over(k) => Over(n))
    <3>1. Sound(n)
      BY <1>4, <1>7, <2>2, Zenon DEF Sound
    <3>2. (Reports(k) => Reports(n)) /\ (Over(k) => Over(n))
      BY <2>2, Zenon DEF Reports, Over
    <3> QED BY <3>1, <3>2, Zenon
  <2>4. one' = [one EXCEPT ![i] = n]
    BY <1>3, <1>7, Zenon DEF n
  <2> QED BY <1>3, <1>5, <2>1, <2>2, <2>3, <2>4, OneSideSettles, Zenon
<1> QED BY <1>6, <1>7, Zenon

LEMMA DisconnectSettles == ConnectorsOK /\ Conn!Disconnect => ConnectorsOK'
<1> SUFFICES ASSUME ConnectorsOK, Conn!Disconnect PROVE ConnectorsOK'
  OBVIOUS
<1> DEFINE before(i) == IF i = "main" \/ tried THEN Conn!Disconnected(one[i]) ELSE one[i]
           after(i) == [before(i) EXCEPT !.result = NON, !.sess = "closed"]
<1>1. ConnectorsTyped /\ Settling(one["main"], one["fallback"], tried, delay, outcome)
  BY ConnectorsBySide, Zenon
<1>2. /\ outcome = "running" /\ outcome' = "disconnected" /\ delay' = FALSE /\ tried' = tried
      /\ one' = [i \in Conn!Sides |-> after(i)]
  BY Zenon DEF Conn!Disconnect
<1>3. ASSUME NEW i \in Conn!Sides
      PROVE  before(i) \in Connector /\ Sound(before(i)) /\ before(i).fsm \in {"DISCONNECTED", "gone"}
  <2>1. one[i] \in Connector /\ Sound(one[i])
    BY <1>1, OtherSide, Zenon DEF ConnectorsTyped, Settling
  <2>2. CASE i = "main" \/ tried
    BY <2>1, <2>2, DisconnectedSound, Zenon
  <2>3. CASE ~(i = "main" \/ tried)
    <3>1. i = "fallback"
      BY <2>3, OtherSide, Zenon
    <3>2. one[i] = Conn!NewConnector
      BY <1>1, <1>2, <2>3, <3>1, Zenon DEF Settling
    <3>3. Conn!NewConnector.fsm = "DISCONNECTED"
      BY SMT DEF Conn!NewConnector
    <3> QED BY <2>1, <2>3, <3>2, <3>3, Zenon
  <2> QED BY <2>2, <2>3, Zenon
<1> HIDE DEF before
<1>4. ASSUME NEW i \in Conn!Sides
      PROVE  after(i) \in Connector /\ Sound(after(i)) /\ Over(after(i))
  BY <1>3, ClearedOver, Zenon
<1> HIDE DEF after
<1>5. one' \in [Conn!Sides -> Connector] /\ one'["main"] = after("main") /\ one'["fallback"] = after("fallback")
  BY <1>2, <1>4, OtherSide, Zenon
<1>6. ConnectorsTyped'
  BY <1>1, <1>2, <1>5, Zenon DEF ConnectorsTyped
<1>7. Settling(one'["main"], one'["fallback"], tried', delay', outcome')
  <2>1. "disconnected" # "idle" /\ "disconnected" # "running" /\ "disconnected" # "ok"
    BY SMT
  <2> QED BY <1>2, <1>4, <1>5, <2>1, OtherSide, Zenon DEF Settling
<1> QED BY <1>6, <1>7, ConnectorsBySideNext, Zenon

LEMMA ConnectorsNext == ConnectorsOK /\ [Conn!Next]_Conn!connectorVars => ConnectorsOK'
<1>1. ASSUME ConnectorsOK, UNCHANGED Conn!connectorVars PROVE ConnectorsOK'
  BY <1>1, Zenon DEF Conn!connectorVars, ConnectorsOK
<1>2. ASSUME ConnectorsOK, Conn!Next PROVE ConnectorsOK'
  BY <1>2, ConnectSettles, StartFallbackSettles, DisconnectSettles, UpstreamEventSettles,
     DeferredDisconnectSettles, ResultTaskSettles, Zenon DEF Conn!Next
<1> QED BY <1>1, <1>2, Zenon

\* A connector to the endpoint that was started reports, and hands over at most one open session,
\* whatever the order of the sessions' events, the delay, the deferred tasks and a disconnect
\* (FallbackableUpstreamConnector::handle_connect_result).
THEOREM ConnectorsReport == Conn!Spec => []ConnectorSettles
<1>1. ConnectorsOK => ConnectorSettles
  <2> SUFFICES ASSUME ConnectorsOK PROVE Conn!ConnectorSettles
    BY Zenon DEF ConnectorSettles
  <2>1. ConnectorsTyped /\ Settling(one["main"], one["fallback"], tried, delay, outcome)
    BY ConnectorsBySide, Zenon
  <2>2. one["main"] \in Connector /\ one["fallback"] \in Connector
    BY <2>1, OtherSide, Zenon DEF ConnectorsTyped
  <2>3. ASSUME NEW k, Sound(k), Reports(k), ~k.has
        PROVE  k.result # NON \/ k.deferred \/ (k.fsm = "CONNECTING" /\ k.sess = "opening")
    BY <2>3, Zenon DEF Reports, Sound
  <2>4. outcome = "running" => \/ delay
                               \/ \E i \in Conn!Sides :
                                    \/ one[i].result # NON \/ one[i].deferred
                                    \/ one[i].fsm = "CONNECTING" /\ one[i].sess = "opening"
    <3> SUFFICES ASSUME outcome = "running", ~delay
                 PROVE  \E i \in Conn!Sides :
                           \/ one[i].result # NON \/ one[i].deferred
                           \/ one[i].fsm = "CONNECTING" /\ one[i].sess = "opening"
      BY Zenon
    <3>1. /\ Sound(one["main"]) /\ Sound(one["fallback"]) /\ Reports(one["main"])
          /\ Reports(one["fallback"]) /\ ~(one["main"].has /\ one["fallback"].has)
      BY <2>1, Zenon DEF Settling
    <3> QED BY <2>3, <3>1, OtherSide, Zenon
  <2>5. outcome = "ok" => \E i \in Conn!Sides : one[i].sess = "open" /\ one[Conn!Other(i)].sess = "closed"
    BY Zenon DEF ConnectorsOK
  <2>6. delay => ~tried /\ ~one["fallback"].has
    BY <2>1, NewConnectorSound, Zenon DEF Settling
  <2> QED BY <2>4, <2>5, <2>6, Zenon DEF Conn!ConnectorSettles
<1> QED BY <1>1, ConnectorsInit, ConnectorsNext, PTL DEF Conn!Spec

-----------------------------------------------------------------------------
(* The buffers.                                                            *)

\* The bytes of s from off + 1 on are the ones of the stream that follow the byte e.
Follows(s, off, e) == \A j \in 1 .. Len(s) - off : s[off + j] = e + j

LEMMA PieceFollows ==
  ASSUME NEW s \in Seq(Nat), NEW off \in Nat, NEW e \in Nat, Follows(s, off, e),
         NEW m \in Nat, NEW n \in Nat, off <= m, m <= n, n <= Len(s)
  PROVE  /\ SubSeq(s, m + 1, n) \in Seq(Nat) /\ Len(SubSeq(s, m + 1, n)) = n - m
         /\ Follows(SubSeq(s, m + 1, n), 0, e + (m - off))
<1> DEFINE t == SubSeq(s, m + 1, n)
<1>1. \A i \in m + 1 .. n : s[i] \in Nat
  BY SMT
<1>2. m + 1 \in Int /\ n \in Int
  BY SMT
<1>3. /\ t \in Seq(Nat) /\ Len(t) = (IF m + 1 <= n THEN n - (m + 1) + 1 ELSE 0)
      /\ \A i \in 1 .. n - (m + 1) + 1 : t[i] = s[m + 1 + i - 1]
  BY <1>1, <1>2, SubSeqProperties, SMT
<1>4. Len(t) = n - m
  BY <1>3, SMT
<1> HIDE DEF t
<1>5. ASSUME NEW j \in 1 .. Len(t) - 0 PROVE t[0 + j] = e + (m - off) + j
  <2>1. j \in Nat /\ j \in 1 .. n - (m + 1) + 1 /\ 0 + j = j /\ m + 1 + j - 1 = off + ((m - off) + j)
    BY <1>4, SMT
  <2>2. (m - off) + j \in 1 .. Len(s) - off /\ e + ((m - off) + j) = e + (m - off) + j
    BY <2>1, SMT
  <2>3. t[j] = s[m + 1 + j - 1]
    BY <1>3, <2>1, Zenon
  <2>4. s[off + ((m - off) + j)] = e + ((m - off) + j)
    BY <2>2, Zenon DEF Follows
  <2> QED BY <2>1, <2>2, <2>3, <2>4, Zenon
<1> QED BY <1>3, <1>4, <1>5, Zenon DEF Follows, t

LEMMA JoinFollows ==
  ASSUME NEW s \in Seq(Nat), NEW t \in Seq(Nat), NEW off \in Nat, off <= Len(s), NEW e \in Nat,
         Follows(s, off, e), Follows(t, 0, e + (Len(s) - off))
  PROVE  s \o t \in Seq(Nat) /\ Len(s \o t) = Len(s) + Len(t) /\ Follows(s \o t, off, e)
<1> DEFINE u == s \o t
<1>1. /\ u \in Seq(Nat) /\ Len(u) = Len(s) + Len(t)
      /\ \A i \in 1 .. Len(s) + Len(t) : u[i] = IF i <= Len(s) THEN s[i] ELSE t[i - Len(s)]
  BY ConcatProperties, Zenon
<1> HIDE DEF u
<1>2. Len(s) \in Nat /\ Len(t) \in Nat
  BY SMT
<1>3. ASSUME NEW j \in 1 .. Len(u) - off PROVE u[off + j] = e + j
  <2>1. j \in Nat /\ off + j \in 1 .. Len(s) + Len(t)
    BY <1>1, <1>2, SMT
  <2>2. u[off + j] = IF off + j <= Len(s) THEN s[off + j] ELSE t[(off + j) - Len(s)]
    BY <1>1, <2>1, Zenon
  <2>3. CASE off + j <= Len(s)
    <3>1. j \in 1 .. Len(s) - off
      BY <1>2, <2>1, <2>3, SMT
    <3> QED BY <2>2, <2>3, <3>1, Zenon DEF Follows
  <2>4. CASE ~(off + j <= Len(s))
    <3> DEFINE i == (off + j) - Len(s)
    <3>1. i \in 1 .. Len(t) - 0 /\ 0 + i = i /\ e + (Len(s) - off) + i = e + j
      BY <1>1, <1>2, <2>1, <2>4, SMT
    <3>2. t[0 + i] = e + (Len(s) - off) + i
      BY <3>1, Zenon DEF Follows
    <3> QED BY <2>2, <2>4, <3>1, <3>2, Zenon
  <2> QED BY <2>3, <2>4, Zenon
<1> QED BY <1>1, <1>3, Zenon DEF Follows, u

LEMMA BytesFollow ==
  ASSUME NEW e \in Nat, NEW n \in Nat
  PROVE  /\ Buffer!Bytes(e + 1, n) \in Seq(Nat) /\ Len(Buffer!Bytes(e + 1, n)) = n
         /\ Follows(Buffer!Bytes(e + 1, n), 0, e)
<1> DEFINE t == Buffer!Bytes(e + 1, n)
<1>1. t = [i \in 1 .. n |-> e + 1 + i - 1]
  BY Zenon DEF Buffer!Bytes
<1>2. t \in Seq(Nat) /\ Len(t) = n
  BY <1>1, SMT
<1>3. ASSUME NEW j \in 1 .. Len(t) - 0 PROVE t[0 + j] = e + j
  BY <1>1, <1>2, SMT
<1> QED BY <1>2, <1>3, Zenon DEF Follows

LEMMA FollowsIsBytes ==
  ASSUME NEW s \in Seq(Nat), NEW e \in Nat, Follows(s, 0, e)
  PROVE  s = Buffer!Bytes(e + 1, Len(s))
<1> DEFINE t == Buffer!Bytes(e + 1, Len(s))
<1>1. Len(s) \in Nat
  BY SMT
<1>2. t \in Seq(Nat) /\ Len(t) = Len(s) /\ Follows(t, 0, e)
  BY <1>1, BytesFollow, Zenon
<1> HIDE DEF t
<1>3. ASSUME NEW i \in 1 .. Len(s) PROVE s[i] = t[i]
  <2>1. i \in 1 .. Len(s) - 0 /\ i \in 1 .. Len(t) - 0 /\ 0 + i = i
    BY <1>1, <1>2, SMT
  <2> QED BY <1>2, <2>1, Zenon DEF Follows
<1> QED BY <1>2, <1>3, SeqEqual, Zenon DEF t

BufferType ==
    [usesFile : BOOLEAN, mem : Seq(Nat), file : Seq(Nat), off : Nat, fd : BOOLEAN, on : BOOLEAN]

\* The buffer b holds the bytes of the stream from the one after d to p: first the memory, then the
\* part of the file that is not read. Only a MemfileBuffer has a file, and keeps the threshold.
Holding(b, d, p) ==
    /\ b.off <= Len(b.file) /\ d + Len(b.mem) + (Len(b.file) - b.off) = p
    /\ Follows(b.mem, 0, d) /\ Follows(b.file, b.off, d + Len(b.mem))
    /\ b.usesFile => Len(b.mem) <= MemThreshold
    /\ ~b.usesFile => ~b.fd /\ Len(b.file) = b.off

\* The next push may not overtake what is in the file: the memory is full as long as there is any. It is so unless
\* the file could not be read.
NoOvertaking(b) == b.off < Len(b.file) => MemThreshold <= Len(b.mem)

BufferOK ==
    buf.on /\ ~overtaken =>
        /\ buf \in BufferType /\ pushed \in Nat /\ drained \in Nat
        /\ Holding(buf, drained, pushed) /\ (~unread => NoOvertaking(buf))

LEMMA BufferFields ==
  ASSUME NEW b \in BufferType
  PROVE  /\ b.usesFile \in BOOLEAN /\ b.mem \in Seq(Nat) /\ b.file \in Seq(Nat) /\ b.off \in Nat
         /\ b.fd \in BOOLEAN /\ b.on \in BOOLEAN /\ Len(b.mem) \in Nat /\ Len(b.file) \in Nat
<1>1. /\ b.usesFile \in BOOLEAN /\ b.mem \in Seq(Nat) /\ b.file \in Seq(Nat) /\ b.off \in Nat
      /\ b.fd \in BOOLEAN /\ b.on \in BOOLEAN
  BY Zenon DEF BufferType
<1> QED BY <1>1, LenProperties, Zenon

LEMMA Threshold0 == MemThreshold \in Nat /\ MaxFileSize \in Nat /\ MaxPush \in Nat
BY UpstreamsAssumption, Zenon

\* push to the memory.
LEMMA MemPushHolds ==
  ASSUME NEW b \in BufferType, NEW d \in Nat, NEW p \in Nat, Holding(b, d, p), NEW x \in Seq(Nat),
         Follows(x, 0, d + Len(b.mem)), Len(x) = 0 \/ Len(b.file) = b.off,
         b.usesFile => Len(b.mem) + Len(x) <= MemThreshold
  PROVE  LET t == Buffer!MemPush(b, x) IN
         /\ t \in BufferType /\ Holding(t, d, p + Len(x)) /\ Len(t.mem) = Len(b.mem) + Len(x)
         /\ t.usesFile = b.usesFile /\ t.file = b.file /\ t.off = b.off /\ t.fd = b.fd /\ t.on = b.on
<1> DEFINE t == Buffer!MemPush(b, x)
<1>1. /\ b.mem \in Seq(Nat) /\ b.file \in Seq(Nat) /\ b.off \in Nat
      /\ Len(b.mem) \in Nat /\ Len(b.file) \in Nat /\ Len(x) \in Nat
  BY BufferFields, LenProperties, Zenon
<1>2. Follows(b.mem, 0, d) /\ 0 \in Nat /\ 0 <= Len(b.mem) /\ Follows(x, 0, d + (Len(b.mem) - 0))
  <2>1. Len(b.mem) - 0 = Len(b.mem) /\ 0 <= Len(b.mem) /\ 0 \in Nat
    BY <1>1, SMT
  <2> QED BY <2>1, Zenon DEF Holding
<1>3. b.mem \o x \in Seq(Nat) /\ Len(b.mem \o x) = Len(b.mem) + Len(x) /\ Follows(b.mem \o x, 0, d)
  BY <1>1, <1>2, JoinFollows, Zenon
<1>4. /\ t.mem = b.mem \o x /\ t.usesFile = b.usesFile /\ t.file = b.file /\ t.off = b.off
      /\ t.fd = b.fd /\ t.on = b.on
  BY Zenon DEF Buffer!MemPush, BufferType
<1>5. t \in BufferType
  BY <1>3, Zenon DEF Buffer!MemPush, BufferType
<1> HIDE DEF t
<1>6. Follows(b.file, b.off, d + (Len(b.mem) + Len(x)))
  <2>1. CASE Len(x) = 0
    <3>1. Len(b.mem) + Len(x) = Len(b.mem)
      BY <1>1, <2>1, SMT
    <3> QED BY <3>1, Zenon DEF Holding
  <2>2. CASE Len(b.file) = b.off
    <3>1. \A j \in 1 .. Len(b.file) - b.off : FALSE
      BY <1>1, <2>2, SMT
    <3> QED BY <3>1, Zenon DEF Follows
  <2> QED BY <2>1, <2>2, Zenon
<1>7. b.off <= Len(b.file) /\ d + (Len(b.mem) + Len(x)) + (Len(b.file) - b.off) = p + Len(x)
  <2>1. b.off <= Len(b.file) /\ d + Len(b.mem) + (Len(b.file) - b.off) = p
    BY Zenon DEF Holding
  <2>2. d + (Len(b.mem) + Len(x)) + (Len(b.file) - b.off)
           = (d + Len(b.mem) + (Len(b.file) - b.off)) + Len(x)
    BY <1>1, SMT
  <2> QED BY <2>1, <2>2, Zenon
<1>8. ~b.usesFile => ~b.fd /\ Len(b.file) = b.off
  BY Zenon DEF Holding
<1>9. Holding(t, d, p + Len(x))
  BY <1>3, <1>4, <1>6, <1>7, <1>8, Zenon DEF Holding
<1> QED BY <1>3, <1>4, <1>5, <1>9, Zenon DEF t

\* drain of r bytes of the memory.
LEMMA MemDrainHolds ==
  ASSUME NEW b \in BufferType, NEW d \in Nat, NEW p \in Nat, Holding(b, d, p),
         NEW r \in Nat, r <= Len(b.mem)
  PROVE  LET t == Buffer!MemDrain(b, r) IN
         /\ t \in BufferType /\ Holding(t, d + r, p)
         /\ t.usesFile = b.usesFile /\ t.file = b.file /\ t.off = b.off /\ t.fd = b.fd /\ t.on = b.on
<1> DEFINE t == Buffer!MemDrain(b, r)
           m == SubSeq(b.mem, r + 1, Len(b.mem))
<1>1. /\ b.mem \in Seq(Nat) /\ b.file \in Seq(Nat) /\ b.off \in Nat
      /\ Len(b.mem) \in Nat /\ Len(b.file) \in Nat
  BY BufferFields, Zenon
<1>2. Follows(b.mem, 0, d) /\ 0 \in Nat /\ 0 <= r /\ r <= Len(b.mem) /\ Len(b.mem) <= Len(b.mem)
  <2>1. 0 \in Nat /\ 0 <= r /\ Len(b.mem) <= Len(b.mem)
    BY <1>1, SMT
  <2> QED BY <2>1, Zenon DEF Holding
<1>3. m \in Seq(Nat) /\ Len(m) = Len(b.mem) - r /\ Follows(m, 0, d + r)
  <2>1. m \in Seq(Nat) /\ Len(m) = Len(b.mem) - r /\ Follows(m, 0, d + (r - 0))
    BY <1>1, <1>2, PieceFollows, Zenon
  <2>2. r - 0 = r
    BY SMT
  <2> QED BY <2>1, <2>2, Zenon
<1>4. /\ t.mem = m /\ t.usesFile = b.usesFile /\ t.file = b.file /\ t.off = b.off
      /\ t.fd = b.fd /\ t.on = b.on
  BY Zenon DEF Buffer!MemDrain, Buffer!From, BufferType
<1>5. t \in BufferType
  BY <1>3, Zenon DEF Buffer!MemDrain, Buffer!From, BufferType
<1> HIDE DEF t, m
<1>6. /\ b.off <= Len(b.file) /\ (d + r) + (Len(b.mem) - r) + (Len(b.file) - b.off) = p
      /\ (d + r) + (Len(b.mem) - r) = d + Len(b.mem)
      /\ b.usesFile => Len(b.mem) - r <= MemThreshold
  <2>1. /\ b.off <= Len(b.file) /\ d + Len(b.mem) + (Len(b.file) - b.off) = p
        /\ b.usesFile => Len(b.mem) <= MemThreshold
    BY Zenon DEF Holding
  <2>2. \A l, f, o, h \in Nat :
           /\ (d + r) + (l - r) + (f - o) = d + l + (f - o) /\ (d + r) + (l - r) = d + l
           /\ l <= h => l - r <= h
    BY SMT
  <2> QED BY <1>1, <2>1, <2>2, Threshold0, Zenon
<1>7. (~b.usesFile => ~b.fd /\ Len(b.file) = b.off) /\ Follows(b.file, b.off, d + Len(b.mem))
  BY Zenon DEF Holding
<1>8. Holding(t, d + r, p)
  BY <1>3, <1>4, <1>6, <1>7, Zenon DEF Holding
<1> QED BY <1>4, <1>5, <1>8, Zenon DEF t

\* strip_file, when it is needed.
LEMMA StrippedHolds ==
  ASSUME NEW b \in BufferType, NEW d \in Nat, NEW p \in Nat, Holding(b, d, p), NEW n
  PROVE  LET t == Buffer!Stripped(b, n) IN
         /\ t \in BufferType /\ Holding(t, d, p)
         /\ t.mem = b.mem /\ t.usesFile = b.usesFile /\ t.fd = b.fd /\ t.on = b.on
<1> DEFINE t == Buffer!StripFile(b)
           f == SubSeq(b.file, b.off + 1, Len(b.file))
<1>1. /\ b.mem \in Seq(Nat) /\ b.file \in Seq(Nat) /\ b.off \in Nat
      /\ Len(b.mem) \in Nat /\ Len(b.file) \in Nat
  BY BufferFields, Zenon
<1>2. /\ Follows(b.file, b.off, d + Len(b.mem)) /\ d + Len(b.mem) \in Nat
      /\ b.off <= b.off /\ b.off <= Len(b.file) /\ Len(b.file) <= Len(b.file)
  <2>1. d + Len(b.mem) \in Nat /\ b.off <= b.off /\ Len(b.file) <= Len(b.file)
    BY <1>1, SMT
  <2> QED BY <2>1, Zenon DEF Holding
<1>3. f \in Seq(Nat) /\ Len(f) = Len(b.file) - b.off /\ Follows(f, 0, d + Len(b.mem))
  <2>1. f \in Seq(Nat) /\ Len(f) = Len(b.file) - b.off /\ Follows(f, 0, (d + Len(b.mem)) + (b.off - b.off))
    BY <1>1, <1>2, PieceFollows, Zenon
  <2>2. (d + Len(b.mem)) + (b.off - b.off) = d + Len(b.mem)
    BY <1>1, SMT
  <2> QED BY <2>1, <2>2, Zenon
<1>4. /\ t.file = f /\ t.off = 0 /\ t.mem = b.mem /\ t.usesFile = b.usesFile
      /\ t.fd = b.fd /\ t.on = b.on
  BY Zenon DEF Buffer!StripFile, Buffer!From, BufferType
<1>5. t \in BufferType
  <2>1. 0 \in Nat
    BY SMT
  <2> QED BY <1>3, <2>1, Zenon DEF Buffer!StripFile, Buffer!From, BufferType
<1> HIDE DEF t, f
<1>6. Len(f) \in Nat /\ Len(f) - 0 = Len(b.file) - b.off /\ 0 <= Len(f)
      /\ (Len(b.file) = b.off => Len(f) = 0)
  <2>1. Len(f) \in Nat
    BY <1>3, LenProperties, Zenon
  <2> QED BY <1>1, <1>3, <2>1, SMT
<1>7. Holding(t, d, p)
  <2>1. t.off <= Len(t.file) /\ d + Len(t.mem) + (Len(t.file) - t.off) = p
    BY <1>4, <1>6, Zenon DEF Holding
  <2>2. (t.usesFile => Len(t.mem) <= MemThreshold)
        /\ (~t.usesFile => ~t.fd /\ Len(t.file) = t.off) /\ Follows(t.mem, 0, d)
    BY <1>4, <1>6, Zenon DEF Holding
  <2> QED BY <1>3, <1>4, <2>1, <2>2, Zenon DEF Holding
<1>8. CASE Buffer!NeedToStripFile(b, n)
  BY <1>4, <1>5, <1>7, <1>8, Zenon DEF Buffer!Stripped, t
<1>9. CASE ~Buffer!NeedToStripFile(b, n)
  BY <1>9, Zenon DEF Buffer!Stripped
<1> QED BY <1>8, <1>9, Zenon

\* The file is opened or closed.
LEMMA HandleHolds ==
  ASSUME NEW b \in BufferType, NEW d, NEW p, Holding(b, d, p), b.usesFile, NEW open \in BOOLEAN
  PROVE  LET t == [b EXCEPT !.fd = open] IN t \in BufferType /\ Holding(t, d, p) /\ t.mem = b.mem /\ t.on = b.on
<1> DEFINE t == [b EXCEPT !.fd = open]
<1>1. /\ t \in BufferType /\ t.mem = b.mem /\ t.usesFile = b.usesFile /\ t.file = b.file /\ t.off = b.off
      /\ t.on = b.on
  BY Zenon DEF BufferType
<1> HIDE DEF t
<1>2. Holding(t, d, p)
  BY <1>1, Zenon DEF Holding
<1> QED BY <1>1, <1>2, Zenon DEF t

\* write_in_file of what the file has room for.
LEMMA WriteHolds ==
  ASSUME NEW b \in BufferType, NEW d \in Nat, NEW p \in Nat, Holding(b, d, p), b.usesFile,
         NEW x \in Seq(Nat), Follows(x, 0, p), Len(b.file) < MaxFileSize
  PROVE  LET t == Buffer!WriteInFile(b, x)
             n == Buffer!Written(b, Len(x)) IN
         /\ n \in Nat /\ n <= Len(x)
         /\ t \in BufferType /\ Holding(t, d, p + n) /\ t.mem = b.mem /\ t.on = b.on
<1> DEFINE t == Buffer!WriteInFile(b, x)
           n == Buffer!Written(b, Len(x))
           y == SubSeq(x, 1, n)
           f == b.file \o y
           e == d + Len(b.mem)
<1>1. /\ b.mem \in Seq(Nat) /\ b.file \in Seq(Nat) /\ b.off \in Nat
      /\ Len(b.mem) \in Nat /\ Len(b.file) \in Nat /\ Len(x) \in Nat
  BY BufferFields, LenProperties, Zenon
<1>2. n \in Nat /\ n <= Len(x) /\ 0 \in Nat /\ 0 <= n /\ 0 <= 0
  <2>1. \A i, j, h \in Nat : j < h => Buffer!Least(i, h - j) \in Nat /\ Buffer!Least(i, h - j) <= i
    BY SMT DEF Buffer!Least
  <2>2. n \in Nat /\ n <= Len(x)
    BY <1>1, <2>1, Threshold0, Zenon DEF Buffer!Written
  <2> HIDE DEF n
  <2> QED BY <2>2, SMT
<1>3. y \in Seq(Nat) /\ Len(y) = n /\ Follows(y, 0, p)
  <2>1. SubSeq(x, 0 + 1, n) \in Seq(Nat) /\ Len(SubSeq(x, 0 + 1, n)) = n - 0 /\ Follows(SubSeq(x, 0 + 1, n), 0, p + (0 - 0))
    <3> HIDE DEF n
    <3> QED BY <1>2, PieceFollows, Zenon
  <2>2. 0 + 1 = 1 /\ n - 0 = n /\ p + (0 - 0) = p
    <3> HIDE DEF n
    <3> QED BY <1>2, SMT
  <2> QED BY <2>1, <2>2, Zenon
<1>4. /\ b.off <= Len(b.file) /\ e \in Nat /\ Follows(b.file, b.off, e)
      /\ Follows(y, 0, e + (Len(b.file) - b.off))
  <2>1. e \in Nat
    BY <1>1, SMT
  <2> QED BY <1>3, <2>1, Zenon DEF Holding
<1>5. f \in Seq(Nat) /\ Len(f) = Len(b.file) + n /\ Follows(f, b.off, e)
  <2> HIDE DEF e, y
  <2> QED BY <1>1, <1>3, <1>4, JoinFollows, Zenon
<1>6. /\ t.file = f /\ t.off = b.off /\ t.mem = b.mem /\ t.usesFile = b.usesFile
      /\ t.fd = TRUE /\ t.on = b.on
  BY Zenon DEF Buffer!WriteInFile, BufferType
<1>7. t \in BufferType
  BY <1>5, Zenon DEF Buffer!WriteInFile, BufferType
<1> HIDE DEF t, f, y, n
<1>8. b.off <= Len(b.file) + n /\ e + ((Len(b.file) + n) - b.off) = p + n
  <2>1. e + (Len(b.file) - b.off) = p
    BY Zenon DEF Holding
  <2> HIDE DEF e
  <2>2. /\ e + ((Len(b.file) + n) - b.off) = (e + (Len(b.file) - b.off)) + n
        /\ b.off <= Len(b.file) + n
    BY <1>1, <1>2, <1>4, SMT
  <2> QED BY <2>1, <2>2, Zenon
<1>9. Holding(t, d, p + n)
  <2>1. (b.usesFile => Len(b.mem) <= MemThreshold) /\ Follows(b.mem, 0, d)
    BY Zenon DEF Holding
  <2> QED BY <1>5, <1>6, <1>8, <2>1, Zenon DEF Holding
<1> QED BY <1>2, <1>6, <1>7, <1>9, Zenon DEF t, n

\* transfer_file2mem, when the file can be read.
LEMMA TransferHolds ==
  ASSUME NEW b \in BufferType, NEW d \in Nat, NEW p \in Nat, Holding(b, d, p)
  PROVE  LET t == Buffer!TransferFile2Mem(b) IN
         /\ t \in BufferType /\ Holding(t, d, p) /\ t.on = b.on
         /\ b.fd \/ Len(b.file) = b.off => NoOvertaking(t)
<1> DEFINE t == Buffer!TransferFile2Mem(b)
           n == IF b.fd THEN Buffer!Least(Buffer!GetFreeMemSpace(b), Buffer!Unread(b)) ELSE 0
           x == SubSeq(b.file, b.off + 1, b.off + n)
           m == b.mem \o x
           e == d + Len(b.mem)
<1>1. /\ b.mem \in Seq(Nat) /\ b.file \in Seq(Nat) /\ b.off \in Nat
      /\ Len(b.mem) \in Nat /\ Len(b.file) \in Nat /\ b.fd \in BOOLEAN /\ b.usesFile \in BOOLEAN
  BY BufferFields, Zenon
<1>2. /\ b.off <= Len(b.file) /\ Follows(b.file, b.off, e) /\ Follows(b.mem, 0, d)
      /\ b.usesFile => Len(b.mem) <= MemThreshold
      /\ ~b.usesFile => ~b.fd /\ Len(b.file) = b.off
      /\ e + (Len(b.file) - b.off) = p
  BY Zenon DEF Holding
<1>3. /\ n \in Nat /\ b.off + n <= Len(b.file)
      /\ b.usesFile => Len(b.mem) + n <= MemThreshold
      /\ b.fd /\ b.off + n < Len(b.file) => MemThreshold <= Len(b.mem) + n
      /\ ~b.fd => n = 0
  <2>1. CASE b.fd
    <3>1. Len(b.mem) <= MemThreshold
      BY <1>2, <2>1, Zenon
    <3>2. n = Buffer!Least(MemThreshold - Len(b.mem), Len(b.file) - b.off)
      BY <2>1, Zenon DEF Buffer!GetFreeMemSpace, Buffer!Unread
    <3>3. \A i, h, l, o \in Nat : i <= h /\ o <= l =>
             /\ Buffer!Least(h - i, l - o) \in Nat
             /\ o + Buffer!Least(h - i, l - o) <= l /\ i + Buffer!Least(h - i, l - o) <= h
             /\ o + Buffer!Least(h - i, l - o) < l => h <= i + Buffer!Least(h - i, l - o)
      BY SMT DEF Buffer!Least
    <3> HIDE DEF n
    <3> QED BY <1>1, <1>2, <2>1, <3>1, <3>2, <3>3, Threshold0, ZenonT(30)
  <2>2. CASE ~b.fd
    <3>1. n = 0
      BY <2>2, Zenon
    <3>2. \A i \in Nat : 0 \in Nat /\ i + 0 = i
      BY SMT
    <3> HIDE DEF n
    <3> QED BY <1>1, <1>2, <2>2, <3>1, <3>2, Zenon
  <2> QED BY <2>1, <2>2, Zenon
<1>4. t.mem = m /\ t.off = b.off + n /\ t.file = b.file /\ t.usesFile = b.usesFile
      /\ t.fd = b.fd /\ t.on = b.on
  BY Zenon DEF Buffer!TransferFile2Mem, Buffer!MemPush, BufferType
<1> HIDE DEF n
<1>5. x \in Seq(Nat) /\ Len(x) = n /\ Follows(x, 0, e)
  <2>1. /\ b.off + n \in Nat /\ b.off <= b.off /\ b.off <= b.off + n /\ e \in Nat
        /\ (b.off + n) - b.off = n /\ e + (b.off - b.off) = e
    BY <1>1, <1>3, SMT
  <2> HIDE DEF e
  <2>2. x \in Seq(Nat) /\ Len(x) = (b.off + n) - b.off /\ Follows(x, 0, e + (b.off - b.off))
    BY <1>1, <1>2, <1>3, <2>1, PieceFollows, Zenon
  <2> QED BY <2>1, <2>2, Zenon
<1>6. m \in Seq(Nat) /\ Len(m) = Len(b.mem) + n /\ Follows(m, 0, d)
  <2>1. 0 \in Nat /\ 0 <= Len(b.mem) /\ Len(b.mem) - 0 = Len(b.mem)
    BY <1>1, SMT
  <2>2. Follows(x, 0, d + (Len(b.mem) - 0))
    BY <1>5, <2>1, Zenon
  <2> HIDE DEF x
  <2> QED BY <1>1, <1>2, <1>5, <2>1, <2>2, JoinFollows, Zenon
<1>7. t \in BufferType
  <2>1. b.off + n \in Nat
    BY <1>1, <1>3, SMT
  <2>2. t = [[b EXCEPT !.mem = m] EXCEPT !.off = b.off + n]
    <3>1. [b EXCEPT !.mem = m].off = b.off
      BY Zenon DEF BufferType
    <3> QED BY <3>1, Zenon DEF Buffer!TransferFile2Mem, Buffer!MemPush, n
  <2> HIDE DEF m, t
  <2> QED BY <1>6, <2>1, <2>2, Zenon DEF BufferType
<1> HIDE DEF t, m, x
<1>8. /\ Follows(b.file, b.off + n, d + (Len(b.mem) + n))
      /\ d + (Len(b.mem) + n) + (Len(b.file) - (b.off + n)) = p
  <2>1. e + (Len(b.file) - b.off) = d + (Len(b.mem) + n) + (Len(b.file) - (b.off + n))
    BY <1>1, <1>3, SMT
  <2>2. ASSUME NEW j \in 1 .. Len(b.file) - (b.off + n)
        PROVE  b.file[(b.off + n) + j] = d + (Len(b.mem) + n) + j
    <3>1. /\ n + j \in 1 .. Len(b.file) - b.off /\ b.off + (n + j) = (b.off + n) + j
          /\ e + (n + j) = d + (Len(b.mem) + n) + j
      <4>1. j \in Nat /\ n \in Nat /\ 1 <= j /\ (b.off + n) + j <= Len(b.file)
        BY <1>1, <1>3, SMT
      <4>2. n + j \in 1 .. Len(b.file) - b.off /\ b.off + (n + j) = (b.off + n) + j
        BY <1>1, <4>1, SMTT(30)
      <4>3. e + (n + j) = d + (Len(b.mem) + n) + j
        <5>1. \A i \in Nat : (d + i) + (n + j) = d + (i + n) + j
          BY <4>1, SMT
        <5> QED BY <1>1, <5>1, Zenon
      <4> QED BY <4>2, <4>3, Zenon
    <3>2. b.file[b.off + (n + j)] = e + (n + j)
      BY <1>2, <3>1, Zenon DEF Follows
    <3> QED BY <3>1, <3>2, Zenon
  <2> QED BY <1>2, <2>1, <2>2, Zenon DEF Follows
<1>9. Holding(t, d, p) /\ (b.fd \/ Len(b.file) = b.off => NoOvertaking(t))
  <2> HIDE DEF e
  <2>1. ~b.usesFile => Len(b.file) = b.off + n
    BY <1>1, <1>2, <1>3, SMT
  <2>2. Holding(t, d, p)
    BY <1>2, <1>3, <1>4, <1>6, <1>8, <2>1, Zenon DEF Holding
  <2>3. Len(b.file) = b.off => ~(b.off + n < Len(b.file))
    BY <1>1, <1>3, SMT
  <2> QED BY <1>3, <1>4, <1>6, <2>2, <2>3, Zenon DEF NoOvertaking
<1> QED BY <1>4, <1>7, <1>9, Zenon DEF t

LEMMA BufferInit == Buffer!Init => BufferOK
<1> SUFFICES ASSUME Buffer!Init PROVE BufferOK
  OBVIOUS
<1>1. pushed = 0 /\ drained = 0
  BY Zenon DEF Buffer!Init
<1>2. PICK u \in BOOLEAN :
         buf = [usesFile |-> u, mem |-> <<>>, file |-> <<>>, off |-> 0, fd |-> FALSE, on |-> TRUE]
  BY Zenon DEF Buffer!Init
<1>3. <<>> \in Seq(Nat) /\ Len(<<>>) = 0 /\ 0 \in Nat
  BY SMT
<1>4. buf \in BufferType
  BY <1>2, <1>3, Zenon DEF BufferType
<1>5. buf.mem = <<>> /\ buf.file = <<>> /\ buf.off = 0 /\ buf.fd = FALSE
  BY <1>2, Zenon
<1>6. 0 <= 0 /\ 0 + 0 + (0 - 0) = 0 /\ 0 <= MemThreshold /\ ~(0 < 0) /\ (\A j \in 1 .. 0 - 0 : FALSE)
  BY Threshold0, SMT
<1>7. Holding(buf, drained, pushed)
  BY <1>1, <1>3, <1>5, <1>6, Zenon DEF Holding, Follows
<1>8. NoOvertaking(buf)
  BY <1>3, <1>5, <1>6, Zenon DEF NoOvertaking
<1> QED BY <1>1, <1>3, <1>4, <1>7, <1>8, Zenon DEF BufferOK

\* What the memory takes of a push: all of it, or what it has room for; nothing as long as the file
\* holds older bytes, if it could be read.
LEMMA RoomForPush ==
  ASSUME NEW b \in BufferType, NEW d \in Nat, NEW p \in Nat, Holding(b, d, p), NEW n \in Nat
  PROVE  LET k == Buffer!TransferMem2Mem(b, n) IN
         /\ k \in Nat /\ k <= n
         /\ b.usesFile => Len(b.mem) + k <= MemThreshold
         /\ NoOvertaking(b) => k = 0 \/ Len(b.file) = b.off
         /\ k < n => b.usesFile /\ MemThreshold <= Len(b.mem) + k
<1> DEFINE k == Buffer!TransferMem2Mem(b, n)
<1>1. /\ Len(b.mem) \in Nat /\ Len(b.file) \in Nat /\ b.off \in Nat
  BY BufferFields, Zenon
<1>2. /\ b.off <= Len(b.file)
      /\ b.usesFile => Len(b.mem) <= MemThreshold
      /\ ~b.usesFile => Len(b.file) = b.off
      /\ NoOvertaking(b) /\ b.off < Len(b.file) => MemThreshold <= Len(b.mem)
  BY Zenon DEF Holding, NoOvertaking
<1>3. CASE b.usesFile
  <2>1. k = Buffer!Least(MemThreshold - Len(b.mem), n)
    BY <1>3, Zenon DEF Buffer!TransferMem2Mem, Buffer!GetFreeMemSpace
  <2>2. \A i, h \in Nat : i <= h =>
           /\ Buffer!Least(h - i, n) \in Nat /\ Buffer!Least(h - i, n) <= n
           /\ i + Buffer!Least(h - i, n) <= h
           /\ Buffer!Least(h - i, n) < n => h <= i + Buffer!Least(h - i, n)
           /\ h <= i => Buffer!Least(h - i, n) = 0
    BY SMT DEF Buffer!Least
  <2>3. ~(b.off < Len(b.file)) => Len(b.file) = b.off
    BY <1>1, <1>2, SMT
  <2> HIDE DEF k
  <2>4. Len(b.mem) <= MemThreshold
    BY <1>2, <1>3, Zenon
  <2>5. /\ k \in Nat /\ k <= n /\ Len(b.mem) + k <= MemThreshold
        /\ k < n => MemThreshold <= Len(b.mem) + k
        /\ MemThreshold <= Len(b.mem) => k = 0
    BY <1>1, <2>1, <2>2, <2>4, Threshold0, Zenon
  <2> QED BY <1>2, <1>3, <2>3, <2>5, Zenon DEF k
<1>4. CASE ~b.usesFile
  <2>1. k = n /\ Len(b.file) = b.off
    BY <1>2, <1>4, Zenon DEF Buffer!TransferMem2Mem
  <2>2. n <= n /\ ~(n < n)
    BY SMT
  <2> QED BY <1>4, <2>1, <2>2, Zenon
<1> QED BY <1>3, <1>4, Zenon

LEMMA PushHolds == ASSUME BufferOK, NEW n \in 1 .. MaxPush, Buffer!Push(n) PROVE BufferOK'
<1> SUFFICES ASSUME buf'.on, ~overtaken'
             PROVE  /\ buf' \in BufferType /\ pushed' \in Nat /\ drained' \in Nat
                    /\ Holding(buf', drained', pushed') /\ (~unread' => NoOvertaking(buf'))
  BY Zenon DEF BufferOK
<1> DEFINE data == Buffer!Bytes(pushed + 1, n)
           k == Buffer!TransferMem2Mem(buf, n)
           x == SubSeq(data, 1, k)
           b == Buffer!MemPush(buf, x)
           rest == Buffer!From(data, k)
           s == Buffer!Stripped(b, Len(rest))
           handle == buf' = b \/ (\E y \in {b, s} : \E open \in BOOLEAN : buf' = [y EXCEPT !.fd = open])
<1>1. /\ buf.on /\ drained' = drained /\ overtaken' = (overtaken \/ (unread /\ k > 0 /\ Buffer!Unread(buf) > 0))
      /\ \/ rest = <<>> /\ buf' = b /\ pushed' = pushed + k /\ unread' = unread
         \/ /\ rest # <<>> /\ Len(s.file) < MaxFileSize /\ buf' = Buffer!WriteInFile(s, rest)
            /\ pushed' = pushed + (k + Buffer!Written(s, Len(rest))) /\ unread' = unread
         \/ rest # <<>> /\ pushed' = pushed + k /\ handle
  BY Zenon DEF Buffer!Push, Buffer!Took, Buffer!WriteFailed
<1> HIDE DEF data, k, b, rest, s, x, handle
<1>2. ~overtaken /\ ~(unread /\ k > 0 /\ Buffer!Unread(buf) > 0)
  BY <1>1, Zenon
<1>3. /\ buf \in BufferType /\ pushed \in Nat /\ drained \in Nat
      /\ Holding(buf, drained, pushed) /\ (~unread => NoOvertaking(buf))
  BY <1>1, <1>2, Zenon DEF BufferOK
<1>4. n \in Nat /\ pushed + n \in Nat
  BY <1>3, Threshold0, SMT
<1>5. data \in Seq(Nat) /\ Len(data) = n /\ Follows(data, 0, pushed)
  BY <1>3, <1>4, BytesFollow, Zenon DEF data
<1>6. /\ k \in Nat /\ k <= n
      /\ buf.usesFile => Len(buf.mem) + k <= MemThreshold
      /\ k = 0 \/ Len(buf.file) = buf.off
      /\ k < n => buf.usesFile /\ MemThreshold <= Len(buf.mem) + k
  <2>1. /\ k \in Nat /\ k <= n
        /\ buf.usesFile => Len(buf.mem) + k <= MemThreshold
        /\ NoOvertaking(buf) => k = 0 \/ Len(buf.file) = buf.off
        /\ k < n => buf.usesFile /\ MemThreshold <= Len(buf.mem) + k
    BY <1>3, <1>4, RoomForPush, Zenon DEF k
  <2>2. Len(buf.file) \in Nat /\ buf.off \in Nat /\ buf.off <= Len(buf.file)
    BY <1>3, BufferFields, Zenon DEF Holding
  <2>3. ~(k > 0) => k = 0
    BY <2>1, SMT
  <2>4. ~(Buffer!Unread(buf) > 0) => Len(buf.file) = buf.off
    BY <2>2, SMT DEF Buffer!Unread
  <2> QED BY <1>2, <1>3, <2>1, <2>3, <2>4, Zenon
<1>7. x \in Seq(Nat) /\ Len(x) = k /\ Follows(x, 0, pushed)
  <2>1. 0 \in Nat /\ 0 <= 0 /\ 0 <= k /\ 0 + 1 = 1 /\ k - 0 = k /\ pushed + (0 - 0) = pushed
    BY <1>3, <1>6, SMT
  <2>2. /\ SubSeq(data, 0 + 1, k) \in Seq(Nat) /\ Len(SubSeq(data, 0 + 1, k)) = k - 0
        /\ Follows(SubSeq(data, 0 + 1, k), 0, pushed + (0 - 0))
    BY <1>3, <1>5, <1>6, <2>1, PieceFollows, Zenon
  <2> QED BY <2>1, <2>2, Zenon DEF x
<1>8. rest \in Seq(Nat) /\ Len(rest) = n - k /\ Follows(rest, 0, pushed + k)
  <2>1. 0 \in Nat /\ 0 <= k /\ n <= Len(data) /\ k - 0 = k
    BY <1>4, <1>5, <1>6, SMT
  <2>2. /\ SubSeq(data, k + 1, n) \in Seq(Nat) /\ Len(SubSeq(data, k + 1, n)) = n - k
        /\ Follows(SubSeq(data, k + 1, n), 0, pushed + (k - 0))
    <3>1. data \in Seq(Nat) /\ Follows(data, 0, pushed) /\ pushed \in Nat /\ k \in Nat /\ n \in Nat /\ k <= n
      BY <1>3, <1>4, <1>5, <1>6, Zenon
    <3> QED BY <2>1, <3>1, PieceFollows, Zenon
  <2>3. rest = SubSeq(data, k + 1, n)
    BY <1>5, Zenon DEF rest, Buffer!From
  <2> QED BY <2>1, <2>2, <2>3, Zenon
<1>9. /\ b \in BufferType /\ Holding(b, drained, pushed + k) /\ Len(b.mem) = Len(buf.mem) + k
      /\ b.usesFile = buf.usesFile /\ b.file = buf.file /\ b.off = buf.off /\ b.on = buf.on
  <2>1. Follows(x, 0, drained + Len(buf.mem))
    <3>1. CASE k = 0
      <4>1. \A j \in 1 .. Len(x) - 0 : FALSE
        BY <1>7, <3>1, SMT
      <4> QED BY <4>1, Zenon DEF Follows
    <3>2. CASE Len(buf.file) = buf.off
      <4>1. drained + Len(buf.mem) + (Len(buf.file) - buf.off) = pushed
        BY <1>3, Zenon DEF Holding
      <4>2. Len(buf.mem) \in Nat /\ buf.off \in Nat
        BY <1>3, BufferFields, Zenon
      <4>3. drained + Len(buf.mem) = pushed
        BY <1>3, <3>2, <4>1, <4>2, SMT
      <4> QED BY <1>7, <4>3, Zenon
    <3> QED BY <1>6, <3>1, <3>2, Zenon
  <2>2. Len(x) = 0 \/ Len(buf.file) = buf.off
    BY <1>6, <1>7, Zenon
  <2>3. buf.usesFile => Len(buf.mem) + Len(x) <= MemThreshold
    BY <1>6, <1>7, Zenon
  <2>4. /\ b \in BufferType /\ Holding(b, drained, pushed + Len(x)) /\ Len(b.mem) = Len(buf.mem) + Len(x)
        /\ b.usesFile = buf.usesFile /\ b.file = buf.file /\ b.off = buf.off /\ b.on = buf.on
    BY <1>3, <1>7, <2>1, <2>2, <2>3, MemPushHolds, Zenon DEF b
  <2> QED BY <1>7, <2>4, Zenon
<1>10. CASE rest = <<>> /\ buf' = b /\ pushed' = pushed + k /\ unread' = unread
  <2>1. k = n
    <3>1. Len(rest) = 0
      BY <1>10, SMT
    <3> QED BY <1>4, <1>6, <1>8, <3>1, SMT
  <2>2. ~unread => NoOvertaking(b)
    <3> SUFFICES ASSUME ~unread PROVE NoOvertaking(b)
      OBVIOUS
    <3>1. Len(buf.mem) \in Nat /\ Len(buf.file) \in Nat /\ buf.off \in Nat
      BY <1>3, BufferFields, Zenon
    <3>2. b.off < Len(b.file) => MemThreshold <= Len(buf.mem)
      BY <1>3, <1>9, Zenon DEF NoOvertaking
    <3>3. MemThreshold <= Len(buf.mem) => MemThreshold <= Len(buf.mem) + k
      BY <1>6, <3>1, Threshold0, SMT
    <3> QED BY <1>9, <3>2, <3>3, Zenon DEF NoOvertaking
  <2> QED BY <1>1, <1>3, <1>4, <1>9, <1>10, <2>1, <2>2, Zenon
<1>11. CASE /\ rest # <<>>
            /\ \/ /\ Len(s.file) < MaxFileSize /\ buf' = Buffer!WriteInFile(s, rest)
                  /\ pushed' = pushed + (k + Buffer!Written(s, Len(rest)))
               \/ pushed' = pushed + k /\ handle
  <2>1. pushed + k \in Nat
    BY <1>3, <1>6, SMT
  <2>2. /\ s \in BufferType /\ Holding(s, drained, pushed + k)
        /\ s.mem = b.mem /\ s.usesFile = b.usesFile /\ s.on = b.on
    BY <1>3, <1>9, <2>1, StrippedHolds, Zenon DEF s
  <2>4. k < n
    <3>1. Len(rest) # 0
      BY <1>8, <1>11, EmptySeq, Zenon
    <3> QED BY <1>4, <1>6, <1>8, <3>1, SMT
  <2>5. s.usesFile /\ b.usesFile /\ MemThreshold <= Len(s.mem)
    BY <1>6, <1>9, <2>2, <2>4, Zenon
  <2>6. CASE /\ Len(s.file) < MaxFileSize /\ buf' = Buffer!WriteInFile(s, rest)
             /\ pushed' = pushed + (k + Buffer!Written(s, Len(rest)))
    <3> DEFINE m == Buffer!Written(s, Len(rest))
    <3>1. m \in Nat /\ buf' \in BufferType /\ Holding(buf', drained, (pushed + k) + m) /\ buf'.mem = s.mem
      BY <1>3, <1>8, <2>1, <2>2, <2>5, <2>6, WriteHolds, Zenon
    <3> HIDE DEF m
    <3>2. (pushed + k) + m = pushed + (k + m) /\ pushed + (k + m) \in Nat
      BY <1>3, <1>6, <3>1, SMT
    <3>3. NoOvertaking(buf')
      BY <2>5, <3>1, Zenon DEF NoOvertaking
    <3> QED BY <1>1, <1>3, <2>6, <3>1, <3>2, <3>3, Zenon DEF m
  <2>7. CASE pushed' = pushed + k /\ handle
    <3>1. buf' \in BufferType /\ Holding(buf', drained, pushed + k) /\ buf'.mem = s.mem
      <4>1. ASSUME NEW y \in {b, s}, NEW open \in BOOLEAN, buf' = [y EXCEPT !.fd = open]
            PROVE  buf' \in BufferType /\ Holding(buf', drained, pushed + k) /\ buf'.mem = s.mem
        BY <1>3, <1>9, <2>1, <2>2, <2>5, <4>1, HandleHolds, Zenon
      <4> QED BY <1>9, <2>2, <2>7, <4>1, Zenon DEF handle
    <3>2. NoOvertaking(buf')
      BY <2>5, <3>1, Zenon DEF NoOvertaking
    <3> QED BY <1>1, <1>3, <2>1, <2>7, <3>1, <3>2, Zenon
  <2> QED BY <1>11, <2>6, <2>7, Zenon
<1> QED BY <1>1, <1>10, <1>11, Zenon

LEMMA ReadOutHolds == BufferOK /\ Buffer!ReadOut => BufferOK'
<1> SUFFICES ASSUME BufferOK, Buffer!ReadOut, buf'.on, ~overtaken'
             PROVE  /\ buf' \in BufferType /\ pushed' \in Nat /\ drained' \in Nat
                    /\ Holding(buf', drained', pushed') /\ (~unread' => NoOvertaking(buf'))
  BY Zenon DEF BufferOK
<1> DEFINE p == Buffer!TransferFile2Mem(buf)
<1>1. /\ buf.on /\ pushed' = pushed /\ overtaken' = overtaken
      /\ \/ \E r \in 1 .. Len(p.mem) : \E d \in Buffer!Drained(p, r) :
              buf' = d[1] /\ drained' = drained + r /\ unread' = ~d[2]
         \/ buf' = Buffer!Closed(buf)
  BY Zenon DEF Buffer!ReadOut
<1>3. buf \in BufferType /\ pushed \in Nat /\ drained \in Nat /\ Holding(buf, drained, pushed)
  BY <1>1, Zenon DEF BufferOK
<1>4. p \in BufferType /\ Holding(p, drained, pushed)
  BY <1>3, TransferHolds, Zenon
<1> HIDE DEF p
<1>5. ASSUME NEW r \in 1 .. Len(p.mem), NEW d \in Buffer!Drained(p, r), buf' = d[1], drained' = drained + r,
             unread' = ~d[2]
      PROVE  /\ buf' \in BufferType /\ drained' \in Nat
             /\ Holding(buf', drained', pushed') /\ (~unread' => NoOvertaking(buf'))
  <2> DEFINE m == Buffer!MemDrain(p, r)
  <2>1. r \in Nat /\ r <= Len(p.mem) /\ drained + r \in Nat
    <3>1. Len(p.mem) \in Nat
      BY <1>4, BufferFields, Zenon
    <3> QED BY <1>3, <3>1, SMT
  <2>2. m \in BufferType /\ Holding(m, drained + r, pushed)
    BY <1>3, <1>4, <2>1, MemDrainHolds, Zenon
  <2>3. Len(m.file) \in Nat /\ m.off \in Nat
    BY <2>2, BufferFields, Zenon
  <2>4. d = <<Buffer!TransferFile2Mem(m), m.fd \/ Buffer!Unread(m) = 0>> \/ d = <<m, Buffer!Unread(m) = 0>>
    BY Zenon DEF Buffer!Drained
  <2> HIDE DEF m
  <2>7. Buffer!Unread(m) = 0 => Len(m.file) = m.off /\ ~(m.off < Len(m.file))
    BY <2>3, SMT DEF Buffer!Unread
  <2>5. CASE d = <<Buffer!TransferFile2Mem(m), m.fd \/ Buffer!Unread(m) = 0>>
    <3>1. buf' = Buffer!TransferFile2Mem(m) /\ unread' = ~(m.fd \/ Buffer!Unread(m) = 0)
      BY <1>5, <2>5, Zenon
    <3>2. Buffer!TransferFile2Mem(m) \in BufferType /\ Holding(Buffer!TransferFile2Mem(m), drained + r, pushed)
          /\ (m.fd \/ Len(m.file) = m.off => NoOvertaking(Buffer!TransferFile2Mem(m)))
      BY <1>3, <2>1, <2>2, TransferHolds, Zenon
    <3> QED BY <1>1, <1>5, <2>1, <2>7, <3>1, <3>2, Zenon
  <2>6. CASE d = <<m, Buffer!Unread(m) = 0>>
    <3>1. buf' = m /\ unread' = ~(Buffer!Unread(m) = 0)
      BY <1>5, <2>6, Zenon
    <3> QED BY <1>1, <1>5, <2>1, <2>2, <2>7, <3>1, Zenon DEF NoOvertaking
  <2> QED BY <2>4, <2>5, <2>6, Zenon
<1>6. CASE buf' = Buffer!Closed(buf)
  <2>1. buf'.on = FALSE
    BY <1>3, <1>6, Zenon DEF Buffer!Closed, BufferType
  <2> QED BY <2>1, Zenon
<1> QED BY <1>1, <1>3, <1>5, <1>6, Zenon

\* What a buffer holds is what it took and its client has not, in order, whatever the order of pushes, drains
\* and strips and the moments at which the memory or the file is full or a file call fails, unless new data was put
\* in between a read of the file that failed and the next one (MemfileBuffer::push, peek, drain).
THEOREM BuffersInOrder == Buffer!Spec => []BufferInOrder
<1>1. BufferOK /\ [Buffer!Next]_Buffer!bufferVars => BufferOK'
  <2>1. ASSUME BufferOK, UNCHANGED Buffer!bufferVars PROVE BufferOK'
    BY <2>1, Zenon DEF Buffer!bufferVars, BufferOK
  <2>2. ASSUME BufferOK, Buffer!Next PROVE BufferOK'
    <3>1. ASSUME NEW n \in 1 .. MaxPush, Buffer!DataAfterFailedPeek(n) PROVE BufferOK'
      <4>1. buf' = buf /\ drained' = drained /\ unread' = unread /\ overtaken' = overtaken /\ pushed' = pushed + 0
        BY <3>1, Zenon DEF Buffer!DataAfterFailedPeek, Buffer!Took
      <4>2. pushed \in Nat => pushed + 0 = pushed
        BY SMT
      <4> QED BY <2>2, <4>1, <4>2, Zenon DEF BufferOK
    <3> QED BY <2>2, <3>1, ReadOutHolds, PushHolds, Zenon DEF Buffer!Next
  <2> QED BY <2>1, <2>2, Zenon
<1>2. BufferOK => BufferInOrder
  <2> SUFFICES ASSUME BufferOK, buf.on, ~overtaken
               PROVE  /\ Buffer!Kept = Buffer!Bytes(drained + 1, pushed - drained)
                      /\ buf.usesFile => Len(buf.mem) <= MemThreshold
    BY Zenon DEF BufferInOrder, Buffer!BufferInOrder
  <2> DEFINE f == SubSeq(buf.file, buf.off + 1, Len(buf.file))
             kept == buf.mem \o f
             e == drained + Len(buf.mem)
  <2>1. buf \in BufferType /\ pushed \in Nat /\ drained \in Nat /\ Holding(buf, drained, pushed)
    BY Zenon DEF BufferOK
  <2>2. /\ buf.mem \in Seq(Nat) /\ buf.file \in Seq(Nat) /\ buf.off \in Nat
        /\ Len(buf.mem) \in Nat /\ Len(buf.file) \in Nat
    BY <2>1, BufferFields, Zenon
  <2>3. /\ buf.off <= Len(buf.file) /\ e + (Len(buf.file) - buf.off) = pushed
        /\ Follows(buf.mem, 0, drained) /\ Follows(buf.file, buf.off, e)
        /\ buf.usesFile => Len(buf.mem) <= MemThreshold
    BY <2>1, Zenon DEF Holding
  <2>4. /\ e \in Nat /\ buf.off <= buf.off /\ Len(buf.file) <= Len(buf.file) /\ e + (buf.off - buf.off) = e
        /\ 0 \in Nat /\ 0 <= Len(buf.mem) /\ Len(buf.mem) - 0 = Len(buf.mem)
    BY <2>1, <2>2, SMT
  <2>5. f \in Seq(Nat) /\ Len(f) = Len(buf.file) - buf.off /\ Follows(f, 0, e)
    <3> HIDE DEF e
    <3>1. f \in Seq(Nat) /\ Len(f) = Len(buf.file) - buf.off /\ Follows(f, 0, e + (buf.off - buf.off))
      BY <2>2, <2>3, <2>4, PieceFollows, Zenon
    <3> QED BY <2>4, <3>1, Zenon
  <2>6. kept \in Seq(Nat) /\ Len(kept) = Len(buf.mem) + Len(f) /\ Follows(kept, 0, drained)
    <3>1. Follows(f, 0, drained + (Len(buf.mem) - 0))
      BY <2>4, <2>5, Zenon
    <3> HIDE DEF f, e
    <3> QED BY <2>1, <2>2, <2>3, <2>4, <2>5, <3>1, JoinFollows, Zenon
  <2>7. Len(kept) = pushed - drained
    BY <2>1, <2>2, <2>3, <2>5, <2>6, SMT
  <2>8. Buffer!Kept = kept
    BY Zenon DEF Buffer!Kept, Buffer!From
  <2> HIDE DEF kept, f, e
  <2> QED BY <2>1, <2>3, <2>6, <2>7, <2>8, FollowsIsBytes, Zenon
<1> QED BY <1>1, <1>2, BufferInit, PTL DEF Buffer!Spec

-----------------------------------------------------------------------------
(* The HTTP/2 upstream.                                                    *)

H2Conn ==
    [on : BOOLEAN, stream : {"open", "closed"}, read : BOOLEAN, fin : BOOLEAN, clientClosed : BOOLEAN,
     err : BOOLEAN, unread : Nat, closeTask : BOOLEAN, readTask : BOOLEAN]
H2Known == {"none", "waiting", "open", "gone"}
H2Type ==
    [sess : {"none", "connecting", "up"}, inh : BOOLEAN, closed : BOOLEAN, err : BOOLEAN,
     conn : [H2Conns -> H2Conn], health : {"none", "stream", "unsent"}, stray : {"none", "open", "reset"},
     tun : [H2Conns -> H2Known], again : BOOLEAN]

\* The connection k of which the tunnel knows t: the tunnel has it when the upstream does, what was kept
\* has its task, and a stream that has ended is kept only with data.
H2Kept(k, t) ==
    /\ k.on <=> t \in {"waiting", "open"}
    /\ ~k.on => k = H2!NoConn
    /\ k.read /\ k.unread > 0 => k.readTask
    /\ k.on /\ k.stream = "closed" => k.unread > 0

\* The upstream: only a session that is up has connections, and only its socket is being handled.
H2Well(h) ==
    /\ h \in H2Type /\ h.again = FALSE
    /\ \A c \in H2Conns : H2Kept(h.conn[c], h.tun[c])
    /\ h.inh => h.sess = "up"
    /\ h.sess # "up" => \A c \in H2Conns : ~h.conn[c].on

H2OK ==
    /\ H2Well(h2) /\ room \in [H2Conns -> Nat]
    /\ owner \in {"none", "closed", "error"} => h2.sess = "none"

\* The upstream g differs from h in the connection c only.
H2Same(h, g, c) ==
    /\ g \in H2Type /\ g.sess = h.sess /\ g.inh = h.inh /\ g.again = h.again
    /\ \A d \in H2Conns : d # c => g.conn[d] = h.conn[d] /\ g.tun[d] = h.tun[d]

\* The same, with the connection well and not new.
H2Touch(h, g, c) ==
    /\ H2Same(h, g, c) /\ H2Kept(g.conn[c], g.tun[c])
    /\ g.conn[c].on => h.conn[c].on

LEMMA H2Fields ==
  ASSUME NEW h \in H2Type, NEW c \in H2Conns
  PROVE  /\ h.conn[c] \in H2Conn /\ h.tun[c] \in H2Known /\ h.again \in BOOLEAN /\ h.inh \in BOOLEAN
         /\ h.conn \in [H2Conns -> H2Conn] /\ h.tun \in [H2Conns -> H2Known]
BY Zenon DEF H2Type

LEMMA H2ConnFields ==
  ASSUME NEW k \in H2Conn
  PROVE  /\ k.on \in BOOLEAN /\ k.stream \in {"open", "closed"} /\ k.read \in BOOLEAN /\ k.fin \in BOOLEAN
         /\ k.clientClosed \in BOOLEAN /\ k.err \in BOOLEAN /\ k.unread \in Nat
         /\ k.closeTask \in BOOLEAN /\ k.readTask \in BOOLEAN
BY Zenon DEF H2Conn

LEMMA H2NoConn ==
  /\ H2!NoConn \in H2Conn /\ H2!NoConn.on = FALSE /\ H2!NoConn.read = FALSE /\ H2!NoConn.readTask = FALSE
  /\ H2!NoConn.closeTask = FALSE
  /\ H2!NoConn.stream = "closed" /\ \A t \in {"none", "gone"} : H2Kept(H2!NoConn, t)
<1>1. 0 \in Nat
  BY SMT
<1>2. /\ H2!NoConn \in H2Conn /\ H2!NoConn.on = FALSE /\ H2!NoConn.read = FALSE
      /\ H2!NoConn.readTask = FALSE /\ H2!NoConn.closeTask = FALSE /\ H2!NoConn.stream = "closed"
  BY <1>1, Zenon DEF H2!NoConn, H2Conn
<1>3. \A t \in {"none", "gone"} : t \notin {"waiting", "open"}
  BY SMT
<1> QED BY <1>2, <1>3, Zenon DEF H2Kept

LEMMA H2SetConn ==
  ASSUME NEW h \in H2Type, NEW c \in H2Conns, NEW k \in H2Conn
  PROVE  LET g == [h EXCEPT !.conn[c] = k] IN
         H2Same(h, g, c) /\ g.conn[c] = k /\ g.tun = h.tun
<1> DEFINE g == [h EXCEPT !.conn[c] = k]
<1>1. /\ g \in H2Type /\ g.conn = [h.conn EXCEPT ![c] = k] /\ g.tun = h.tun
      /\ g.again = h.again /\ g.sess = h.sess /\ g.inh = h.inh
  BY Zenon DEF H2Type
<1>2. h.conn \in [H2Conns -> H2Conn]
  BY H2Fields, Zenon
<1> HIDE DEF g
<1>3. g.conn[c] = k /\ \A d \in H2Conns : d # c => g.conn[d] = h.conn[d]
  BY <1>1, <1>2, Zenon
<1> QED BY <1>1, <1>3, Zenon DEF H2Same, g

LEMMA H2SameTrans ==
  ASSUME NEW h, NEW g, NEW f, NEW c \in H2Conns, H2Same(h, g, c), H2Same(g, f, c)
  PROVE  H2Same(h, f, c)
BY Zenon DEF H2Same

LEMMA H2TouchWell ==
  ASSUME NEW h, NEW g, NEW c \in H2Conns, H2Well(h), H2Touch(h, g, c)
  PROVE  H2Well(g)
<1>1. \A d \in H2Conns : H2Kept(g.conn[d], g.tun[d]) /\ (g.conn[d].on => h.conn[d].on)
  <2> SUFFICES ASSUME NEW d \in H2Conns
               PROVE  H2Kept(g.conn[d], g.tun[d]) /\ (g.conn[d].on => h.conn[d].on)
    BY Zenon
  <2>1. CASE d = c
    BY <2>1, Zenon DEF H2Touch
  <2>2. CASE d # c
    BY <2>2, Zenon DEF H2Touch, H2Same, H2Well
  <2> QED BY <2>1, <2>2, Zenon
<1>2. g \in H2Type /\ g.again = FALSE /\ g.sess = h.sess /\ g.inh = h.inh
  BY Zenon DEF H2Touch, H2Same, H2Well
<1> QED BY <1>1, <1>2, Zenon DEF H2Well

LEMMA H2Gone ==
  ASSUME NEW h \in H2Type, NEW c \in H2Conns, h.again = FALSE, h.tun[c] \in {"waiting", "open"}
  PROVE  /\ H2Same(h, H2!Gone(h, c), c) /\ H2!Gone(h, c).conn[c] = H2!NoConn
         /\ H2!Gone(h, c).tun[c] = "gone" /\ H2Kept(H2!NoConn, "gone")
<1> DEFINE g == H2!Gone(h, c)
           b == (h.again \/ h.tun[c] \notin {"waiting", "open"})
<1>1. b = FALSE /\ b \in BOOLEAN
  BY Zenon
<1>2. "gone" \in H2Known
  BY Zenon DEF H2Known
<1>3. g = [h EXCEPT !.conn[c] = H2!NoConn, !.tun[c] = "gone", !.again = b]
  BY Zenon DEF H2!Gone
<1> HIDE DEF b
<1>4. /\ g \in H2Type /\ g.conn = [h.conn EXCEPT ![c] = H2!NoConn] /\ g.tun = [h.tun EXCEPT ![c] = "gone"]
      /\ g.again = b /\ g.sess = h.sess /\ g.inh = h.inh
  <2> HIDE DEF g
  <2> QED BY <1>1, <1>2, <1>3, H2NoConn, Zenon DEF H2Type
<1>5. h.conn \in [H2Conns -> H2Conn] /\ h.tun \in [H2Conns -> H2Known]
  BY H2Fields, Zenon
<1> HIDE DEF g
<1>6. /\ g.conn[c] = H2!NoConn /\ g.tun[c] = "gone"
      /\ \A d \in H2Conns : d # c => g.conn[d] = h.conn[d] /\ g.tun[d] = h.tun[d]
  BY <1>4, <1>5, Zenon
<1> QED BY <1>1, <1>4, <1>6, H2NoConn, Zenon DEF H2Same, g

\* The end of a stream that is reported with an error, or to a client that is gone, is the end of its
\* connection; else it may be postponed.
LEMMA H2Processed ==
  ASSUME NEW h \in H2Type, NEW c \in H2Conns, h.again = FALSE, H2Kept(h.conn[c], h.tun[c]), NEW code \in BOOLEAN
  PROVE  H2Touch(h, H2!StreamProcessed(h, c, code), c)
<1> DEFINE k == h.conn[c]
           g == H2!StreamProcessed(h, c, code)
<1>1. k \in H2Conn /\ k.on \in BOOLEAN /\ k.unread \in Nat
  BY H2Fields, H2ConnFields, Zenon
<1>2. CASE ~k.on
  <2>1. g = h
    BY <1>2, Zenon DEF H2!StreamProcessed
  <2> QED BY <2>1, Zenon DEF H2Touch, H2Same
<1>3. CASE k.on /\ (k.err \/ code \/ k.clientClosed \/ k.unread = 0)
  <2>1. g = H2!Gone(h, c)
    BY <1>3, Zenon DEF H2!StreamProcessed
  <2>2. h.tun[c] \in {"waiting", "open"}
    BY <1>3, Zenon DEF H2Kept
  <2> QED BY <2>1, <2>2, H2Gone, H2NoConn, Zenon DEF H2Touch
<1>4. CASE k.on /\ ~(k.err \/ code \/ k.clientClosed \/ k.unread = 0)
  <2> DEFINE n == [k EXCEPT !.stream = "closed"]
  <2>1. g = [h EXCEPT !.conn[c] = n]
    BY <1>4, Zenon DEF H2!StreamProcessed
  <2>2. n \in H2Conn
    BY <1>1, Zenon DEF H2Conn
  <2>3. n.on = k.on /\ n.read = k.read /\ n.unread = k.unread /\ n.readTask = k.readTask
    BY <1>1, Zenon DEF H2Conn
  <2>4. k.unread > 0
    BY <1>1, <1>4, SMT
  <2> HIDE DEF n
  <2>5. H2Kept(n, h.tun[c])
    BY <1>4, <2>3, <2>4, Zenon DEF H2Kept
  <2>6. H2Same(h, g, c) /\ g.conn[c] = n /\ g.tun = h.tun
    <3> HIDE DEF g
    <3> QED BY <2>1, <2>2, H2SetConn, Zenon
  <2> QED BY <1>4, <2>3, <2>5, <2>6, Zenon DEF H2Touch
<1> QED BY <1>1, <1>2, <1>3, <1>4, Zenon

\* A flag of a connection that says nothing of its data.
LEMMA H2ClientClosed ==
  ASSUME NEW h \in H2Type, NEW c \in H2Conns, h.conn[c].on
  PROVE  LET g == [h EXCEPT !.conn[c].clientClosed = TRUE] IN
         /\ H2Same(h, g, c) /\ g.tun = h.tun /\ g.conn[c].on /\ g.conn[c].clientClosed
         /\ H2Kept(h.conn[c], h.tun[c]) => H2Kept(g.conn[c], h.tun[c])
<1> DEFINE k == h.conn[c]
           n == [k EXCEPT !.clientClosed = TRUE]
           g == [h EXCEPT !.conn[c].clientClosed = TRUE]
<1>1. k \in H2Conn
  BY H2Fields, Zenon
<1>2. g = [h EXCEPT !.conn[c] = n]
  BY Zenon DEF H2Type
<1>3. n \in H2Conn
  BY <1>1, Zenon DEF H2Conn
<1>4. /\ n.on = k.on /\ n.read = k.read /\ n.unread = k.unread /\ n.readTask = k.readTask
      /\ n.stream = k.stream /\ n.clientClosed = TRUE
  BY <1>1, Zenon DEF H2Conn
<1> HIDE DEF n
<1>5. H2Same(h, g, c) /\ g.conn[c] = n /\ g.tun = h.tun
  <2> HIDE DEF g
  <2> QED BY <1>2, <1>3, H2SetConn, Zenon
<1> HIDE DEF g
<1>6. H2Kept(k, h.tun[c]) => H2Kept(n, h.tun[c])
  BY <1>4, Zenon DEF H2Kept
<1> QED BY <1>4, <1>5, <1>6, Zenon DEF g

\* close_tcp_connection without grace ends the connection, whatever was kept for it.
LEMMA H2CloseHard ==
  ASSUME NEW h \in H2Type, NEW c \in H2Conns, h.again = FALSE, h.conn[c].on, h.tun[c] \in {"waiting", "open"}
  PROVE  LET g == H2!CloseTcpConnection(h, c, FALSE) IN
         H2Same(h, g, c) /\ g.conn[c] = H2!NoConn /\ g.tun[c] = "gone"
<1> DEFINE g == H2!CloseTcpConnection(h, c, FALSE)
           m == [h EXCEPT !.conn[c].clientClosed = TRUE]
<1>1. CASE h.conn[c].stream = "open"
  <2>1. g = H2!StreamProcessed(m, c, ~FALSE)
    BY <1>1, Zenon DEF H2!CloseTcpConnection, H2!Reset
  <2>2. H2Same(h, m, c) /\ m.tun = h.tun /\ m.conn[c].on /\ m.conn[c].clientClosed
    BY H2ClientClosed, Zenon
  <2> HIDE DEF m
  <2>3. g = H2!Gone(m, c)
    BY <2>1, <2>2, Zenon DEF H2!StreamProcessed
  <2>4. m \in H2Type /\ m.again = FALSE /\ m.tun[c] \in {"waiting", "open"}
    BY <2>2, Zenon DEF H2Same
  <2>5. H2Same(m, g, c) /\ g.conn[c] = H2!NoConn /\ g.tun[c] = "gone"
    BY <2>3, <2>4, H2Gone, Zenon
  <2> QED BY <2>2, <2>5, H2SameTrans, Zenon
<1>2. CASE h.conn[c].stream # "open"
  <2>1. g = H2!Gone(h, c)
    BY <1>2, Zenon DEF H2!CloseTcpConnection
  <2> QED BY <2>1, H2Gone, Zenon
<1> QED BY <1>1, <1>2, Zenon

LEMMA H2CloseTcp ==
  ASSUME NEW h \in H2Type, NEW c \in H2Conns, h.again = FALSE, H2Kept(h.conn[c], h.tun[c]), NEW graceful \in BOOLEAN
  PROVE  H2Touch(h, H2!CloseTcpConnection(h, c, graceful), c)
<1> DEFINE g == H2!CloseTcpConnection(h, c, graceful)
           m == [h EXCEPT !.conn[c].clientClosed = TRUE]
<1>1. CASE ~h.conn[c].on
  <2>1. g = h
    BY <1>1, Zenon DEF H2!CloseTcpConnection
  <2> QED BY <2>1, Zenon DEF H2Touch, H2Same
<1>2. CASE h.conn[c].on /\ h.conn[c].stream = "open"
  <2>1. g = H2!StreamProcessed(m, c, ~graceful)
    BY <1>2, Zenon DEF H2!CloseTcpConnection, H2!Reset
  <2>2. H2Same(h, m, c) /\ m.tun = h.tun /\ m.conn[c].on /\ H2Kept(m.conn[c], h.tun[c])
    BY <1>2, H2ClientClosed, Zenon
  <2>3. (~graceful) \in BOOLEAN
    BY Zenon
  <2> HIDE DEF m
  <2>4. m \in H2Type /\ m.again = FALSE /\ H2Kept(m.conn[c], m.tun[c])
    BY <2>2, Zenon DEF H2Same
  <2>5. H2Touch(m, g, c)
    BY <2>1, <2>3, <2>4, H2Processed, Zenon
  <2> QED BY <1>2, <2>2, <2>5, H2SameTrans, Zenon DEF H2Touch
<1>3. CASE h.conn[c].on /\ h.conn[c].stream # "open"
  <2>1. g = H2!Gone(h, c)
    BY <1>3, Zenon DEF H2!CloseTcpConnection
  <2>2. h.tun[c] \in {"waiting", "open"}
    BY <1>3, Zenon DEF H2Kept
  <2> QED BY <2>1, <2>2, H2Gone, H2NoConn, Zenon DEF H2Touch
<1> QED BY <1>1, <1>2, <1>3, Zenon

\* close_session: nothing is left, and each connection was reported.
LEMMA H2CloseSession ==
  ASSUME NEW h, H2Well(h), ~h.inh
  PROVE  H2Well(H2!CloseSession(h)) /\ H2!CloseSession(h).sess = "none"
<1> DEFINE closed == [c \in H2Conns |-> H2!CloseTcpConnection(h, c, FALSE)]
           cs == [c \in H2Conns |-> closed[c].conn[c]]
           ts == [c \in H2Conns |-> closed[c].tun[c]]
           b == (\E c \in H2Conns : closed[c].again)
           g == H2!CloseSession(h)
<1>1. h \in H2Type /\ h.again = FALSE
  BY Zenon DEF H2Well
<1>2. ASSUME NEW c \in H2Conns
      PROVE  closed[c] = H2!CloseTcpConnection(h, c, FALSE) /\ H2Touch(h, closed[c], c) /\ ~closed[c].conn[c].on
  <2>1. H2Kept(h.conn[c], h.tun[c]) /\ FALSE \in BOOLEAN
    BY Zenon DEF H2Well
  <2>2. closed[c] = H2!CloseTcpConnection(h, c, FALSE)
    BY Zenon
  <2> HIDE DEF closed
  <2>3. H2Touch(h, closed[c], c)
    BY <1>1, <2>1, <2>2, H2CloseTcp, Zenon
  <2>4. CASE ~h.conn[c].on
    BY <2>2, <2>3, <2>4, Zenon DEF H2Touch
  <2>5. CASE h.conn[c].on
    <3>1. h.tun[c] \in {"waiting", "open"}
      BY <2>1, <2>5, Zenon DEF H2Kept
    <3>2. closed[c].conn[c] = H2!NoConn
      BY <1>1, <2>2, <2>5, <3>1, H2CloseHard, Zenon
    <3> QED BY <2>2, <2>3, <3>2, H2NoConn, Zenon
  <2> QED BY <2>2, <2>3, <2>4, <2>5, Zenon
<1>3. g = [h EXCEPT !.sess = "none", !.health = "none", !.stray = "none", !.conn = cs, !.tun = ts, !.again = b]
  BY Zenon DEF H2!CloseSession
<1> HIDE DEF closed
<1>4. b = FALSE
  BY <1>1, <1>2, Zenon DEF H2Touch, H2Same
<1>5. cs \in [H2Conns -> H2Conn] /\ ts \in [H2Conns -> H2Known]
  <2>1. \A c \in H2Conns : closed[c].conn[c] \in H2Conn /\ closed[c].tun[c] \in H2Known
    BY <1>2, H2Fields, Zenon DEF H2Touch, H2Same
  <2> QED BY <2>1, Zenon
<1>6. \A c \in H2Conns : H2Kept(cs[c], ts[c]) /\ ~cs[c].on
  BY <1>2, Zenon DEF H2Touch
<1> HIDE DEF cs, ts, b, g
<1>7. g \in H2Type
  BY <1>1, <1>3, <1>4, <1>5, Zenon DEF H2Type
<1>8. g.conn = cs /\ g.tun = ts /\ g.again = b /\ g.sess = "none" /\ g.inh = h.inh
  BY <1>1, <1>3, Zenon DEF H2Type
<1> QED BY <1>4, <1>6, <1>7, <1>8, Zenon DEF H2Well, g

\* update_flow_control with room for r: data that was kept gets its task as soon as reads are on.
LEMMA H2Flow ==
  ASSUME NEW h \in H2Type, NEW c \in H2Conns, NEW r \in Nat
  PROVE  LET g == H2!UpdateFlowControl(h, c, r)
             k == h.conn[c] IN
         /\ H2Same(h, g, c) /\ g.tun = h.tun
         /\ g.conn[c].on = k.on /\ g.conn[c].stream = k.stream /\ g.conn[c].unread = k.unread
         /\ g.conn[c].read = (r > 0)
         /\ g.conn[c].readTask = (k.readTask \/ (r > 0 /\ k.unread > 0))
<1> DEFINE k == h.conn[c]
           g == H2!UpdateFlowControl(h, c, r)
           n == [k EXCEPT !.read = r > 0, !.readTask = k.readTask \/ (r > 0 /\ k.unread > 0)]
<1>1. k \in H2Conn
  BY H2Fields, Zenon
<1>2. (r > 0) \in BOOLEAN /\ (k.readTask \/ (r > 0 /\ k.unread > 0)) \in BOOLEAN
  BY SMT
<1>3. g = [h EXCEPT !.conn[c] = n]
  BY <1>1, Zenon DEF H2!UpdateFlowControl, H2Conn
<1>4. n \in H2Conn
  BY <1>1, <1>2, Zenon DEF H2Conn
<1>5. /\ n.on = k.on /\ n.stream = k.stream /\ n.unread = k.unread /\ n.read = (r > 0)
      /\ n.readTask = (k.readTask \/ (r > 0 /\ k.unread > 0))
  BY <1>1, Zenon DEF H2Conn
<1> HIDE DEF n, g
<1>6. H2Same(h, g, c) /\ g.conn[c] = n /\ g.tun = h.tun
  BY <1>3, <1>4, H2SetConn, Zenon
<1> QED BY <1>5, <1>6, Zenon DEF g

LEMMA H2Unread ==
  ASSUME NEW h \in H2Type, NEW c \in H2Conns, NEW v \in Nat
  PROVE  LET g == [h EXCEPT !.conn[c].unread = v]
             k == h.conn[c] IN
         /\ H2Same(h, g, c) /\ g.tun = h.tun
         /\ g.conn[c].on = k.on /\ g.conn[c].stream = k.stream /\ g.conn[c].unread = v
         /\ g.conn[c].read = k.read /\ g.conn[c].readTask = k.readTask
<1> DEFINE k == h.conn[c]
           g == [h EXCEPT !.conn[c].unread = v]
           n == [k EXCEPT !.unread = v]
<1>1. k \in H2Conn
  BY H2Fields, Zenon
<1>2. g = [h EXCEPT !.conn[c] = n]
  BY Zenon DEF H2Type
<1>3. n \in H2Conn
  BY <1>1, Zenon DEF H2Conn
<1>4. /\ n.on = k.on /\ n.read = k.read /\ n.unread = v /\ n.readTask = k.readTask /\ n.stream = k.stream
  BY <1>1, Zenon DEF H2Conn
<1> HIDE DEF n, g
<1>5. H2Same(h, g, c) /\ g.conn[c] = n /\ g.tun = h.tun
  BY <1>2, <1>3, H2SetConn, Zenon
<1> QED BY <1>4, <1>5, Zenon DEF g

LEMMA H2Taken ==
  ASSUME NEW r \in Nat, NEW n \in Nat
  PROVE  /\ H2!Taken(r, n) \in Nat /\ r - H2!Taken(r, n) \in Nat /\ n - H2!Taken(r, n) \in Nat
         /\ r - H2!Taken(r, n) > 0 => n - H2!Taken(r, n) = 0
BY SMT DEF H2!Taken, H2!Min2

\* read_out_pending_data: what it leaves is not to be read.
LEMMA H2ReadOut ==
  ASSUME NEW h \in H2Type, NEW c \in H2Conns, NEW r \in Nat
  PROVE  LET g == H2!ReadOutPending(h, c, r) IN
         /\ H2Same(h, g, c) /\ g.tun = h.tun
         /\ g.conn[c].on = h.conn[c].on /\ g.conn[c].stream = h.conn[c].stream
         /\ g.conn[c].read => g.conn[c].unread = 0
<1> DEFINE k == h.conn[c]
           n == H2!Taken(r, k.unread)
           f == H2!UpdateFlowControl(h, c, r - n)
           g == H2!ReadOutPending(h, c, r)
<1>1. k \in H2Conn /\ k.unread \in Nat
  BY H2Fields, H2ConnFields, Zenon
<1>2. CASE ~k.read \/ k.unread = 0
  <2>1. g = h
    BY <1>2, Zenon DEF H2!ReadOutPending
  <2> QED BY <1>2, <2>1, Zenon DEF H2Same
<1>3. CASE ~(~k.read \/ k.unread = 0)
  <2>1. g = [f EXCEPT !.conn[c].unread = f.conn[c].unread - n]
    BY <1>3, Zenon DEF H2!ReadOutPending
  <2>2. /\ n \in Nat /\ r - n \in Nat /\ k.unread - n \in Nat
        /\ r - n > 0 => k.unread - n = 0
    BY <1>1, H2Taken, Zenon
  <2> HIDE DEF n
  <2>3. /\ H2Same(h, f, c) /\ f.tun = h.tun
        /\ f.conn[c].on = k.on /\ f.conn[c].stream = k.stream /\ f.conn[c].unread = k.unread
        /\ f.conn[c].read = (r - n > 0)
    BY <2>2, H2Flow, Zenon
  <2> HIDE DEF f, g
  <2>4. f \in H2Type
    BY <2>3, Zenon DEF H2Same
  <2>5. g = [f EXCEPT !.conn[c].unread = k.unread - n]
    BY <2>1, <2>3, Zenon
  <2>6. /\ H2Same(f, g, c) /\ g.tun = f.tun
        /\ g.conn[c].on = f.conn[c].on /\ g.conn[c].stream = f.conn[c].stream
        /\ g.conn[c].unread = k.unread - n /\ g.conn[c].read = f.conn[c].read
    <3> DEFINE v == k.unread - n
    <3>1. v \in Nat /\ g = [f EXCEPT !.conn[c].unread = v]
      BY <2>2, <2>5, Zenon
    <3> HIDE DEF v
    <3>2. /\ H2Same(f, g, c) /\ g.tun = f.tun
          /\ g.conn[c].on = f.conn[c].on /\ g.conn[c].stream = f.conn[c].stream
          /\ g.conn[c].unread = v /\ g.conn[c].read = f.conn[c].read
      BY <2>4, <3>1, H2Unread, ZenonT(30)
    <3> QED BY <3>2, Zenon DEF v
  <2>7. H2Same(h, g, c)
    BY <2>3, <2>6, H2SameTrans, Zenon
  <2> QED BY <2>2, <2>3, <2>6, <2>7, Zenon DEF g
<1> QED BY <1>2, <1>3, Zenon

\* HTTP_EVENT_DATA: what is kept of it is not to be read now either.
LEMMA H2DataTouch ==
  ASSUME H2OK, NEW c \in H2Conns, NEW n \in Nat, h2.conn[c].on, h2.conn[c].stream = "open", H2!DataFrame(h2, c, n)
  PROVE  H2Touch(h2, h2', c) /\ room' \in [H2Conns -> Nat]
<1> DEFINE k == h2.conn[c]
           kept == k.read /\ k.unread > 0
           r0 == room[c] - (IF kept THEN H2!Taken(room[c], k.unread) ELSE 0)
           h0 == H2!ReadOutPending(h2, c, room[c])
           t == IF h0.conn[c].read THEN H2!Taken(r0, n) ELSE 0
           h1 == IF h0.conn[c].read THEN H2!UpdateFlowControl(h0, c, r0 - t) ELSE h0
<1>1. PICK j \in 0 .. n - t : h2' = [h1 EXCEPT !.conn[c].unread = h1.conn[c].unread + j] /\ room' = [room EXCEPT ![c] = r0 - t]
  BY Zenon DEF H2!DataFrame
<1>2. h2 \in H2Type /\ H2Kept(k, h2.tun[c]) /\ room \in [H2Conns -> Nat] /\ room[c] \in Nat
  BY Zenon DEF H2OK, H2Well
<1>3. k \in H2Conn /\ k.unread \in Nat
  BY <1>2, H2Fields, H2ConnFields, Zenon
<1>4. r0 \in Nat
  <2>1. room[c] - 0 = room[c]
    BY <1>2, SMT
  <2> QED BY <1>2, <1>3, <2>1, H2Taken, Zenon
<1>5. /\ H2Same(h2, h0, c) /\ h0.tun = h2.tun /\ h0.conn[c].on = k.on /\ h0.conn[c].stream = k.stream
      /\ h0.conn[c].read => h0.conn[c].unread = 0
  BY <1>2, H2ReadOut, Zenon
<1> HIDE DEF r0, h0
<1>6. h0 \in H2Type /\ h0.conn[c].unread \in Nat
  <2>1. h0 \in H2Type
    BY <1>5, Zenon DEF H2Same
  <2> QED BY <2>1, H2Fields, H2ConnFields, Zenon
<1>7. /\ t \in Nat /\ r0 - t \in Nat /\ n - t \in Nat
      /\ h0.conn[c].read /\ r0 - t > 0 => n - t = 0
  <2>1. r0 - 0 = r0 /\ n - 0 = n /\ 0 \in Nat
    BY <1>4, SMT
  <2> QED BY <1>4, <2>1, H2Taken, Zenon
<1> HIDE DEF t
<1>8. /\ H2Same(h2, h1, c) /\ h1.tun = h2.tun /\ h1.conn[c].on = k.on /\ h1.conn[c].stream = k.stream
      /\ h1.conn[c].unread = h0.conn[c].unread
      /\ h1.conn[c].read => n - t = 0 /\ h0.conn[c].unread = 0
  <2>1. CASE h0.conn[c].read
    <3> DEFINE f == H2!UpdateFlowControl(h0, c, r0 - t)
    <3>1. h1 = f
      BY <2>1, Zenon
    <3>2. /\ H2Same(h0, f, c) /\ f.tun = h0.tun /\ f.conn[c].on = h0.conn[c].on
          /\ f.conn[c].stream = h0.conn[c].stream /\ f.conn[c].unread = h0.conn[c].unread
          /\ f.conn[c].read = (r0 - t > 0)
      BY <1>6, <1>7, H2Flow, ZenonT(30)
    <3> HIDE DEF f, h1
    <3>3. H2Same(h2, f, c)
      BY <1>5, <3>2, H2SameTrans, Zenon
    <3> QED BY <1>5, <1>7, <2>1, <3>1, <3>2, <3>3, Zenon
  <2>2. CASE ~h0.conn[c].read
    <3>1. h1 = h0
      BY <2>2, Zenon
    <3> HIDE DEF h1
    <3> QED BY <1>5, <2>2, <3>1, Zenon
  <2> QED BY <2>1, <2>2, Zenon
<1> HIDE DEF h1
<1>9. h1 \in H2Type /\ h1.conn[c].unread + j \in Nat
      /\ (h1.conn[c].unread = 0 /\ n - t = 0 => h1.conn[c].unread + j = 0)
  <2>1. h1 \in H2Type
    BY <1>8, Zenon DEF H2Same
  <2>2. h1.conn[c].unread \in Nat
    BY <1>6, <1>8, Zenon
  <2>3. \A u \in Nat : u + j \in Nat /\ (u = 0 /\ n - t = 0 => u + j = 0)
    BY <1>1, <1>7, SMT
  <2> QED BY <2>1, <2>2, <2>3, Zenon
<1> DEFINE v == h1.conn[c].unread + j
<1>10. /\ H2Same(h1, h2', c) /\ h2'.tun = h1.tun /\ h2'.conn[c].on = h1.conn[c].on
       /\ h2'.conn[c].stream = h1.conn[c].stream /\ h2'.conn[c].unread = v
       /\ h2'.conn[c].read = h1.conn[c].read
  <2>1. v \in Nat /\ h2' = [h1 EXCEPT !.conn[c].unread = v]
    BY <1>1, <1>9, Zenon
  <2> HIDE DEF v
  <2> QED BY <1>9, <2>1, H2Unread, ZenonT(30)
<1>11. H2Same(h2, h2', c)
  BY <1>8, <1>10, H2SameTrans, Zenon
<1>12. h2'.conn[c].read => h2'.conn[c].unread = 0
  BY <1>8, <1>9, <1>10, Zenon
<1>13. H2Kept(h2'.conn[c], h2'.tun[c])
  <2>1. ~(h2'.conn[c].read /\ h2'.conn[c].unread > 0)
    <3>1. ~(0 > 0)
      BY SMT
    <3> QED BY <1>12, <3>1, Zenon
  <2>2. h2'.conn[c].on /\ h2'.tun = h2.tun /\ h2.tun[c] \in {"waiting", "open"} /\ h2'.conn[c].stream = "open"
    BY <1>2, <1>8, <1>10, Zenon DEF H2Kept
  <2>3. "open" # "closed"
    BY SMT
  <2> QED BY <2>1, <2>2, <2>3, Zenon DEF H2Kept
<1>14. room' \in [H2Conns -> Nat]
  BY <1>1, <1>2, <1>7, Zenon
<1> QED BY <1>11, <1>13, <1>14, Zenon DEF H2Touch

\* The steps. A step of one connection, and a step that leaves the connections alone.
LEMMA H2StepOne ==
  ASSUME H2OK, NEW c \in H2Conns, H2Touch(h2, h2', c), room' \in [H2Conns -> Nat], owner' = owner
  PROVE  H2OK'
<1>1. H2Well(h2')
  BY H2TouchWell, Zenon DEF H2OK
<1>2. h2'.sess = h2.sess
  BY Zenon DEF H2Touch, H2Same
<1> QED BY <1>1, <1>2, Zenon DEF H2OK

LEMMA H2Aside ==
  ASSUME NEW h, H2Well(h), NEW g \in H2Type, g.conn = h.conn, g.tun = h.tun, g.again = h.again,
         g.inh => g.sess = "up", h.sess = "up" => g.sess = "up"
  PROVE  H2Well(g)
BY Zenon DEF H2Well

\* A flag of a connection that says nothing of its data.
LEMMA H2Flag ==
  ASSUME NEW h \in H2Type, NEW c \in H2Conns, H2Kept(h.conn[c], h.tun[c]), h.conn[c].on, NEW n \in H2Conn,
         n.on = h.conn[c].on, n.read = h.conn[c].read, n.unread = h.conn[c].unread,
         n.readTask = h.conn[c].readTask, n.stream = h.conn[c].stream
  PROVE  H2Touch(h, [h EXCEPT !.conn[c] = n], c)
<1> DEFINE g == [h EXCEPT !.conn[c] = n]
<1>1. H2Same(h, g, c) /\ g.conn[c] = n /\ g.tun = h.tun
  BY H2SetConn, Zenon
<1>2. H2Kept(n, h.tun[c])
  BY Zenon DEF H2Kept
<1> HIDE DEF g
<1> QED BY <1>1, <1>2, Zenon DEF H2Touch, g

LEMMA H2Session ==
  ASSUME H2OK, \/ H2!OpenSession \/ H2!Connected \/ H2!Readable \/ H2!SessionFails \/ H2!SocketError
               \/ H2!CloseByOwner \/ H2!HandlerReturns
  PROVE  H2OK'
<1>1. H2Well(h2) /\ h2 \in H2Type /\ room \in [H2Conns -> Nat]
  BY Zenon DEF H2OK, H2Well
<1>2. /\ "none" # "up" /\ "connecting" # "up"
      /\ \A o \in {"opening", "open"} : o \notin {"none", "closed", "error"}
  BY SMT
<1>3. CASE H2!OpenSession
  <2>1. owner = "none" /\ owner' = "opening" /\ h2' = [h2 EXCEPT !.sess = "connecting"] /\ room' = room
    BY <1>3, Zenon DEF H2!OpenSession
  <2>2. h2.sess = "none" /\ ~h2.inh
    BY <1>2, <2>1, Zenon DEF H2OK, H2Well
  <2>3. /\ h2' \in H2Type /\ h2'.conn = h2.conn /\ h2'.tun = h2.tun /\ h2'.again = h2.again
        /\ h2'.inh = h2.inh /\ h2'.sess = "connecting"
    BY <1>1, <2>1, Zenon DEF H2Type
  <2>4. H2Well(h2')
    BY <1>1, <1>2, <2>2, <2>3, H2Aside, Zenon
  <2> QED BY <1>1, <1>2, <2>1, <2>4, Zenon DEF H2OK
<1>4. CASE H2!Connected
  <2>1. h2.sess = "connecting" /\ ~h2.inh /\ room' = room
    BY <1>4, Zenon DEF H2!Connected
  <2>2. CASE h2' = [h2 EXCEPT !.sess = "up"] /\ owner' = "open"
    <3>1. /\ h2' \in H2Type /\ h2'.conn = h2.conn /\ h2'.tun = h2.tun /\ h2'.again = h2.again
          /\ h2'.inh = h2.inh /\ h2'.sess = "up"
      BY <1>1, <2>2, Zenon DEF H2Type
    <3>2. H2Well(h2')
      BY <1>1, <3>1, H2Aside, Zenon
    <3> QED BY <1>1, <1>2, <2>1, <2>2, <3>2, Zenon DEF H2OK
  <2>3. CASE h2' = H2!CloseSession(h2)
    BY <1>1, <2>1, <2>3, H2CloseSession, Zenon DEF H2OK
  <2> QED BY <1>4, <2>2, <2>3, Zenon DEF H2!Connected
<1>5. CASE H2!Readable
  <2>1. h2.sess = "up" /\ h2' = [h2 EXCEPT !.inh = TRUE] /\ room' = room /\ owner' = owner
    BY <1>5, Zenon DEF H2!Readable
  <2>2. /\ h2' \in H2Type /\ h2'.conn = h2.conn /\ h2'.tun = h2.tun /\ h2'.again = h2.again
        /\ h2'.sess = h2.sess
    BY <1>1, <2>1, Zenon DEF H2Type
  <2>3. H2Well(h2')
    BY <1>1, <2>1, <2>2, H2Aside, Zenon
  <2> QED BY <1>1, <2>1, <2>2, <2>3, Zenon DEF H2OK
<1>6. CASE H2!SessionFails
  <2>1. PICK err \in BOOLEAN : h2' = [h2 EXCEPT !.closed = TRUE, !.err = err] /\ room' = room /\ owner' = owner
    BY <1>6, Zenon DEF H2!SessionFails, H2!MarkClosed
  <2>2. /\ h2' \in H2Type /\ h2'.conn = h2.conn /\ h2'.tun = h2.tun /\ h2'.again = h2.again
        /\ h2'.sess = h2.sess /\ h2'.inh = h2.inh
    BY <1>1, <2>1, Zenon DEF H2Type
  <2>3. H2Well(h2')
    BY <1>1, <2>2, H2Aside, Zenon DEF H2Well
  <2> QED BY <1>1, <2>1, <2>2, <2>3, Zenon DEF H2OK
<1>7. CASE H2!SocketError
  <2>1. ~h2.inh /\ h2' = H2!CloseSession(h2) /\ room' = room
    BY <1>7, Zenon DEF H2!SocketError
  <2> QED BY <1>1, <2>1, H2CloseSession, Zenon DEF H2OK
<1>8. CASE H2!CloseByOwner
  <2>1. ~h2.inh /\ h2' = H2!CloseSession(h2) /\ room' = room
    BY <1>8, Zenon DEF H2!CloseByOwner
  <2> QED BY <1>1, <2>1, H2CloseSession, Zenon DEF H2OK
<1>9. CASE H2!HandlerReturns
  <2> DEFINE c0 == H2!CancelHealthCheck(h2)
             stray == IF c0.stray = "reset" THEN "none" ELSE c0.stray
             h == [c0 EXCEPT !.inh = FALSE, !.closed = FALSE, !.err = FALSE, !.stray = stray]
  <2>1. /\ h2.inh /\ room' = room /\ h2' = (IF h2.closed THEN H2!CloseSession(h) ELSE h)
        /\ owner' = IF h2.closed THEN (IF h2.err THEN "error" ELSE "closed") ELSE owner
    BY <1>9, Zenon DEF H2!HandlerReturns
  <2>2. /\ c0 \in H2Type /\ c0.conn = h2.conn /\ c0.tun = h2.tun /\ c0.again = h2.again /\ c0.sess = h2.sess
    <3>1. "open" \in {"none", "open", "reset"} /\ h2.stray \in {"none", "open", "reset"}
      BY <1>1, Zenon DEF H2Type
    <3> QED BY <1>1, <3>1, Zenon DEF H2!CancelHealthCheck, H2Type
  <2> HIDE DEF c0
  <2>3. stray \in {"none", "open", "reset"}
    BY <2>2, Zenon DEF H2Type
  <2> HIDE DEF stray
  <2>4. /\ h \in H2Type /\ h.conn = h2.conn /\ h.tun = h2.tun /\ h.again = h2.again
        /\ h.inh = FALSE /\ h.sess = h2.sess
    BY <2>2, <2>3, Zenon DEF H2Type
  <2> HIDE DEF h
  <2>5. H2Well(h)
    BY <1>1, <2>4, H2Aside, Zenon
  <2>6. CASE h2.closed
    BY <1>1, <2>1, <2>4, <2>5, <2>6, H2CloseSession, Zenon DEF H2OK
  <2>7. CASE ~h2.closed
    BY <1>1, <2>1, <2>4, <2>5, <2>7, Zenon DEF H2OK
  <2> QED BY <2>6, <2>7, Zenon
<1> QED BY <1>3, <1>4, <1>5, <1>6, <1>7, <1>8, <1>9, Zenon

LEMMA H2HealthSteps ==
  ASSUME H2OK, H2!DoHealthCheck \/ H2!HealthCheckTimeout \/ H2!HealthStream
  PROVE  H2OK'
<1>1. H2Well(h2) /\ h2 \in H2Type /\ room \in [H2Conns -> Nat]
  BY Zenon DEF H2OK, H2Well
<1>2. h2.health \in {"none", "stream", "unsent"} /\ h2.stray \in {"none", "open", "reset"}
  BY <1>1, Zenon DEF H2Type
<1>3. room' = room /\ owner' = owner
  BY Zenon DEF H2!DoHealthCheck, H2!HealthCheckTimeout, H2!HealthStream
<1>4. /\ h2' \in H2Type /\ h2'.conn = h2.conn /\ h2'.tun = h2.tun /\ h2'.again = h2.again
      /\ h2'.sess = h2.sess /\ h2'.inh = h2.inh
  <2>1. CASE H2!DoHealthCheck
    <3>1. PICK v \in {"stream", "unsent"} : h2' = [h2 EXCEPT !.health = v]
      BY <2>1, Zenon DEF H2!DoHealthCheck
    <3> QED BY <1>1, <3>1, Zenon DEF H2Type
  <2>2. CASE H2!HealthCheckTimeout
    <3>1. PICK s \in {"none", "open", "reset"} : h2' = [h2 EXCEPT !.health = "none", !.stray = s]
      <4>1. h2' = [h2 EXCEPT !.health = "none", !.stray = IF h2.health = "stream" THEN "open" ELSE h2.stray]
        BY <1>1, <2>2, Zenon DEF H2!HealthCheckTimeout, H2!CancelHealthCheck, H2Type
      <4> QED BY <1>2, <4>1, Zenon
    <3> QED BY <1>1, <3>1, Zenon DEF H2Type
  <2>3. CASE H2!HealthStream
    <3>1. h2' = [h2 EXCEPT !.health = "none"] \/ h2' = [h2 EXCEPT !.stray = "reset"]
      BY <2>3, Zenon DEF H2!HealthStream
    <3> QED BY <1>1, <3>1, Zenon DEF H2Type
  <2> QED BY <2>1, <2>2, <2>3, Zenon
<1>5. H2Well(h2')
  BY <1>1, <1>4, H2Aside, Zenon DEF H2Well
<1> QED BY <1>1, <1>3, <1>4, <1>5, Zenon DEF H2OK

LEMMA H2OpenConnection == ASSUME H2OK, NEW c \in H2Conns, H2!OpenConnection(c) PROVE H2OK'
<1>1. H2Well(h2) /\ h2 \in H2Type /\ room \in [H2Conns -> Nat]
  BY Zenon DEF H2OK, H2Well
<1>2. /\ h2.sess = "up" /\ room' = room /\ owner' = owner
      /\ h2' = [h2 EXCEPT !.conn[c] = H2!NewStream, !.tun[c] = "waiting"]
  BY Zenon DEF H2!OpenConnection
<1> DEFINE k == H2!NewStream
<1>3. k \in H2Conn /\ k.on = TRUE /\ k.stream = "open" /\ k.read = FALSE
  <2>1. "open" \in {"open", "closed"} /\ TRUE \in BOOLEAN
    BY Zenon
  <2> QED BY <2>1, H2NoConn, Zenon DEF H2!NewStream, H2Conn
<1>4. H2Kept(k, "waiting") /\ "waiting" \in H2Known
  <2>1. "open" # "closed"
    BY SMT
  <2> QED BY <1>3, <2>1, Zenon DEF H2Kept, H2Known
<1> HIDE DEF k
<1>5. /\ h2' \in H2Type /\ h2'.conn = [h2.conn EXCEPT ![c] = k] /\ h2'.tun = [h2.tun EXCEPT ![c] = "waiting"]
      /\ h2'.again = h2.again /\ h2'.sess = h2.sess /\ h2'.inh = h2.inh
  <2>1. h2' = [h2 EXCEPT !.conn[c] = k, !.tun[c] = "waiting"]
    BY <1>2, Zenon DEF k
  <2> QED BY <1>1, <1>3, <1>4, <2>1, Zenon DEF H2Type
<1>6. \A d \in H2Conns : H2Kept(h2'.conn[d], h2'.tun[d])
  <2> SUFFICES ASSUME NEW d \in H2Conns PROVE H2Kept(h2'.conn[d], h2'.tun[d])
    BY Zenon
  <2>1. h2.conn \in [H2Conns -> H2Conn] /\ h2.tun \in [H2Conns -> H2Known] /\ H2Kept(h2.conn[d], h2.tun[d])
    BY <1>1, H2Fields, Zenon DEF H2Well
  <2>2. CASE d = c
    <3>1. h2'.conn[d] = k /\ h2'.tun[d] = "waiting"
      BY <1>5, <2>1, <2>2, Zenon
    <3> QED BY <1>4, <3>1, Zenon
  <2>3. CASE d # c
    <3>1. h2'.conn[d] = h2.conn[d] /\ h2'.tun[d] = h2.tun[d]
      BY <1>5, <2>1, <2>3, Zenon
    <3> QED BY <2>1, <3>1, Zenon
  <2> QED BY <2>2, <2>3, Zenon
<1>7. H2Well(h2')
  BY <1>1, <1>2, <1>5, <1>6, Zenon DEF H2Well
<1> QED BY <1>1, <1>2, <1>5, <1>7, Zenon DEF H2OK

LEMMA H2CloseConnection ==
  ASSUME H2OK, NEW c \in H2Conns, H2!CloseConnection(c) \/ H2!CloseTask(c)
  PROVE  H2OK'
<1> DEFINE k == h2.conn[c]
<1>1. /\ H2Well(h2) /\ h2 \in H2Type /\ h2.again = FALSE /\ room \in [H2Conns -> Nat]
      /\ H2Kept(k, h2.tun[c])
  BY Zenon DEF H2OK, H2Well
<1>2. k \in H2Conn
  BY <1>1, H2Fields, Zenon
<1>3. k.on
  <2>1. CASE H2!CloseConnection(c)
    BY <2>1, Zenon DEF H2!CloseConnection
  <2>2. CASE H2!CloseTask(c)
    <3>1. k.closeTask
      BY <2>2, Zenon DEF H2!CloseTask
    <3> QED BY <1>1, <3>1, H2NoConn, Zenon DEF H2Kept
  <2> QED BY <2>1, <2>2, Zenon
<1>4. ASSUME NEW b \in BOOLEAN PROVE H2Touch(h2, [h2 EXCEPT !.conn[c].closeTask = b], c)
  <2> DEFINE n == [k EXCEPT !.closeTask = b]
  <2>1. n \in H2Conn /\ n.on = k.on /\ n.read = k.read /\ n.unread = k.unread /\ n.readTask = k.readTask
        /\ n.stream = k.stream
    BY <1>2, Zenon DEF H2Conn
  <2>2. [h2 EXCEPT !.conn[c].closeTask = b] = [h2 EXCEPT !.conn[c] = n]
    BY <1>1, Zenon DEF H2Type
  <2> HIDE DEF n
  <2> QED BY <1>1, <1>3, <2>1, <2>2, H2Flag, Zenon
<1>5. room' = room /\ owner' = owner
  BY Zenon DEF H2!CloseConnection, H2!CloseTask
<1>6. H2Touch(h2, h2', c)
  <2>1. CASE \E graceful \in BOOLEAN : h2' = H2!CloseTcpConnection(h2, c, graceful)
    BY <1>1, <2>1, H2CloseTcp, Zenon
  <2>2. CASE h2' = [h2 EXCEPT !.conn[c].closeTask = TRUE]
    BY <1>4, <2>2, Zenon
  <2>3. CASE \E graceful \in BOOLEAN :
                h2' = H2!CloseTcpConnection([h2 EXCEPT !.conn[c].closeTask = FALSE], c, graceful)
    <3> DEFINE m == [h2 EXCEPT !.conn[c].closeTask = FALSE]
    <3>1. PICK graceful \in BOOLEAN : h2' = H2!CloseTcpConnection(m, c, graceful)
      BY <2>3, Zenon
    <3>2. H2Touch(h2, m, c)
      BY <1>4, Zenon
    <3> HIDE DEF m
    <3>3. m \in H2Type /\ m.again = FALSE /\ H2Kept(m.conn[c], m.tun[c])
      BY <1>1, <3>2, Zenon DEF H2Touch, H2Same
    <3>4. H2Touch(m, h2', c)
      BY <3>1, <3>3, H2CloseTcp, Zenon
    <3> QED BY <3>2, <3>4, H2SameTrans, Zenon DEF H2Touch
  <2> QED BY <2>1, <2>2, <2>3, Zenon DEF H2!CloseConnection, H2!CloseTask
<1> QED BY <1>1, <1>5, <1>6, H2StepOne, Zenon

LEMMA H2CompleteRead == ASSUME H2OK, NEW c \in H2Conns, H2!CompleteRead(c) PROVE H2OK'
<1> DEFINE k == h2.conn[c]
           h == [h2 EXCEPT !.conn[c].readTask = FALSE]
           read == h.conn[c].read
           n == IF read THEN H2!Taken(room[c], h.conn[c].unread) ELSE 0
           h1 == H2!ReadOutPending(h, c, room[c])
<1>1. /\ H2Well(h2) /\ h2 \in H2Type /\ h2.again = FALSE /\ room \in [H2Conns -> Nat] /\ room[c] \in Nat
      /\ H2Kept(k, h2.tun[c])
  BY Zenon DEF H2OK, H2Well
<1>2. /\ k.readTask /\ owner' = owner
      /\ \/ /\ h2' = IF h1.conn[c].unread = 0 /\ h1.conn[c].stream = "closed" THEN H2!Gone(h1, c) ELSE h1
            /\ room' = [room EXCEPT ![c] = room[c] - n]
         \/ h2' = H2!CloseTcpConnection(h, c, FALSE) /\ room' = room
  BY <1>1, Zenon DEF H2!CompleteRead
<1>3. k \in H2Conn
  BY <1>1, H2Fields, Zenon
<1>4. k.on /\ h2.tun[c] \in {"waiting", "open"}
  BY <1>1, <1>2, H2NoConn, Zenon DEF H2Kept
<1>5. H2Same(h2, h, c) /\ h.tun = h2.tun /\ h.conn[c].on
  <2> DEFINE m == [k EXCEPT !.readTask = FALSE]
  <2>1. m \in H2Conn /\ m.on = k.on
    BY <1>3, Zenon DEF H2Conn
  <2>2. h = [h2 EXCEPT !.conn[c] = m]
    BY <1>1, Zenon DEF H2Type
  <2> HIDE DEF m, h
  <2>3. H2Same(h2, h, c) /\ h.conn[c] = m /\ h.tun = h2.tun
    BY <1>1, <2>1, <2>2, H2SetConn, ZenonT(60)
  <2> QED BY <1>4, <2>1, <2>3, Zenon
<1> HIDE DEF h
<1>6. h \in H2Type /\ h.again = FALSE /\ h.conn[c].unread \in Nat
  <2>1. h \in H2Type /\ h.again = FALSE
    BY <1>1, <1>5, Zenon DEF H2Same
  <2> QED BY <2>1, H2Fields, H2ConnFields, Zenon
<1>7. /\ H2Same(h, h1, c) /\ h1.tun = h.tun /\ h1.conn[c].on = h.conn[c].on
      /\ h1.conn[c].read => h1.conn[c].unread = 0
  BY <1>1, <1>6, H2ReadOut, ZenonT(60)
<1> HIDE DEF h1
<1>8. /\ H2Same(h2, h1, c) /\ h1 \in H2Type /\ h1.again = FALSE /\ h1.tun[c] \in {"waiting", "open"} /\ h1.conn[c].on
  BY <1>4, <1>5, <1>6, <1>7, H2SameTrans, ZenonT(60) DEF H2Same
<1>9. n \in Nat /\ room[c] - n \in Nat
  <2>1. 0 \in Nat /\ room[c] - 0 = room[c]
    BY <1>1, SMT
  <2> QED BY <1>1, <1>6, <2>1, H2Taken, Zenon
<1> HIDE DEF n
<1>10. room' \in [H2Conns -> Nat]
  BY <1>1, <1>2, <1>9, Zenon
<1>11. H2Touch(h2, h2', c)
  <2>1. CASE h2' = H2!CloseTcpConnection(h, c, FALSE)
    <3>1. h.tun[c] \in {"waiting", "open"}
      BY <1>4, <1>5, Zenon
    <3>2. H2Same(h, h2', c) /\ h2'.conn[c] = H2!NoConn /\ h2'.tun[c] = "gone"
      BY <1>5, <1>6, <2>1, <3>1, H2CloseHard, Zenon
    <3>3. H2Same(h2, h2', c)
      BY <1>5, <3>2, H2SameTrans, Zenon
    <3> QED BY <3>2, <3>3, H2NoConn, Zenon DEF H2Touch
  <2>2. CASE h1.conn[c].unread = 0 /\ h1.conn[c].stream = "closed" /\ h2' = H2!Gone(h1, c)
    <3>1. H2Same(h1, h2', c) /\ h2'.conn[c] = H2!NoConn /\ h2'.tun[c] = "gone"
      BY <1>8, <2>2, H2Gone, Zenon
    <3>2. H2Same(h2, h2', c)
      BY <1>8, <3>1, H2SameTrans, Zenon
    <3> QED BY <3>1, <3>2, H2NoConn, Zenon DEF H2Touch
  <2>3. CASE ~(h1.conn[c].unread = 0 /\ h1.conn[c].stream = "closed") /\ h2' = h1
    <3>1. h1.conn[c].unread \in Nat
      BY <1>8, H2Fields, H2ConnFields, Zenon
    <3>2. ~(0 > 0) /\ (h1.conn[c].unread # 0 => h1.conn[c].unread > 0)
      BY <3>1, SMT
    <3>3. H2Kept(h1.conn[c], h1.tun[c])
      BY <1>7, <1>8, <2>3, <3>2, Zenon DEF H2Kept
    <3> QED BY <1>4, <1>8, <2>3, <3>3, Zenon DEF H2Touch
  <2> QED BY <1>2, <2>1, <2>2, <2>3, Zenon
<1> QED BY <1>2, <1>10, <1>11, H2StepOne, Zenon

LEMMA H2Reads ==
  ASSUME H2OK, NEW c \in H2Conns, H2!ClientReads(c) \/ H2!StartReads(c)
  PROVE  H2OK'
<1> DEFINE k == h2.conn[c]
<1>1. /\ h2 \in H2Type /\ room \in [H2Conns -> Nat] /\ room[c] \in Nat /\ H2Kept(k, h2.tun[c])
  BY Zenon DEF H2OK, H2Well
<1>2. MaxRoom \in Nat
  BY UpstreamsAssumption, Zenon
<1>3. k.on /\ owner' = owner
  BY Zenon DEF H2!ClientReads, H2!StartReads
<1>4. PICK r \in Nat : h2' = H2!UpdateFlowControl(h2, c, r)
  BY <1>1, <1>2, Zenon DEF H2!ClientReads, H2!StartReads
<1>5. room' \in [H2Conns -> Nat]
  BY <1>1, <1>2, Zenon DEF H2!ClientReads, H2!StartReads
<1>6. /\ H2Same(h2, h2', c) /\ h2'.tun = h2.tun
      /\ h2'.conn[c].on = k.on /\ h2'.conn[c].stream = k.stream /\ h2'.conn[c].unread = k.unread
      /\ h2'.conn[c].read = (r > 0)
      /\ h2'.conn[c].readTask = (k.readTask \/ (r > 0 /\ k.unread > 0))
  BY <1>1, <1>4, H2Flow, Zenon
<1>7. H2Kept(h2'.conn[c], h2'.tun[c])
  BY <1>1, <1>3, <1>6, Zenon DEF H2Kept
<1>8. H2Touch(h2, h2', c)
  BY <1>3, <1>6, <1>7, Zenon DEF H2Touch
<1> QED BY <1>3, <1>5, <1>8, H2StepOne, Zenon

LEMMA H2Frame == ASSUME H2OK, NEW c \in H2Conns, H2!FrameReceived(c) PROVE H2OK'
<1> DEFINE k == h2.conn[c]
<1>1. /\ H2Well(h2) /\ h2 \in H2Type /\ h2.again = FALSE /\ room \in [H2Conns -> Nat]
      /\ H2Kept(k, h2.tun[c])
  BY Zenon DEF H2OK, H2Well
<1>2. k \in H2Conn
  BY <1>1, H2Fields, Zenon
<1>3. k.stream = "open" /\ owner' = owner
  BY Zenon DEF H2!FrameReceived, H2!Headers, H2!Data, H2!EndStream, H2!ResetStream
<1>4. k.on
  <2>1. "open" # "closed"
    BY SMT
  <2> QED BY <1>1, <1>3, <2>1, H2NoConn, Zenon DEF H2Kept
<1>5. CASE H2!Headers(c)
  <2>1. h2.tun[c] = "waiting" /\ room' = room
    BY <1>5, Zenon DEF H2!Headers
  <2>2. CASE h2' = [h2 EXCEPT !.tun[c] = "open"]
    <3>1. /\ h2' \in H2Type /\ h2'.conn = h2.conn /\ h2'.tun = [h2.tun EXCEPT ![c] = "open"]
          /\ h2'.again = h2.again /\ h2'.sess = h2.sess /\ h2'.inh = h2.inh
      <4>1. "open" \in H2Known
        BY Zenon DEF H2Known
      <4> QED BY <1>1, <2>2, <4>1, Zenon DEF H2Type
    <3>2. h2.tun \in [H2Conns -> H2Known]
      BY <1>1, H2Fields, Zenon
    <3>3. h2'.tun[c] = "open" /\ \A d \in H2Conns : d # c => h2'.tun[d] = h2.tun[d]
      BY <3>1, <3>2, Zenon
    <3>4. H2Kept(k, "open")
      BY <1>1, <1>4, Zenon DEF H2Kept
    <3>5. H2Touch(h2, h2', c)
      BY <3>1, <3>3, <3>4, Zenon DEF H2Touch, H2Same
    <3> QED BY <1>1, <1>3, <2>1, <3>5, H2StepOne, Zenon
  <2>3. CASE h2' = [h2 EXCEPT !.conn[c].err = TRUE]
    <3> DEFINE n == [k EXCEPT !.err = TRUE]
    <3>1. n \in H2Conn /\ n.on = k.on /\ n.read = k.read /\ n.unread = k.unread /\ n.readTask = k.readTask
          /\ n.stream = k.stream
      BY <1>2, Zenon DEF H2Conn
    <3>2. h2' = [h2 EXCEPT !.conn[c] = n]
      BY <1>1, <2>3, Zenon DEF H2Type
    <3> HIDE DEF n
    <3>3. H2Touch(h2, h2', c)
      BY <1>1, <1>4, <3>1, <3>2, H2Flag, Zenon
    <3> QED BY <1>1, <1>3, <2>1, <3>3, H2StepOne, Zenon
  <2>4. CASE h2' = H2!MarkClosed(h2, TRUE)
    <3>1. /\ h2' \in H2Type /\ h2'.conn = h2.conn /\ h2'.tun = h2.tun /\ h2'.again = h2.again
          /\ h2'.sess = h2.sess /\ h2'.inh = h2.inh
      BY <1>1, <2>4, Zenon DEF H2Type, H2!MarkClosed
    <3>2. H2Well(h2')
      BY <1>1, <3>1, H2Aside, Zenon DEF H2Well
    <3> QED BY <1>1, <1>3, <2>1, <3>1, <3>2, Zenon DEF H2OK
  <2> QED BY <1>5, <2>2, <2>3, <2>4, Zenon DEF H2!Headers
<1>6. CASE H2!Data(c)
  <2>1. CASE \E n \in 1 .. MaxUnread : H2!DataFrame(h2, c, n)
    <3>1. PICK n \in 1 .. MaxUnread : H2!DataFrame(h2, c, n)
      BY <2>1, Zenon
    <3>2. n \in Nat
      BY SMT
    <3>3. H2Touch(h2, h2', c) /\ room' \in [H2Conns -> Nat]
      BY <1>3, <1>4, <3>1, <3>2, H2DataTouch, Zenon
    <3> QED BY <1>3, <3>3, H2StepOne, Zenon
  <2>2. CASE h2' = H2!CloseTcpConnection(h2, c, FALSE) /\ UNCHANGED room
    <3>1. H2Touch(h2, h2', c)
      BY <1>1, <2>2, H2CloseTcp, Zenon
    <3> QED BY <1>1, <1>3, <2>2, <3>1, H2StepOne, Zenon
  <2> QED BY <1>6, <2>1, <2>2, Zenon DEF H2!Data
<1>7. CASE H2!EndStream(c)
  <2>1. room' = room
    BY <1>7, Zenon DEF H2!EndStream
  <2>2. CASE h2' = H2!StreamProcessed(h2, c, FALSE)
    <3>1. H2Touch(h2, h2', c)
      BY <1>1, <2>2, H2Processed, Zenon
    <3> QED BY <1>1, <1>3, <2>1, <3>1, H2StepOne, Zenon
  <2>3. CASE h2' = [h2 EXCEPT !.conn[c].fin = TRUE]
    <3> DEFINE n == [k EXCEPT !.fin = TRUE]
    <3>1. n \in H2Conn /\ n.on = k.on /\ n.read = k.read /\ n.unread = k.unread /\ n.readTask = k.readTask
          /\ n.stream = k.stream
      BY <1>2, Zenon DEF H2Conn
    <3>2. h2' = [h2 EXCEPT !.conn[c] = n]
      BY <1>1, <2>3, Zenon DEF H2Type
    <3> HIDE DEF n
    <3>3. H2Touch(h2, h2', c)
      BY <1>1, <1>4, <3>1, <3>2, H2Flag, Zenon
    <3> QED BY <1>1, <1>3, <2>1, <3>3, H2StepOne, Zenon
  <2> QED BY <1>7, <2>2, <2>3, Zenon DEF H2!EndStream
<1>8. CASE H2!ResetStream(c)
  <2>1. room' = room /\ h2' = H2!StreamProcessed(h2, c, TRUE)
    BY <1>8, Zenon DEF H2!ResetStream
  <2>2. H2Touch(h2, h2', c)
    BY <1>1, <2>1, H2Processed, Zenon
  <2> QED BY <1>1, <1>3, <2>1, <2>2, H2StepOne, Zenon
<1> QED BY <1>5, <1>6, <1>7, <1>8, Zenon DEF H2!FrameReceived

LEMMA H2InitOK == H2!Init => H2OK
<1> SUFFICES ASSUME H2!Init PROVE H2OK
  OBVIOUS
<1>1. /\ h2 = [sess |-> "none", inh |-> FALSE, closed |-> FALSE, err |-> FALSE,
               conn |-> [c \in H2Conns |-> H2!NoConn], health |-> "none", stray |-> "none",
               tun |-> [c \in H2Conns |-> "none"], again |-> FALSE]
      /\ room = [c \in H2Conns |-> MaxRoom] /\ owner = "none"
  BY Zenon DEF H2!Init
<1>2. "none" \in H2Known /\ MaxRoom \in Nat
  BY UpstreamsAssumption, Zenon DEF H2Known
<1>3. h2 \in H2Type
  <2>1. [c \in H2Conns |-> H2!NoConn] \in [H2Conns -> H2Conn] /\ [c \in H2Conns |-> "none"] \in [H2Conns -> H2Known]
    BY <1>2, H2NoConn, Zenon
  <2> QED BY <1>1, <2>1, Zenon DEF H2Type
<1>4. /\ h2.again = FALSE /\ h2.inh = FALSE /\ h2.sess = "none"
      /\ \A c \in H2Conns : h2.conn[c] = H2!NoConn /\ h2.tun[c] = "none"
  BY <1>1, Zenon
<1>5. H2Well(h2)
  BY <1>3, <1>4, H2NoConn, Zenon DEF H2Well
<1>6. room \in [H2Conns -> Nat]
  BY <1>1, <1>2, Zenon
<1> QED BY <1>4, <1>5, <1>6, Zenon DEF H2OK

\* The tunnel and the HTTP/2 upstream have the same connections, each end is reported once, and what was
\* kept for a client has the task that gives it to it, whatever the order of the endpoint's frames, the
\* calls of the tunnel, the tasks and the failures of the session, in its handler or outside
\* (Http2Upstream::http_handler, complete_read, close_session).
THEOREM H2Serves == H2!Spec => []H2Served
<1>1. H2OK /\ [H2!Next]_H2!h2Vars => H2OK'
  <2>1. ASSUME H2OK, UNCHANGED H2!h2Vars PROVE H2OK'
    BY <2>1, Zenon DEF H2!h2Vars, H2OK
  <2>2. ASSUME H2OK, H2!Next PROVE H2OK'
    BY <2>2, H2Session, H2HealthSteps, H2OpenConnection, H2CloseConnection, H2CompleteRead, H2Reads, H2Frame,
       Zenon DEF H2!Next
  <2> QED BY <2>1, <2>2, Zenon
<1>2. H2OK => H2Served
  <2> SUFFICES ASSUME H2OK PROVE H2!H2InStep /\ H2!H2DataServed
    BY Zenon DEF H2Served
  <2>1. H2!H2InStep
    <3>1. \A c \in H2Conns : h2.conn[c].on <=> h2.tun[c] \in {"waiting", "open"}
      BY Zenon DEF H2OK, H2Well, H2Kept
    <3>2. "none" # "up"
      BY SMT
    <3>3. owner \in {"closed", "error"} => h2.sess = "none" /\ \A c \in H2Conns : ~h2.conn[c].on
      BY <3>2, Zenon DEF H2OK, H2Well
    <3> QED BY <3>1, <3>3, Zenon DEF H2OK, H2Well, H2!H2InStep
  <2>2. H2!H2DataServed
    BY Zenon DEF H2OK, H2Well, H2Kept, H2!H2DataServed
  <2> QED BY <2>1, <2>2, Zenon
<1> QED BY <1>1, <1>2, H2InitOK, PTL DEF H2!Spec

-----------------------------------------------------------------------------
(* The HTTP/3 upstream.                                                    *)

H3Conn ==
    [kind : {"none", "stream", "retriable"}, streamClosed : BOOLEAN, read : BOOLEAN, err : BOOLEAN, unread : Nat]
H3Tasks == {"read", "close", "handoff", "notify", "flushError", "post"}
H3Health == {"none", "stream", "retry", "unsent"}
H3Type ==
    [st : {"IDLE", "ESTABLISHING", "ESTABLISHED"}, inh : BOOLEAN, closed : BOOLEAN, err : BOOLEAN,
     closing : SUBSET H3Conns, tasks : SUBSET H3Tasks, conn : [H3Conns -> H3Conn], health : H3Health,
     tun : [H3Conns -> H2Known], inside : BOOLEAN]

\* The connection k of which the tunnel knows t, the tasks being T: what was kept of a stream that is
\* being read has its task, and only a stream keeps anything.
H3Kept(k, t, T) ==
    /\ k.kind # "none" <=> t \in {"waiting", "open"}
    /\ k.read /\ k.unread > 0 => "read" \in T
    /\ k.streamClosed => k.unread > 0
    /\ k.kind # "stream" => ~k.read /\ ~k.streamClosed /\ k.unread = 0

\* The upstream: a session that is over has no connections and no tasks.
H3Well(h) ==
    /\ h \in H3Type
    /\ \A c \in H3Conns : H3Kept(h.conn[c], h.tun[c], h.tasks)
    /\ h.closing # {} => "close" \in h.tasks
    /\ h.inh => h.st # "IDLE"
    /\ h.st = "IDLE" => h.tasks = {} /\ h.closing = {} /\ \A c \in H3Conns : h.conn[c].kind = "none"

H3OK ==
    /\ H3Well(h3) /\ space \in [H3Conns -> Nat]
    /\ holder \in {"none", "closed", "error"} => h3.st = "IDLE"

\* The upstream g differs from h in the connection c and in tasks that were added.
H3Same(h, g, c) ==
    /\ g \in H3Type /\ g.st = h.st /\ g.inh = h.inh /\ h.tasks \subseteq g.tasks
    /\ g.closing \subseteq h.closing \/ "close" \in g.tasks
    /\ \A d \in H3Conns : d # c => g.conn[d] = h.conn[d] /\ g.tun[d] = h.tun[d]

LEMMA H3Fields ==
  ASSUME NEW h \in H3Type, NEW c \in H3Conns
  PROVE  /\ h.conn[c] \in H3Conn /\ h.tun[c] \in H2Known /\ h.tasks \in SUBSET H3Tasks
         /\ h.closing \in SUBSET H3Conns /\ h.inh \in BOOLEAN
         /\ h.conn \in [H3Conns -> H3Conn] /\ h.tun \in [H3Conns -> H2Known]
BY Zenon DEF H3Type

LEMMA H3ConnFields ==
  ASSUME NEW k \in H3Conn
  PROVE  /\ k.kind \in {"none", "stream", "retriable"} /\ k.streamClosed \in BOOLEAN /\ k.read \in BOOLEAN
         /\ k.err \in BOOLEAN /\ k.unread \in Nat
BY Zenon DEF H3Conn

LEMMA H3NoConn ==
  /\ H3!NoH3 \in H3Conn /\ H3!NoH3.kind = "none" /\ H3!NoH3.read = FALSE /\ H3!NoH3.streamClosed = FALSE
  /\ H3!NoH3.unread = 0 /\ \A t \in {"none", "gone"} : \A T : H3Kept(H3!NoH3, t, T)
<1>1. 0 \in Nat /\ ~(0 > 0)
  BY SMT
<1>2. /\ H3!NoH3 \in H3Conn /\ H3!NoH3.kind = "none" /\ H3!NoH3.read = FALSE /\ H3!NoH3.streamClosed = FALSE
      /\ H3!NoH3.unread = 0
  BY <1>1, Zenon DEF H3!NoH3, H3Conn
<1>3. \A t \in {"none", "gone"} : t \notin {"waiting", "open"}
  BY SMT
<1> QED BY <1>2, <1>3, Zenon DEF H3Kept

LEMMA H3KeptMore ==
  ASSUME NEW k, NEW t, NEW T, NEW U, T \subseteq U, H3Kept(k, t, T)
  PROVE  H3Kept(k, t, U)
BY Zenon DEF H3Kept

LEMMA H3TouchWell ==
  ASSUME NEW h, NEW g, NEW c \in H3Conns, H3Well(h), H3Same(h, g, c), h.st # "IDLE",
         H3Kept(g.conn[c], g.tun[c], g.tasks)
  PROVE  H3Well(g)
<1>1. \A d \in H3Conns : H3Kept(g.conn[d], g.tun[d], g.tasks)
  <2> SUFFICES ASSUME NEW d \in H3Conns PROVE H3Kept(g.conn[d], g.tun[d], g.tasks)
    BY Zenon
  <2>1. CASE d = c
    BY <2>1, Zenon
  <2>2. CASE d # c
    <3>1. g.conn[d] = h.conn[d] /\ g.tun[d] = h.tun[d] /\ h.tasks \subseteq g.tasks
      BY <2>2, Zenon DEF H3Same
    <3>2. H3Kept(h.conn[d], h.tun[d], h.tasks)
      BY Zenon DEF H3Well
    <3> QED BY <3>1, <3>2, H3KeptMore, Zenon
  <2> QED BY <2>1, <2>2, Zenon
<1>2. g.closing # {} => "close" \in g.tasks
  <2>1. CASE g.closing \subseteq h.closing
    <3>1. g.closing # {} => h.closing # {}
      BY <2>1, SMT
    <3> QED BY <3>1, Zenon DEF H3Well, H3Same
  <2>2. CASE "close" \in g.tasks
    BY <2>2, Zenon
  <2> QED BY <2>1, <2>2, Zenon DEF H3Same
<1>3. g \in H3Type /\ g.st = h.st /\ g.inh = h.inh
  BY Zenon DEF H3Same
<1> QED BY <1>1, <1>2, <1>3, Zenon DEF H3Well

LEMMA H3StepOne ==
  ASSUME H3OK, NEW c \in H3Conns, H3Same(h3, h3', c), h3.st # "IDLE", H3Kept(h3'.conn[c], h3'.tun[c], h3'.tasks),
         space' \in [H3Conns -> Nat], holder' = holder
  PROVE  H3OK'
<1>1. H3Well(h3')
  BY H3TouchWell, Zenon DEF H3OK
<1>2. h3'.st = h3.st
  BY Zenon DEF H3Same
<1> QED BY <1>1, <1>2, Zenon DEF H3OK

LEMMA H3SetConn ==
  ASSUME NEW h \in H3Type, NEW c \in H3Conns, NEW k \in H3Conn
  PROVE  LET g == [h EXCEPT !.conn[c] = k] IN
         H3Same(h, g, c) /\ g.conn[c] = k /\ g.tun = h.tun /\ g.tasks = h.tasks
<1> DEFINE g == [h EXCEPT !.conn[c] = k]
<1>1. /\ g \in H3Type /\ g.conn = [h.conn EXCEPT ![c] = k] /\ g.tun = h.tun
      /\ g.tasks = h.tasks /\ g.closing = h.closing /\ g.st = h.st /\ g.inh = h.inh
  BY Zenon DEF H3Type
<1>2. h.conn \in [H3Conns -> H3Conn]
  BY H3Fields, Zenon
<1> HIDE DEF g
<1>3. g.conn[c] = k /\ \A d \in H3Conns : d # c => g.conn[d] = h.conn[d]
  BY <1>1, <1>2, Zenon
<1> QED BY <1>1, <1>3, Zenon DEF H3Same, g

LEMMA H3Cleaned ==
  ASSUME NEW h \in H3Type, NEW c \in H3Conns
  PROVE  LET g == H3!Cleaned(h, c) IN
         /\ H3Same(h, g, c) /\ g.conn[c] = H3!NoH3 /\ g.tun[c] = "gone" /\ g.tasks = h.tasks
         /\ g.closing = h.closing \ {c}
<1> DEFINE g == H3!Cleaned(h, c)
           s == h.closing \ {c}
<1>1. g = [h EXCEPT !.conn[c] = H3!NoH3, !.closing = s, !.tun[c] = "gone"]
  BY Zenon DEF H3!Cleaned
<1>2. s \in SUBSET H3Conns /\ s \subseteq h.closing
  BY H3Fields, Zenon
<1>3. "gone" \in H2Known
  BY Zenon DEF H2Known
<1> HIDE DEF s, g
<1>4. /\ g \in H3Type /\ g.conn = [h.conn EXCEPT ![c] = H3!NoH3] /\ g.tun = [h.tun EXCEPT ![c] = "gone"]
      /\ g.tasks = h.tasks /\ g.closing = s /\ g.st = h.st /\ g.inh = h.inh
  BY <1>1, <1>2, <1>3, H3NoConn, Zenon DEF H3Type
<1>5. h.conn \in [H3Conns -> H3Conn] /\ h.tun \in [H3Conns -> H2Known]
  BY H3Fields, Zenon
<1>6. /\ g.conn[c] = H3!NoH3 /\ g.tun[c] = "gone"
      /\ \A d \in H3Conns : d # c => g.conn[d] = h.conn[d] /\ g.tun[d] = h.tun[d]
  BY <1>4, <1>5, Zenon
<1> QED BY <1>2, <1>4, <1>6, Zenon DEF H3Same, g, s

LEMMA H3Flow ==
  ASSUME NEW h \in H3Type, NEW c \in H3Conns, NEW r \in Nat
  PROVE  LET g == H3!UpdateFlowControl(h, c, r)
             k == h.conn[c] IN
         /\ H3Same(h, g, c) /\ g.tun = h.tun
         /\ g.conn[c].kind = k.kind /\ g.conn[c].streamClosed = k.streamClosed /\ g.conn[c].unread = k.unread
         /\ k.kind = "stream" => g.conn[c].read = (r > 0)
         /\ k.kind # "stream" => g = h
         /\ k.read # (r > 0) /\ r > 0 /\ k.unread > 0 /\ k.kind = "stream" => "read" \in g.tasks
<1> DEFINE k == h.conn[c]
           g == H3!UpdateFlowControl(h, c, r)
           n == [k EXCEPT !.read = r > 0]
           T == IF r > 0 /\ k.unread > 0 THEN h.tasks \union {"read"} ELSE h.tasks
<1>1. k \in H3Conn /\ h.tasks \in SUBSET H3Tasks
  BY H3Fields, Zenon
<1>2. CASE k.kind # "stream" \/ k.read = (r > 0)
  <2>1. g = h
    BY <1>2, Zenon DEF H3!UpdateFlowControl
  <2>2. H3Same(h, h, c)
    BY Zenon DEF H3Same
  <2> QED BY <1>2, <2>1, <2>2, Zenon
<1>3. CASE ~(k.kind # "stream" \/ k.read = (r > 0))
  <2>1. g = [h EXCEPT !.conn[c].read = r > 0, !.tasks = T]
    BY <1>3, Zenon DEF H3!UpdateFlowControl
  <2>2. T \in SUBSET H3Tasks /\ h.tasks \subseteq T /\ (r > 0 /\ k.unread > 0 => "read" \in T)
    <3>1. "read" \in H3Tasks
      BY Zenon DEF H3Tasks
    <3> QED BY <1>1, <3>1, Zenon
  <2>3. (r > 0) \in BOOLEAN
    BY SMT
  <2>4. n \in H3Conn /\ n.kind = k.kind /\ n.streamClosed = k.streamClosed /\ n.unread = k.unread /\ n.read = (r > 0)
    BY <1>1, <2>3, Zenon DEF H3Conn
  <2>5. g = [h EXCEPT !.conn[c] = n, !.tasks = T]
    BY <2>1, Zenon DEF H3Type
  <2> HIDE DEF T, n, g
  <2>6. /\ g \in H3Type /\ g.conn = [h.conn EXCEPT ![c] = n] /\ g.tun = h.tun
        /\ g.tasks = T /\ g.closing = h.closing /\ g.st = h.st /\ g.inh = h.inh
    BY <2>2, <2>4, <2>5, Zenon DEF H3Type
  <2>7. h.conn \in [H3Conns -> H3Conn]
    BY H3Fields, Zenon
  <2>8. g.conn[c] = n /\ \A d \in H3Conns : d # c => g.conn[d] = h.conn[d]
    BY <2>6, <2>7, Zenon
  <2>9. H3Same(h, g, c)
    BY <2>2, <2>6, <2>8, Zenon DEF H3Same
  <2> QED BY <1>3, <2>2, <2>4, <2>6, <2>8, <2>9, Zenon DEF g
<1> QED BY <1>2, <1>3, Zenon

LEMMA H3CloseSession ==
  ASSUME NEW h, H3Well(h), ~h.inh
  PROVE  H3Well(H3!CloseSession(h)) /\ H3!CloseSession(h).st = "IDLE"
<1> DEFINE g == H3!CloseSession(h)
           cs == [c \in H3Conns |-> H3!NoH3]
           ts == [c \in H3Conns |-> IF H3!On(h, c) THEN "gone" ELSE h.tun[c]]
<1>1. h \in H3Type /\ h.tun \in [H3Conns -> H2Known]
  BY Zenon DEF H3Well, H3Type
<1>2. g = [h EXCEPT !.conn = cs, !.closing = {}, !.tasks = {}, !.st = "IDLE", !.health = "none",
                    !.closed = FALSE, !.tun = ts]
  BY Zenon DEF H3!CloseSession
<1>3. cs \in [H3Conns -> H3Conn] /\ ts \in [H3Conns -> H2Known]
  <2>1. "gone" \in H2Known
    BY Zenon DEF H2Known
  <2> QED BY <1>1, <2>1, H3NoConn, Zenon
<1>4. \A c \in H3Conns : cs[c] = H3!NoH3 /\ H3Kept(cs[c], ts[c], {})
  <2> SUFFICES ASSUME NEW c \in H3Conns PROVE cs[c] = H3!NoH3 /\ H3Kept(cs[c], ts[c], {})
    BY Zenon
  <2>1. ts[c] \in {"none", "gone"}
    <3>1. H3Kept(h.conn[c], h.tun[c], h.tasks)
      BY Zenon DEF H3Well
    <3>2. h.tun[c] \in H2Known
      BY <1>1, Zenon
    <3>3. CASE H3!On(h, c)
      BY <3>3, Zenon
    <3>4. CASE ~H3!On(h, c)
      <4>1. h.tun[c] \notin {"waiting", "open"}
        BY <3>1, <3>4, Zenon DEF H3Kept, H3!On
      <4> QED BY <3>2, <3>4, <4>1, Zenon DEF H2Known
    <3> QED BY <3>3, <3>4, Zenon
  <2> QED BY <2>1, H3NoConn, Zenon
<1> HIDE DEF cs, ts, g
<1>5. g \in H3Type
  <2>1. {} \in SUBSET H3Conns /\ {} \in SUBSET H3Tasks /\ "none" \in H3Health
    BY Zenon DEF H3Health
  <2> QED BY <1>1, <1>2, <1>3, <2>1, Zenon DEF H3Type
<1>6. g.conn = cs /\ g.tun = ts /\ g.tasks = {} /\ g.closing = {} /\ g.st = "IDLE" /\ g.inh = h.inh
  BY <1>1, <1>2, Zenon DEF H3Type
<1> QED BY <1>4, <1>5, <1>6, H3NoConn, Zenon DEF H3Well, g

LEMMA H3Frame ==
  ASSUME NEW h, H3Well(h), NEW g \in H3Type, g.conn = h.conn, g.tun = h.tun, g.closing = h.closing,
         "read" \in h.tasks => "read" \in g.tasks, "close" \in h.tasks => "close" \in g.tasks,
         g.inh => g.st # "IDLE", g.st = "IDLE" => h.st = "IDLE" /\ g.tasks = {}
  PROVE  H3Well(g)
<1>1. \A c \in H3Conns : H3Kept(g.conn[c], g.tun[c], g.tasks)
  BY Zenon DEF H3Well, H3Kept
<1>2. g.closing # {} => "close" \in g.tasks
  BY Zenon DEF H3Well
<1>3. ASSUME g.st = "IDLE"
      PROVE  g.tasks = {} /\ g.closing = {} /\ \A c \in H3Conns : g.conn[c].kind = "none"
  <2>1. h.st = "IDLE" /\ g.tasks = {}
    BY <1>3, Zenon
  <2>2. h.closing = {} /\ \A c \in H3Conns : h.conn[c].kind = "none"
    BY <2>1, Zenon DEF H3Well
  <2> QED BY <2>1, <2>2, Zenon
<1> QED BY <1>1, <1>2, <1>3, Zenon DEF H3Well

LEMMA H3Live ==
  ASSUME H3OK, NEW c \in H3Conns
  PROVE  /\ h3 \in H3Type /\ h3.conn[c] \in H3Conn /\ H3Kept(h3.conn[c], h3.tun[c], h3.tasks)
         /\ h3.conn[c].kind # "none" => h3.st # "IDLE"
         /\ h3.conn[c].unread > 0 => h3.conn[c].kind = "stream"
         /\ h3.conn[c].read => h3.conn[c].kind = "stream"
<1>1. h3 \in H3Type /\ H3Kept(h3.conn[c], h3.tun[c], h3.tasks) /\ (h3.conn[c].kind # "none" => h3.st # "IDLE")
  BY Zenon DEF H3OK, H3Well
<1>2. h3.conn[c] \in H3Conn
  BY <1>1, H3Fields, Zenon
<1>3. ~(0 > 0)
  BY SMT
<1> QED BY <1>1, <1>2, <1>3, Zenon DEF H3Kept

LEMMA H3Taken ==
  ASSUME H3OK, NEW c \in H3Conns
  PROVE  LET n == H3!Taken(c)
             k == h3.conn[c] IN
         /\ n \in Nat /\ n <= space[c] /\ n <= k.unread
         /\ k.unread - n \in Nat /\ space[c] - n \in Nat
         /\ k.read /\ space[c] > n => k.unread - n = 0
         /\ ~k.read => n = 0 /\ k.unread - n = k.unread
<1> DEFINE n == H3!Taken(c)
           k == h3.conn[c]
           s == space[c]
           u == k.unread
<1>1. s \in Nat /\ k \in H3Conn
  BY H3Live, Zenon DEF H3OK
<1>2. u \in Nat /\ k.read \in BOOLEAN
  BY <1>1, H3ConnFields, Zenon
<1>3. \A a, b \in Nat : \A m : m = (IF a < b THEN a ELSE b) =>
         m \in Nat /\ m <= a /\ m <= b /\ b - m \in Nat /\ a - m \in Nat /\ (a > m => b - m = 0)
  BY SMT
<1>4. \A a \in Nat : a - 0 = a /\ 0 <= a /\ 0 \in Nat
  BY SMT
<1>5. CASE k.read
  <2>1. n = IF s < u THEN s ELSE u
    BY <1>5, Zenon DEF H3!Taken, H3!Less
  <2> HIDE DEF n, s, u, k
  <2>2. n \in Nat /\ n <= s /\ n <= u /\ u - n \in Nat /\ s - n \in Nat /\ (s > n => u - n = 0)
    BY <1>1, <1>2, <1>3, <2>1, Zenon
  <2> QED BY <1>5, <2>2, Zenon DEF n, s, u, k
<1>6. CASE ~k.read
  <2>1. n = 0
    BY <1>6, Zenon DEF H3!Taken
  <2> HIDE DEF n, s, u, k
  <2> QED BY <1>1, <1>2, <1>4, <1>6, <2>1, Zenon DEF n, s, u, k
<1> QED BY <1>2, <1>5, <1>6, Zenon

LEMMA H3CleanedKept ==
  ASSUME NEW h \in H3Type, NEW c \in H3Conns
  PROVE  LET g == H3!Cleaned(h, c) IN
         H3Same(h, g, c) /\ g.conn[c] = H3!NoH3 /\ g.tun[c] = "gone" /\ \A T : H3Kept(g.conn[c], g.tun[c], T)
<1>1. "gone" \in {"none", "gone"}
  BY Zenon
<1>2. \A T : H3Kept(H3!NoH3, "gone", T)
  BY <1>1, H3NoConn, Zenon
<1> QED BY <1>2, H3Cleaned, Zenon

LEMMA H3PendingTaken ==
  ASSUME H3OK, NEW c \in H3Conns, h3.conn[c].unread > 0
  PROVE  LET g == H3!PendingTaken(h3, c, H3!Taken(c)) IN
         H3Same(h3, g, c) /\ H3Kept(g.conn[c], g.tun[c], {})
<1> DEFINE n == H3!Taken(c)
           o == h3.conn[c]
           u == o.unread - n
           r == o.read /\ space[c] > n
           k == [o EXCEPT !.unread = u, !.read = r]
           g == H3!PendingTaken(h3, c, n)
<1>1. /\ h3 \in H3Type /\ o \in H3Conn /\ H3Kept(o, h3.tun[c], h3.tasks) /\ o.kind = "stream"
  BY H3Live, Zenon
<1>2. u \in Nat /\ (r => u = 0)
  BY H3Taken, Zenon
<1>3. r \in BOOLEAN
  BY Zenon
<1>4. k \in H3Conn /\ k.kind = o.kind /\ k.streamClosed = o.streamClosed /\ k.unread = u /\ k.read = r
  <2> HIDE DEF u, r, o
  <2> QED BY <1>1, <1>2, <1>3, Zenon DEF H3Conn
<1>5. g = IF k.streamClosed /\ k.unread = 0 THEN H3!Cleaned(h3, c) ELSE [h3 EXCEPT !.conn[c] = k]
  BY Zenon DEF H3!PendingTaken
<1>6. \A a \in Nat : a # 0 <=> a > 0
  BY SMT
<1> HIDE DEF u, r, k, g, n, o
<1>7. CASE k.streamClosed /\ k.unread = 0
  BY <1>1, <1>5, <1>7, H3CleanedKept, Zenon DEF g, n
<1>8. CASE ~(k.streamClosed /\ k.unread = 0)
  <2>1. H3Same(h3, g, c) /\ g.conn[c] = k /\ g.tun = h3.tun
    BY <1>1, <1>4, <1>5, <1>8, H3SetConn, Zenon
  <2>2. o.kind # "none" <=> h3.tun[c] \in {"waiting", "open"}
    BY <1>1, Zenon DEF H3Kept
  <2>3. ~(k.read /\ k.unread > 0)
    BY <1>2, <1>4, <1>6, Zenon
  <2>4. k.streamClosed => k.unread > 0
    BY <1>2, <1>4, <1>6, <1>8, Zenon
  <2>5. H3Kept(k, h3.tun[c], {})
    BY <1>1, <1>4, <2>2, <2>3, <2>4, Zenon DEF H3Kept
  <2> QED BY <2>1, <2>5, Zenon DEF g, n
<1> QED BY <1>7, <1>8, Zenon

LEMMA H3Closed ==
  ASSUME H3OK, NEW c \in H3Conns, H3!On(h3, c)
  PROVE  LET g == H3!CloseTcpConnection(h3, c) IN
         H3Same(h3, g, c) /\ g.conn[c] = H3!NoH3 /\ g.tun[c] = "gone" /\ H3Kept(g.conn[c], g.tun[c], {})
<1>1. H3!CloseTcpConnection(h3, c) = H3!Cleaned(h3, c)
  BY Zenon DEF H3!CloseTcpConnection
<1> QED BY <1>1, H3Live, H3CleanedKept, Zenon

LEMMA H3Pending ==
  ASSUME H3OK, NEW S, NEW R, S \subseteq {c \in H3Conns : h3.conn[c].unread > 0}, R \subseteq S
  PROVE  LET g == H3!ProcessPending(S, R) IN
         /\ g \in H3Type /\ g.tasks = h3.tasks /\ g.st = h3.st /\ g.inh = h3.inh /\ g.closing \subseteq h3.closing
         /\ \A c \in H3Conns : c \notin S => g.conn[c] = h3.conn[c] /\ g.tun[c] = h3.tun[c]
         /\ \A c \in S : H3Kept(g.conn[c], g.tun[c], {})
<1> DEFINE took(c) == IF c \in R THEN H3!CloseTcpConnection(h3, c) ELSE H3!PendingTaken(h3, c, H3!Taken(c))
           cs == [c \in H3Conns |-> IF c \in S THEN took(c).conn[c] ELSE h3.conn[c]]
           ts == [c \in H3Conns |-> IF c \in S THEN took(c).tun[c] ELSE h3.tun[c]]
           ds == {c \in h3.closing : c \in S => c \in took(c).closing}
           g == H3!ProcessPending(S, R)
<1>1. \A c \in S : H3Same(h3, took(c), c) /\ H3Kept(took(c).conn[c], took(c).tun[c], {})
  <2> SUFFICES ASSUME NEW c \in S PROVE H3Same(h3, took(c), c) /\ H3Kept(took(c).conn[c], took(c).tun[c], {})
    BY Zenon
  <2>1. c \in H3Conns /\ h3.conn[c].unread > 0
    BY Zenon
  <2>2. H3!On(h3, c)
    <3>1. h3.conn[c].kind = "stream"
      BY <2>1, H3Live, Zenon
    <3> QED BY <3>1, SMT DEF H3!On
  <2>3. CASE c \in R
    BY <2>1, <2>2, <2>3, H3Closed, Zenon
  <2>4. CASE c \notin R
    BY <2>1, <2>4, H3PendingTaken, Zenon
  <2> QED BY <2>3, <2>4, Zenon
<1>2. g = [h3 EXCEPT !.conn = cs, !.tun = ts, !.closing = ds]
  BY Zenon DEF H3!ProcessPending
<1> HIDE DEF took, g
<1>3. h3 \in H3Type /\ S \subseteq H3Conns
  BY Zenon DEF H3OK, H3Well
<1>4. \A c \in S : took(c).conn[c] \in H3Conn /\ took(c).tun[c] \in H2Known
  BY <1>1, <1>3, H3Fields, Zenon DEF H3Same
<1>5. cs \in [H3Conns -> H3Conn] /\ ts \in [H3Conns -> H2Known]
  BY <1>3, <1>4, H3Fields, Zenon
<1>6. ds \in SUBSET H3Conns /\ ds \subseteq h3.closing
  <2>1. h3.closing \in SUBSET H3Conns
    BY <1>3, Zenon DEF H3Type
  <2> QED BY <2>1, Zenon
<1>7. \A c \in H3Conns : /\ c \notin S => cs[c] = h3.conn[c] /\ ts[c] = h3.tun[c]
                         /\ c \in S => cs[c] = took(c).conn[c] /\ ts[c] = took(c).tun[c]
  BY Zenon
<1> HIDE DEF cs, ts, ds
<1>8. /\ g \in H3Type /\ g.tasks = h3.tasks /\ g.st = h3.st /\ g.inh = h3.inh /\ g.closing = ds
      /\ g.conn = cs /\ g.tun = ts
  BY <1>2, <1>3, <1>5, <1>6, Zenon DEF H3Type
<1> QED BY <1>1, <1>3, <1>6, <1>7, <1>8, Zenon DEF g

LEMMA H3Space ==
  ASSUME H3OK, NEW S, NEW R, H3!SpaceTaken(S, R)
  PROVE  space' \in [H3Conns -> Nat]
<1>1. \A c \in H3Conns : space[c] - H3!Taken(c) \in Nat /\ space[c] \in Nat
  BY H3Taken, Zenon DEF H3OK
<1> QED BY <1>1, Zenon DEF H3!SpaceTaken

LEMMA H3Serve ==
  ASSUME H3OK, NEW S, NEW R, S \subseteq {c \in H3Conns : h3.conn[c].unread > 0}, R \subseteq S,
         NEW t \in {"read", "post", "notify"}, t \in h3.tasks,
         t = "read" => S = {c \in H3Conns : h3.conn[c].unread > 0}
  PROVE  H3Well([H3!ProcessPending(S, R) EXCEPT !.tasks = @ \ {t}])
<1> DEFINE p == H3!ProcessPending(S, R)
           T == p.tasks \ {t}
           g == [p EXCEPT !.tasks = T]
<1>1. /\ p \in H3Type /\ p.tasks = h3.tasks /\ p.st = h3.st /\ p.inh = h3.inh /\ p.closing \subseteq h3.closing
      /\ \A c \in H3Conns : c \notin S => p.conn[c] = h3.conn[c] /\ p.tun[c] = h3.tun[c]
      /\ \A c \in S : H3Kept(p.conn[c], p.tun[c], {})
  BY H3Pending, Zenon
<1> HIDE DEF p
<1>2. T \in SUBSET H3Tasks
  BY <1>1, Zenon DEF H3Type
<1>3. /\ g \in H3Type /\ g.tasks = T /\ g.st = p.st /\ g.inh = p.inh /\ g.closing = p.closing
      /\ g.conn = p.conn /\ g.tun = p.tun
  <2> HIDE DEF T
  <2> QED BY <1>1, <1>2, Zenon DEF H3Type
<1>4. h3.st # "IDLE"
  BY Zenon DEF H3OK, H3Well
<1>5. "close" \in h3.tasks => "close" \in T
  <2>1. t # "close"
    BY SMT
  <2> QED BY <1>1, <2>1, Zenon
<1>6. "read" \in h3.tasks /\ t # "read" => "read" \in T
  BY <1>1, Zenon
<1> HIDE DEF T, g
<1>7. \A c \in H3Conns : H3Kept(g.conn[c], g.tun[c], g.tasks)
  <2> SUFFICES ASSUME NEW c \in H3Conns PROVE H3Kept(g.conn[c], g.tun[c], g.tasks)
    BY Zenon
  <2>1. CASE c \in S
    <3>1. H3Kept(g.conn[c], g.tun[c], {})
      BY <1>1, <1>3, <2>1, Zenon
    <3> QED BY <3>1, Zenon DEF H3Kept
  <2>2. CASE c \notin S
    <3>1. H3Kept(g.conn[c], g.tun[c], h3.tasks) /\ g.conn[c] = h3.conn[c]
      BY <1>1, <1>3, <2>2, H3Live, Zenon
    <3>2. CASE t = "read"
      <4>1. ~(g.conn[c].unread > 0)
        BY <2>2, <3>1, <3>2, Zenon
      <4> QED BY <3>1, <4>1, Zenon DEF H3Kept
    <3>3. CASE t # "read"
      BY <1>3, <1>6, <3>1, <3>3, Zenon DEF H3Kept
    <3> QED BY <3>2, <3>3, Zenon
  <2> QED BY <2>1, <2>2, Zenon
<1>8. g.closing # {} => "close" \in g.tasks
  <2>1. g.closing # {} => h3.closing # {}
    BY <1>1, <1>3, Zenon
  <2>2. h3.closing # {} => "close" \in h3.tasks
    BY Zenon DEF H3OK, H3Well
  <2> QED BY <1>3, <1>5, <2>1, <2>2, Zenon
<1>9. H3Well(g)
  BY <1>1, <1>3, <1>4, <1>7, <1>8, Zenon DEF H3Well
<1> QED BY <1>9, Zenon DEF g, T, p

LEMMA H3ServeStep ==
  ASSUME H3OK, H3Well(h3'), h3'.st = h3.st, space' \in [H3Conns -> Nat], holder' = holder
  PROVE  H3OK'
BY Zenon DEF H3OK

LEMMA H3ServeSt ==
  ASSUME H3OK, NEW S, NEW R, S \subseteq {c \in H3Conns : h3.conn[c].unread > 0}, R \subseteq S, NEW t
  PROVE  [H3!ProcessPending(S, R) EXCEPT !.tasks = @ \ {t}].st = h3.st
<1> DEFINE p == H3!ProcessPending(S, R)
<1>1. p \in H3Type /\ p.st = h3.st
  BY H3Pending, Zenon
<1> HIDE DEF p
<1>2. [p EXCEPT !.tasks = @ \ {t}].st = p.st
  BY <1>1, Zenon DEF H3Type
<1> QED BY <1>1, <1>2, Zenon DEF p

LEMMA H3CompleteReadStep ==
  ASSUME H3OK, H3!CompleteRead
  PROVE  H3OK'
<1> DEFINE S == {c \in H3Conns : h3.conn[c].unread > 0}
<1>1. PICK R \in H3!Refusers(S) : /\ h3' = [H3!ProcessPending(S, R) EXCEPT !.tasks = @ \ {"read"}]
                                  /\ H3!SpaceTaken(S, R)
  BY Zenon DEF H3!CompleteRead
<1>2. R \subseteq S /\ "read" \in h3.tasks /\ holder' = holder /\ "read" \in {"read", "post", "notify"}
  BY Zenon DEF H3!CompleteRead, H3!Refusers
<1>3. S \subseteq {c \in H3Conns : h3.conn[c].unread > 0}
  BY Zenon
<1>4. H3Well(h3')
  BY <1>1, <1>2, <1>3, H3Serve, Zenon
<1>5. h3'.st = h3.st
  BY <1>1, <1>2, <1>3, H3ServeSt, Zenon
<1> QED BY <1>1, <1>2, <1>4, <1>5, H3Space, H3ServeStep, Zenon

LEMMA H3NotifySentStep ==
  ASSUME H3OK, H3!NotifySent
  PROVE  H3OK'
<1> DEFINE S == {c \in H3Conns : h3.conn[c].read /\ ~h3.conn[c].streamClosed /\ h3.conn[c].unread > 0}
<1>1. PICK R \in H3!Refusers(S) : /\ h3' = [H3!ProcessPending(S, R) EXCEPT !.tasks = @ \ {"notify"}]
                                  /\ H3!SpaceTaken(S, R)
  BY Zenon DEF H3!NotifySent
<1>2. R \subseteq S /\ "notify" \in h3.tasks /\ holder' = holder /\ "notify" \in {"read", "post", "notify"}
  BY Zenon DEF H3!NotifySent, H3!Refusers
<1>3. S \subseteq {c \in H3Conns : h3.conn[c].unread > 0}
  BY Zenon
<1>4. "notify" # "read"
  BY SMT
<1> HIDE DEF S
<1>5. H3Well(h3')
  BY <1>1, <1>2, <1>3, <1>4, H3Serve, Zenon
<1>6. h3'.st = h3.st
  BY <1>1, <1>2, <1>3, H3ServeSt, Zenon
<1> QED BY <1>1, <1>2, <1>5, <1>6, H3Space, H3ServeStep, Zenon

LEMMA H3PostReceiveStep ==
  ASSUME H3OK, H3!PostReceive
  PROVE  H3OK'
<1> DEFINE S == {c \in H3Conns : h3.conn[c].read /\ ~h3.conn[c].streamClosed /\ h3.conn[c].unread > 0}
<1>1. PICK R \in H3!Refusers(S), Q \in SUBSET {c \in H3Conns : h3.conn[c].kind = "retriable"} :
         /\ h3' = [H3!ProcessPending(S, R) EXCEPT !.tasks = @ \ {"post"},
                        !.conn = [c \in H3Conns |-> IF c \in Q THEN [@[c] EXCEPT !.kind = "stream"] ELSE @[c]]]
         /\ H3!SpaceTaken(S, R)
  BY Zenon DEF H3!PostReceive
<1> DEFINE p == H3!ProcessPending(S, R)
           g == [p EXCEPT !.tasks = @ \ {"post"}]
           retry(f) == [c \in H3Conns |-> IF c \in Q THEN [f[c] EXCEPT !.kind = "stream"] ELSE f[c]]
           cs == retry(g.conn)
<1>2. R \subseteq S /\ "post" \in h3.tasks /\ holder' = holder /\ "post" \in {"read", "post", "notify"}
  BY Zenon DEF H3!PostReceive, H3!Refusers
<1>3. S \subseteq {c \in H3Conns : h3.conn[c].unread > 0}
  BY Zenon
<1>4. "post" # "read"
  BY SMT
<1> HIDE DEF S
<1>5. H3Well(g)
  BY <1>2, <1>3, <1>4, H3Serve, Zenon
<1>6. g.st = h3.st
  BY <1>2, <1>3, H3ServeSt, Zenon
<1>7. /\ p \in H3Type
      /\ \A c \in H3Conns : c \notin S => p.conn[c] = h3.conn[c] /\ p.tun[c] = h3.tun[c]
  BY <1>2, <1>3, H3Pending, ZenonT(90)
<1>8. g.conn = p.conn /\ g \in H3Type
  <2>1. g \in H3Type
    BY <1>5, Zenon DEF H3Well
  <2> HIDE DEF p
  <2> QED BY <1>7, <2>1, Zenon DEF H3Type
<1>9. h3' = [g EXCEPT !.conn = cs]
  <2>1. h3' = [p EXCEPT !.tasks = @ \ {"post"}, !.conn = retry(p.conn)]
    BY <1>1, Zenon
  <2> HIDE DEF retry
  <2>2. cs = retry(p.conn)
    BY <1>8, Zenon
  <2> HIDE DEF p, cs
  <2> QED BY <1>7, <2>1, <2>2, Zenon DEF H3Type
<1>10. \A c \in Q : c \in H3Conns /\ c \notin S /\ g.conn[c] = h3.conn[c] /\ h3.conn[c].kind = "retriable"
  <2> SUFFICES ASSUME NEW c \in Q
               PROVE  c \in H3Conns /\ c \notin S /\ g.conn[c] = h3.conn[c] /\ h3.conn[c].kind = "retriable"
    BY Zenon
  <2>1. c \in H3Conns /\ h3.conn[c].kind = "retriable"
    BY <1>1, Zenon
  <2>2. h3.conn[c].kind # "stream"
    BY <2>1, SMT
  <2>3. c \notin S
    BY <1>3, <2>1, <2>2, H3Live, Zenon
  <2> QED BY <1>7, <1>8, <2>1, <2>3, Zenon
<1> HIDE DEF g
<1>11. \A c \in H3Conns : /\ cs[c] \in H3Conn /\ H3Kept(cs[c], g.tun[c], g.tasks)
                          /\ cs[c].kind = "none" <=> g.conn[c].kind = "none"
  <2> SUFFICES ASSUME NEW c \in H3Conns
               PROVE  /\ cs[c] \in H3Conn /\ H3Kept(cs[c], g.tun[c], g.tasks)
                      /\ cs[c].kind = "none" <=> g.conn[c].kind = "none"
    BY Zenon
  <2>1. g.conn[c] \in H3Conn /\ H3Kept(g.conn[c], g.tun[c], g.tasks)
    BY <1>5, <1>8, H3Fields, Zenon DEF H3Well
  <2>2. CASE c \notin Q
    <3>1. cs[c] = g.conn[c]
      BY <2>2, Zenon
    <3> QED BY <2>1, <3>1, Zenon
  <2>3. CASE c \in Q
    <3> DEFINE k == g.conn[c]
               n == [k EXCEPT !.kind = "stream"]
    <3>1. cs[c] = n
      BY <2>3, Zenon
    <3>2. k.kind = "retriable"
      BY <1>10, <2>3, Zenon
    <3> HIDE DEF cs, k
    <3>3. /\ n \in H3Conn /\ n.kind = "stream" /\ n.read = k.read /\ n.streamClosed = k.streamClosed
          /\ n.unread = k.unread
      BY <2>1, Zenon DEF H3Conn, k
    <3>4. k.kind # "none" /\ n.kind # "none" /\ k.kind # "stream"
      BY <3>2, <3>3, SMT
    <3> HIDE DEF n
    <3>5. H3Kept(n, g.tun[c], g.tasks)
      BY <2>1, <3>3, <3>4, Zenon DEF H3Kept, k
    <3> QED BY <3>1, <3>3, <3>4, <3>5, Zenon DEF k
  <2> QED BY <2>2, <2>3, Zenon
<1>12. cs \in [H3Conns -> H3Conn]
  BY <1>11, Zenon
<1> HIDE DEF cs
<1>13. /\ h3' \in H3Type /\ h3'.conn = cs /\ h3'.tun = g.tun /\ h3'.tasks = g.tasks /\ h3'.closing = g.closing
       /\ h3'.st = g.st /\ h3'.inh = g.inh
  BY <1>8, <1>9, <1>12, Zenon DEF H3Type
<1>14. H3Well(h3')
  BY <1>5, <1>11, <1>13, Zenon DEF H3Well
<1> QED BY <1>1, <1>2, <1>6, <1>13, <1>14, H3Space, H3ServeStep, Zenon

LEMMA H3SessionStep ==
  ASSUME H3OK, \/ H3!OpenSession \/ H3!Readable \/ H3!HandshakeCompleted \/ H3!Output \/ H3!DoHealthCheck
               \/ H3!HealthCheckTask
               \/ /\ h3' = [h3 EXCEPT !.closed = TRUE, !.err = h3'.err] /\ h3'.err \in BOOLEAN
                  /\ UNCHANGED <<space, holder>>
  PROVE  H3OK'
<1>1. /\ H3Well(h3) /\ h3 \in H3Type /\ h3.tasks \in SUBSET H3Tasks /\ space \in [H3Conns -> Nat]
      /\ (h3.inh => h3.st # "IDLE")
  BY Zenon DEF H3OK, H3Well, H3Type
<1>2. CASE H3!OpenSession
  <2>1. PICK T \in {{}, {"handoff"}} : h3' = [h3 EXCEPT !.st = "ESTABLISHING", !.tasks = T]
    BY <1>2, Zenon DEF H3!OpenSession
  <2>2. T \in SUBSET H3Tasks
    BY Zenon DEF H3Tasks
  <2>3. /\ h3' \in H3Type /\ h3'.conn = h3.conn /\ h3'.tun = h3.tun /\ h3'.closing = h3.closing
        /\ h3'.st = "ESTABLISHING" /\ h3'.tasks = T
    BY <1>1, <2>1, <2>2, Zenon DEF H3Type
  <2>4. h3.tasks = {}
    BY <1>2, Zenon DEF H3!OpenSession, H3OK, H3Well
  <2>5. h3'.st # "IDLE" /\ "opening" \notin {"none", "closed", "error"}
    BY <2>3, SMT
  <2>6. H3Well(h3')
    BY <1>1, <2>3, <2>4, <2>5, H3Frame, Zenon
  <2>7. holder' = "opening" /\ space' = space
    BY <1>2, Zenon DEF H3!OpenSession
  <2> QED BY <1>1, <2>5, <2>6, <2>7, Zenon DEF H3OK
<1>3. CASE H3!Readable
  <2>1. h3.st # "IDLE" /\ holder' = holder /\ space' = space
    BY <1>3, Zenon DEF H3!Readable
  <2>2. PICK T \in SUBSET H3Tasks : /\ h3' = [h3 EXCEPT !.inh = TRUE, !.tasks = T]
                                    /\ T = h3.tasks \/ T = h3.tasks \ {"handoff"}
    <3>1. CASE h3' = [h3 EXCEPT !.inh = TRUE]
      <4>1. h3' = [h3 EXCEPT !.inh = TRUE, !.tasks = h3.tasks]
        BY <1>1, <3>1, Zenon DEF H3Type
      <4> QED BY <1>1, <4>1, Zenon
    <3>2. CASE h3' = [h3 EXCEPT !.inh = TRUE, !.tasks = @ \ {"handoff"}]
      <4>1. h3.tasks \ {"handoff"} \in SUBSET H3Tasks
        BY <1>1, Zenon
      <4> QED BY <3>2, <4>1, Zenon
    <3> QED BY <1>3, <3>1, <3>2, Zenon DEF H3!Readable
  <2>3. "read" # "handoff" /\ "close" # "handoff"
    BY SMT
  <2>4. ("read" \in h3.tasks => "read" \in T) /\ ("close" \in h3.tasks => "close" \in T)
    BY <2>2, <2>3, Zenon
  <2>5. /\ h3' \in H3Type /\ h3'.conn = h3.conn /\ h3'.tun = h3.tun /\ h3'.closing = h3.closing
        /\ h3'.st = h3.st /\ h3'.tasks = T
    BY <1>1, <2>2, Zenon DEF H3Type
  <2>6. H3Well(h3')
    BY <1>1, <2>1, <2>4, <2>5, H3Frame, Zenon
  <2> QED BY <1>1, <2>1, <2>5, <2>6, H3ServeStep, Zenon
<1>4. CASE H3!HandshakeCompleted
  <2>1. h3' = [h3 EXCEPT !.st = "ESTABLISHED"] /\ holder' = "open" /\ space' = space
    BY <1>4, Zenon DEF H3!HandshakeCompleted
  <2>2. /\ h3' \in H3Type /\ h3'.conn = h3.conn /\ h3'.tun = h3.tun /\ h3'.closing = h3.closing
        /\ h3'.st = "ESTABLISHED" /\ h3'.tasks = h3.tasks
    BY <1>1, <2>1, Zenon DEF H3Type
  <2>3. h3'.st # "IDLE" /\ "open" \notin {"none", "closed", "error"}
    BY <2>2, SMT
  <2>4. H3Well(h3')
    BY <1>1, <2>2, <2>3, H3Frame, Zenon
  <2> QED BY <1>1, <2>1, <2>3, <2>4, Zenon DEF H3OK
<1>5. CASE H3!Output
  <2>1. PICK t \in {"notify", "flushError"} : h3' = [h3 EXCEPT !.tasks = @ \union {t}]
    BY <1>5, Zenon DEF H3!Output
  <2>2. h3.st # "IDLE" /\ holder' = holder /\ space' = space
    BY <1>5, Zenon DEF H3!Output
  <2> DEFINE T == h3.tasks \union {t}
  <2>3. T \in SUBSET H3Tasks /\ h3.tasks \subseteq T
    <3>1. t \in H3Tasks
      BY Zenon DEF H3Tasks
    <3> QED BY <1>1, <3>1, Zenon
  <2>4. h3' = [h3 EXCEPT !.tasks = T]
    BY <2>1, Zenon
  <2> HIDE DEF T
  <2>5. /\ h3' \in H3Type /\ h3'.conn = h3.conn /\ h3'.tun = h3.tun /\ h3'.closing = h3.closing
        /\ h3'.st = h3.st /\ h3'.tasks = T
    BY <1>1, <2>3, <2>4, Zenon DEF H3Type
  <2>6. H3Well(h3')
    BY <1>1, <2>2, <2>3, <2>5, H3Frame, Zenon
  <2> QED BY <1>1, <2>2, <2>5, <2>6, H3ServeStep, Zenon
<1>6. CASE H3!DoHealthCheck \/ H3!HealthCheckTask
  <2>1. PICK how \in H3Health : h3' = [h3 EXCEPT !.health = how]
    <3>1. {"stream", "retry"} \subseteq H3Health /\ {"unsent"} \subseteq H3Health /\ {"none"} \subseteq H3Health
      BY Zenon DEF H3Health
    <3>2. CASE H3!DoHealthCheck
      <4>1. PICK how \in IF h3.st = "ESTABLISHED" THEN {"stream", "retry"} ELSE {"unsent"} :
               h3' = [h3 EXCEPT !.health = how]
        BY <3>2, Zenon DEF H3!DoHealthCheck
      <4> QED BY <3>1, <4>1, Zenon
    <3>3. CASE H3!HealthCheckTask
      <4>1. PICK how \in IF h3.health = "retry" THEN {"stream", "retry"} ELSE {"none"} :
               h3' = [h3 EXCEPT !.health = how]
        BY <3>3, Zenon DEF H3!HealthCheckTask
      <4> QED BY <3>1, <4>1, Zenon
    <3> QED BY <1>6, <3>2, <3>3, Zenon
  <2>2. holder' = holder /\ space' = space
    BY <1>6, Zenon DEF H3!DoHealthCheck, H3!HealthCheckTask
  <2>3. /\ h3' \in H3Type /\ h3'.conn = h3.conn /\ h3'.tun = h3.tun /\ h3'.closing = h3.closing
        /\ h3'.st = h3.st /\ h3'.tasks = h3.tasks /\ h3'.inh = h3.inh
    BY <1>1, <2>1, Zenon DEF H3Type
  <2>4. h3.st = "IDLE" => h3.tasks = {}
    BY <1>1, Zenon DEF H3Well
  <2>5. H3Well(h3')
    BY <1>1, <2>3, <2>4, H3Frame, Zenon
  <2> QED BY <1>1, <2>2, <2>3, <2>5, H3ServeStep, Zenon
<1>7. CASE h3' = [h3 EXCEPT !.closed = TRUE, !.err = h3'.err] /\ h3'.err \in BOOLEAN /\ UNCHANGED <<space, holder>>
  <2>1. PICK e \in BOOLEAN : h3' = [h3 EXCEPT !.closed = TRUE, !.err = e]
    BY <1>7, Zenon
  <2>2. holder' = holder /\ space' = space
    BY <1>7, Zenon
  <2>3. /\ h3' \in H3Type /\ h3'.conn = h3.conn /\ h3'.tun = h3.tun /\ h3'.closing = h3.closing
        /\ h3'.st = h3.st /\ h3'.tasks = h3.tasks /\ h3'.inh = h3.inh
    BY <1>1, <2>1, Zenon DEF H3Type
  <2>4. h3.st = "IDLE" => h3.tasks = {}
    BY <1>1, Zenon DEF H3Well
  <2>5. H3Well(h3')
    BY <1>1, <2>3, <2>4, H3Frame, Zenon
  <2> QED BY <1>1, <2>2, <2>3, <2>5, H3ServeStep, Zenon
<1> QED BY <1>2, <1>3, <1>4, <1>5, <1>6, <1>7, Zenon

LEMMA H3EndStep ==
  ASSUME H3OK, ~h3.inh, h3' = H3!CloseSession(h3), space' = space
  PROVE  H3OK'
<1>1. H3Well(h3') /\ h3'.st = "IDLE"
  BY H3CloseSession, Zenon DEF H3OK
<1> QED BY <1>1, Zenon DEF H3OK

LEMMA H3InnerStep ==
  ASSUME H3OK, NEW e \in BOOLEAN, H3!CloseSessionInner(e), space' = space
  PROVE  H3OK'
<1>1. CASE h3.inh
  <2>1. h3' = [h3 EXCEPT !.closed = TRUE, !.err = e] /\ holder' = holder
    BY <1>1, Zenon DEF H3!CloseSessionInner
  <2>2. h3'.err = e
    BY <2>1, Zenon DEF H3OK, H3Well, H3Type
  <2> QED BY <2>1, <2>2, H3SessionStep, Zenon
<1>2. CASE ~h3.inh
  <2>1. h3' = H3!CloseSession(h3)
    BY <1>2, Zenon DEF H3!CloseSessionInner
  <2> QED BY <1>2, <2>1, H3EndStep, Zenon
<1> QED BY <1>1, <1>2, Zenon

LEMMA H3ExpiryStep ==
  ASSUME H3OK, H3!Expiry
  PROVE  H3OK'
<1> DEFINE h == H3!CloseSession(h3)
<1>1. h3' = [h EXCEPT !.inside = TRUE] /\ space' = space /\ ~h3.inh
  BY Zenon DEF H3!Expiry
<1>2. H3Well(h) /\ h.st = "IDLE"
  BY <1>1, H3CloseSession, Zenon DEF H3OK
<1> HIDE DEF h
<1>3. h \in H3Type /\ h.tasks = {} /\ (h.inh => h.st # "IDLE")
  BY <1>2, Zenon DEF H3Well
<1>4. /\ h3' \in H3Type /\ h3'.conn = h.conn /\ h3'.tun = h.tun /\ h3'.closing = h.closing
      /\ h3'.st = h.st /\ h3'.tasks = h.tasks /\ h3'.inh = h.inh
  BY <1>1, <1>3, Zenon DEF H3Type
<1>5. H3Well(h3')
  BY <1>2, <1>3, <1>4, H3Frame, Zenon
<1> QED BY <1>1, <1>2, <1>4, <1>5, Zenon DEF H3OK

LEMMA H3HandlerReturnsStep ==
  ASSUME H3OK, H3!HandlerReturns
  PROVE  H3OK'
<1> DEFINE h == [h3 EXCEPT !.inh = FALSE, !.health = "none", !.err = FALSE]
<1>1. /\ space' = space /\ h3.inh
      /\ IF h3.closed THEN h3' = H3!CloseSession(h)
         ELSE h3' = [h EXCEPT !.tasks = @ \union {"post"}] /\ holder' = holder
  BY Zenon DEF H3!HandlerReturns
<1>2. H3Well(h3) /\ h3 \in H3Type /\ h3.st # "IDLE" /\ "none" \in H3Health
  BY <1>1, Zenon DEF H3OK, H3Well, H3Health
<1>3. /\ h \in H3Type /\ h.conn = h3.conn /\ h.tun = h3.tun /\ h.closing = h3.closing
      /\ h.st = h3.st /\ h.tasks = h3.tasks /\ h.inh = FALSE
  BY <1>2, Zenon DEF H3Type
<1>4. H3Well(h)
  BY <1>2, <1>3, H3Frame, Zenon
<1> HIDE DEF h
<1>5. CASE h3.closed
  <2>1. H3Well(h3') /\ h3'.st = "IDLE"
    BY <1>1, <1>3, <1>4, <1>5, H3CloseSession, Zenon
  <2> QED BY <1>1, <2>1, Zenon DEF H3OK
<1>6. CASE ~h3.closed
  <2> DEFINE T == h.tasks \union {"post"}
  <2>1. h3' = [h EXCEPT !.tasks = T] /\ holder' = holder
    BY <1>1, <1>6, Zenon
  <2>2. T \in SUBSET H3Tasks /\ h.tasks \subseteq T
    <3>1. "post" \in H3Tasks /\ h.tasks \in SUBSET H3Tasks
      BY <1>3, Zenon DEF H3Tasks, H3Type
    <3> QED BY <3>1, Zenon
  <2> HIDE DEF T
  <2>3. /\ h3' \in H3Type /\ h3'.conn = h.conn /\ h3'.tun = h.tun /\ h3'.closing = h.closing
        /\ h3'.st = h.st /\ h3'.tasks = T /\ h3'.inh = h.inh
    BY <1>3, <2>1, <2>2, Zenon DEF H3Type
  <2>4. H3Well(h3')
    BY <1>2, <1>3, <1>4, <2>2, <2>3, H3Frame, Zenon
  <2> QED BY <1>1, <1>3, <2>1, <2>3, <2>4, H3ServeStep, Zenon DEF H3OK
<1> QED BY <1>5, <1>6, Zenon

LEMMA H3CloseTaskStep ==
  ASSUME H3OK, H3!CloseTask
  PROVE  H3OK'
<1> DEFINE cs == [c \in H3Conns |-> IF c \in h3.closing THEN H3!NoH3 ELSE h3.conn[c]]
           ts == [c \in H3Conns |-> IF c \in h3.closing THEN "gone" ELSE h3.tun[c]]
           T == h3.tasks \ {"close"}
<1>1. /\ h3' = [h3 EXCEPT !.tasks = T, !.closing = {}, !.conn = cs, !.tun = ts]
      /\ space' = space /\ holder' = holder /\ "close" \in h3.tasks
  BY Zenon DEF H3!CloseTask
<1>2. H3Well(h3) /\ h3 \in H3Type /\ h3.st # "IDLE"
  BY <1>1, Zenon DEF H3OK, H3Well
<1>3. "gone" \in H2Known /\ "gone" \in {"none", "gone"} /\ {} \in SUBSET H3Conns
  BY Zenon DEF H2Known
<1>4. cs \in [H3Conns -> H3Conn] /\ ts \in [H3Conns -> H2Known] /\ T \in SUBSET H3Tasks
  <2>1. /\ h3.conn \in [H3Conns -> H3Conn] /\ h3.tun \in [H3Conns -> H2Known] /\ h3.tasks \in SUBSET H3Tasks
    BY <1>2, Zenon DEF H3Type
  <2> QED BY <1>3, <2>1, H3NoConn, Zenon
<1>5. "read" \in h3.tasks => "read" \in T
  <2>1. "read" # "close"
    BY SMT
  <2> QED BY <2>1, Zenon
<1>6. \A c \in H3Conns : H3Kept(cs[c], ts[c], T)
  <2> SUFFICES ASSUME NEW c \in H3Conns PROVE H3Kept(cs[c], ts[c], T)
    BY Zenon
  <2> HIDE DEF T
  <2>1. CASE c \in h3.closing
    <3>1. cs[c] = H3!NoH3 /\ ts[c] = "gone"
      BY <2>1, Zenon
    <3> QED BY <1>3, <3>1, H3NoConn, Zenon
  <2>2. CASE c \notin h3.closing
    <3>1. cs[c] = h3.conn[c] /\ ts[c] = h3.tun[c] /\ H3Kept(h3.conn[c], h3.tun[c], h3.tasks)
      BY <1>2, <2>2, Zenon DEF H3Well
    <3> QED BY <1>5, <3>1, Zenon DEF H3Kept
  <2> QED BY <2>1, <2>2, Zenon
<1> HIDE DEF cs, ts, T
<1>7. /\ h3' \in H3Type /\ h3'.conn = cs /\ h3'.tun = ts /\ h3'.closing = {} /\ h3'.st = h3.st /\ h3'.tasks = T
      /\ h3'.inh = h3.inh
  BY <1>1, <1>2, <1>3, <1>4, Zenon DEF H3Type
<1>8. H3Well(h3')
  BY <1>2, <1>6, <1>7, Zenon DEF H3Well
<1> QED BY <1>1, <1>7, <1>8, H3ServeStep, Zenon DEF H3OK

LEMMA H3OpenConnectionStep ==
  ASSUME H3OK, NEW c \in H3Conns, H3!OpenConnection(c)
  PROVE  H3OK'
<1>1. PICK k \in H3!Requested : h3' = [h3 EXCEPT !.conn[c] = k, !.tun[c] = "waiting"]
  BY Zenon DEF H3!OpenConnection
<1>2. h3.st = "ESTABLISHED" /\ space' = space /\ holder' = holder
  BY Zenon DEF H3!OpenConnection
<1>3. h3.st # "IDLE"
  BY <1>2, SMT
<1>4. /\ k \in H3Conn /\ k.kind \in {"stream", "retriable"} /\ k.read = FALSE /\ k.streamClosed = FALSE
      /\ k.unread = 0
  BY H3NoConn, Zenon DEF H3!Requested, H3!NoH3, H3Conn
<1>5. k.kind # "none" /\ ~(0 > 0)
  BY <1>4, SMT
<1>6. h3 \in H3Type /\ space \in [H3Conns -> Nat] /\ "waiting" \in H2Known
  BY Zenon DEF H3OK, H3Well, H2Known
<1>7. h3.conn \in [H3Conns -> H3Conn] /\ h3.tun \in [H3Conns -> H2Known]
  BY <1>6, H3Fields, Zenon
<1>8. /\ h3' \in H3Type /\ h3'.conn = [h3.conn EXCEPT ![c] = k] /\ h3'.tun = [h3.tun EXCEPT ![c] = "waiting"]
      /\ h3'.closing = h3.closing /\ h3'.st = h3.st /\ h3'.tasks = h3.tasks /\ h3'.inh = h3.inh
  BY <1>1, <1>4, <1>6, Zenon DEF H3Type
<1>9. /\ h3'.conn[c] = k /\ h3'.tun[c] = "waiting"
      /\ \A d \in H3Conns : d # c => h3'.conn[d] = h3.conn[d] /\ h3'.tun[d] = h3.tun[d]
  BY <1>7, <1>8, Zenon
<1>10. H3Same(h3, h3', c)
  BY <1>8, <1>9, Zenon DEF H3Same
<1>11. H3Kept(k, "waiting", h3'.tasks)
  BY <1>4, <1>5, Zenon DEF H3Kept
<1> QED BY <1>2, <1>3, <1>6, <1>9, <1>10, <1>11, H3StepOne, Zenon

LEMMA H3CloseConnectionStep ==
  ASSUME H3OK, NEW c \in H3Conns, H3!CloseConnection(c)
  PROVE  H3OK'
<1>1. PICK now \in BOOLEAN :
         LET h == IF now THEN H3!CloseTcpConnection(h3, c) ELSE h3
         IN  h3' = [h EXCEPT !.closing = @ \union {c}, !.tasks = @ \union {"close"}]
  BY Zenon DEF H3!CloseConnection
<1>2. H3!On(h3, c) /\ space' = space /\ holder' = holder
  BY Zenon DEF H3!CloseConnection
<1>3. h3 \in H3Type /\ h3.st # "IDLE" /\ H3Kept(h3.conn[c], h3.tun[c], h3.tasks)
  BY <1>2, H3Live, Zenon DEF H3!On
<1> DEFINE h == IF now THEN H3!CloseTcpConnection(h3, c) ELSE h3
           T == h.tasks \union {"close"}
           S == h.closing \union {c}
<1>4. H3Same(h3, h, c) /\ H3Kept(h.conn[c], h.tun[c], h.tasks)
  <2>1. CASE now
    <3> DEFINE g == H3!CloseTcpConnection(h3, c)
    <3>1. H3Same(h3, g, c) /\ H3Kept(g.conn[c], g.tun[c], {})
      BY <1>2, H3Closed, Zenon
    <3>2. h = g
      BY <2>1, Zenon
    <3> HIDE DEF h, g
    <3> QED BY <3>1, <3>2, Zenon DEF H3Kept
  <2>2. CASE ~now
    <3>1. h = h3
      BY <2>2, Zenon
    <3> HIDE DEF h
    <3>2. H3Same(h3, h3, c)
      BY <1>3, Zenon DEF H3Same
    <3> QED BY <1>3, <3>1, <3>2, Zenon
  <2> QED BY <2>1, <2>2, Zenon
<1>5. h3' = [h EXCEPT !.closing = S, !.tasks = T]
  BY <1>1, Zenon
<1> HIDE DEF h
<1>6. h \in H3Type
  BY <1>4, Zenon DEF H3Same
<1>7. S \in SUBSET H3Conns /\ T \in SUBSET H3Tasks /\ h.tasks \subseteq T /\ "close" \in T
  <2>1. "close" \in H3Tasks /\ h.tasks \in SUBSET H3Tasks /\ h.closing \in SUBSET H3Conns
    BY <1>6, Zenon DEF H3Tasks, H3Type
  <2> QED BY <2>1, Zenon
<1> HIDE DEF S, T
<1>8. /\ h3' \in H3Type /\ h3'.conn = h.conn /\ h3'.tun = h.tun
      /\ h3'.st = h.st /\ h3'.tasks = T /\ h3'.inh = h.inh
  BY <1>5, <1>6, <1>7, Zenon DEF H3Type
<1>9. H3Same(h3, h3', c)
  BY <1>4, <1>7, <1>8, Zenon DEF H3Same
<1>10. H3Kept(h3'.conn[c], h3'.tun[c], h3'.tasks)
  BY <1>4, <1>7, <1>8, H3KeptMore, Zenon
<1> QED BY <1>2, <1>3, <1>9, <1>10, H3StepOne, Zenon DEF H3OK

LEMMA H3ClientReadsStep ==
  ASSUME H3OK, NEW c \in H3Conns, H3!ClientReads(c)
  PROVE  H3OK'
<1> DEFINE k == h3.conn[c]
<1>1. /\ h3.tun[c] = "open" /\ space' = [space EXCEPT ![c] = H3Room] /\ holder' = holder
      /\ h3' = H3!UpdateFlowControl(h3, c, H3Room)
  BY Zenon DEF H3!ClientReads
<1>2. H3Room \in Nat
  BY UpstreamsAssumption, Zenon
<1>3. space' \in [H3Conns -> Nat]
  BY <1>1, <1>2, Zenon DEF H3OK
<1>4. /\ h3 \in H3Type /\ k \in H3Conn /\ H3Kept(k, h3.tun[c], h3.tasks) /\ (k.kind # "none" => h3.st # "IDLE")
  BY H3Live, Zenon
<1>5. h3.st # "IDLE"
  BY <1>1, <1>4, Zenon DEF H3Kept
<1>6. /\ H3Same(h3, h3', c) /\ h3'.tun = h3.tun
      /\ h3'.conn[c].kind = k.kind /\ h3'.conn[c].streamClosed = k.streamClosed /\ h3'.conn[c].unread = k.unread
      /\ k.kind = "stream" => h3'.conn[c].read = (H3Room > 0)
      /\ k.kind # "stream" => h3' = h3
      /\ k.read # (H3Room > 0) /\ H3Room > 0 /\ k.unread > 0 /\ k.kind = "stream" => "read" \in h3'.tasks
  BY <1>1, <1>2, <1>4, H3Flow, Zenon
<1>7. H3Kept(h3'.conn[c], h3'.tun[c], h3'.tasks)
  <2>1. CASE k.kind # "stream"
    BY <1>4, <1>6, <2>1, Zenon
  <2>2. CASE k.kind = "stream"
    <3>1. "read" \in h3.tasks => "read" \in h3'.tasks
      BY <1>6, Zenon DEF H3Same
    <3>2. h3'.conn[c].read /\ h3'.conn[c].unread > 0 => "read" \in h3'.tasks
      <4>1. SUFFICES ASSUME h3'.conn[c].read, h3'.conn[c].unread > 0 PROVE "read" \in h3'.tasks
        BY Zenon
      <4>2. H3Room > 0 /\ k.unread > 0
        BY <1>6, <2>2, <4>1, Zenon
      <4>3. CASE k.read
        BY <1>4, <3>1, <4>2, <4>3, Zenon DEF H3Kept
      <4>4. CASE ~k.read
        <5>1. k.read # (H3Room > 0)
          BY <4>2, <4>4, Zenon
        <5> QED BY <1>6, <2>2, <4>2, <5>1, Zenon
      <4> QED BY <4>3, <4>4, Zenon
    <3>3. h3'.conn[c].kind = "stream"
      BY <1>6, <2>2, Zenon
    <3> QED BY <1>4, <1>6, <2>2, <3>2, <3>3, Zenon DEF H3Kept
  <2> QED BY <2>1, <2>2, Zenon
<1> QED BY <1>1, <1>3, <1>5, <1>6, <1>7, H3StepOne, Zenon

LEMMA H3ResponseStep ==
  ASSUME H3OK, NEW c \in H3Conns, H3!Response(c)
  PROVE  H3OK'
<1> DEFINE k == h3.conn[c]
<1>1. /\ h3.tun[c] = "waiting" /\ space' = space /\ h3.conn[c].kind = "stream"
      /\ \/ h3' = [h3 EXCEPT !.tun[c] = "open"] /\ holder' = holder
         \/ h3' = [h3 EXCEPT !.conn[c].err = TRUE] /\ holder' = holder
         \/ H3!CloseSessionInner(TRUE)
  BY Zenon DEF H3!Response
<1>2. /\ h3 \in H3Type /\ k \in H3Conn /\ H3Kept(k, h3.tun[c], h3.tasks) /\ (k.kind # "none" => h3.st # "IDLE")
  BY H3Live, Zenon
<1>3. k.kind # "none"
  BY <1>1, SMT
<1>4. h3.conn \in [H3Conns -> H3Conn] /\ h3.tun \in [H3Conns -> H2Known] /\ space \in [H3Conns -> Nat]
  BY <1>2, H3Fields, Zenon DEF H3OK
<1>5. CASE h3' = [h3 EXCEPT !.tun[c] = "open"] /\ holder' = holder
  <2>1. "open" \in H2Known
    BY Zenon DEF H2Known
  <2>2. /\ h3' \in H3Type /\ h3'.conn = h3.conn /\ h3'.tun = [h3.tun EXCEPT ![c] = "open"]
        /\ h3'.closing = h3.closing /\ h3'.st = h3.st /\ h3'.tasks = h3.tasks /\ h3'.inh = h3.inh
    BY <1>2, <1>5, <2>1, Zenon DEF H3Type
  <2>3. h3'.tun[c] = "open" /\ \A d \in H3Conns : d # c => h3'.tun[d] = h3.tun[d]
    BY <1>4, <2>2, Zenon
  <2>4. H3Same(h3, h3', c)
    BY <2>2, <2>3, Zenon DEF H3Same
  <2>5. H3Kept(h3'.conn[c], h3'.tun[c], h3'.tasks)
    BY <1>2, <1>3, <2>2, <2>3, Zenon DEF H3Kept
  <2> QED BY <1>1, <1>2, <1>3, <1>4, <1>5, <2>4, <2>5, H3StepOne, Zenon
<1>6. CASE h3' = [h3 EXCEPT !.conn[c].err = TRUE] /\ holder' = holder
  <2> DEFINE n == [k EXCEPT !.err = TRUE]
  <2>1. /\ n \in H3Conn /\ n.kind = k.kind /\ n.streamClosed = k.streamClosed /\ n.unread = k.unread
        /\ n.read = k.read
    BY <1>2, Zenon DEF H3Conn
  <2>2. h3' = [h3 EXCEPT !.conn[c] = n]
    BY <1>2, <1>6, Zenon DEF H3Type
  <2> HIDE DEF n
  <2>3. H3Same(h3, h3', c) /\ h3'.conn[c] = n /\ h3'.tun = h3.tun /\ h3'.tasks = h3.tasks
    BY <1>2, <2>1, <2>2, H3SetConn, Zenon
  <2>4. H3Kept(h3'.conn[c], h3'.tun[c], h3'.tasks)
    BY <1>2, <2>1, <2>3, Zenon DEF H3Kept
  <2> QED BY <1>1, <1>2, <1>3, <1>4, <1>6, <2>3, <2>4, H3StepOne, Zenon
<1>7. CASE H3!CloseSessionInner(TRUE)
  BY <1>1, <1>7, H3InnerStep, Zenon
<1> QED BY <1>1, <1>5, <1>6, <1>7, Zenon

LEMMA H3StreamClosedStep ==
  ASSUME H3OK, NEW c \in H3Conns, H3!StreamClosed(c)
  PROVE  H3OK'
<1> DEFINE k == h3.conn[c]
           n == [k EXCEPT !.streamClosed = TRUE]
<1>1. /\ space' = space /\ holder' = holder /\ k.kind = "stream"
      /\ h3' = IF k.err \/ k.unread = 0 THEN H3!Cleaned(h3, c) ELSE [h3 EXCEPT !.conn[c].streamClosed = TRUE]
  BY Zenon DEF H3!StreamClosed
<1>2. /\ h3 \in H3Type /\ k \in H3Conn /\ H3Kept(k, h3.tun[c], h3.tasks) /\ (k.kind # "none" => h3.st # "IDLE")
  BY H3Live, Zenon
<1>3. k.kind # "none"
  BY <1>1, SMT
<1>4. CASE k.err \/ k.unread = 0
  <2>1. H3Same(h3, h3', c) /\ H3Kept(h3'.conn[c], h3'.tun[c], h3'.tasks)
    BY <1>1, <1>2, <1>4, H3CleanedKept, Zenon
  <2> QED BY <1>1, <1>2, <1>3, <2>1, H3StepOne, Zenon DEF H3OK
<1>5. CASE ~(k.err \/ k.unread = 0)
  <2>1. /\ n \in H3Conn /\ n.kind = k.kind /\ n.streamClosed = TRUE /\ n.unread = k.unread /\ n.read = k.read
    BY <1>2, Zenon DEF H3Conn
  <2>2. h3' = [h3 EXCEPT !.conn[c] = n]
    BY <1>1, <1>2, <1>5, Zenon DEF H3Type
  <2>3. \A a \in Nat : a # 0 => a > 0
    BY SMT
  <2>4. k.unread > 0
    BY <1>2, <1>5, <2>3, H3ConnFields, Zenon
  <2> HIDE DEF n
  <2>5. H3Same(h3, h3', c) /\ h3'.conn[c] = n /\ h3'.tun = h3.tun /\ h3'.tasks = h3.tasks
    BY <1>2, <2>1, <2>2, H3SetConn, Zenon
  <2>6. H3Kept(h3'.conn[c], h3'.tun[c], h3'.tasks)
    BY <1>1, <1>2, <2>1, <2>4, <2>5, Zenon DEF H3Kept
  <2> QED BY <1>1, <1>2, <1>3, <2>5, <2>6, H3StepOne, Zenon DEF H3OK
<1> QED BY <1>4, <1>5, Zenon

LEMMA H3BodyStep ==
  ASSUME H3OK, NEW c \in H3Conns, H3!Body(c)
  PROVE  H3OK'
<1> DEFINE k == h3.conn[c]
           direct == k.read /\ k.unread = 0
<1>1. /\ h3 \in H3Type /\ k \in H3Conn /\ H3Kept(k, h3.tun[c], h3.tasks) /\ (k.kind # "none" => h3.st # "IDLE")
  BY H3Live, Zenon
<1>2. k.kind = "stream" /\ ~k.streamClosed /\ holder' = holder
  BY Zenon DEF H3!Body
<1>3. k.kind # "none"
  BY <1>2, SMT
<1>4. CASE direct /\ h3' = H3!CloseTcpConnection(h3, c) /\ UNCHANGED space
  <2>1. H3Same(h3, h3', c) /\ H3Kept(h3'.conn[c], h3'.tun[c], {})
    BY <1>3, <1>4, H3Closed, Zenon DEF H3!On
  <2>2. H3Kept(h3'.conn[c], h3'.tun[c], h3'.tasks)
    BY <2>1, Zenon DEF H3Kept
  <2> QED BY <1>1, <1>2, <1>3, <1>4, <2>1, <2>2, H3StepOne, Zenon DEF H3OK
<1>5. ASSUME NEW n \in 1 .. H3Window,
             LET t == IF direct THEN H3!Less(space[c], n) ELSE 0
                 h == IF direct THEN H3!UpdateFlowControl(h3, c, space[c] - t) ELSE h3
             IN  /\ h3.conn[c].unread + n - t <= H3Window
                 /\ \E j \in 0 .. n - t : h3' = [h EXCEPT !.conn[c].unread = @ + j]
                 /\ space' = [space EXCEPT ![c] = @ - t]
      PROVE  H3OK'
  <2> DEFINE t == IF direct THEN H3!Less(space[c], n) ELSE 0
             h == IF direct THEN H3!UpdateFlowControl(h3, c, space[c] - t) ELSE h3
             o == h.conn[c]
             s == space[c]
             r == s - t
  <2>20. PICK j \in 0 .. n - t : h3' = [h EXCEPT !.conn[c].unread = o.unread + j]
    BY <1>5, Zenon
  <2> DEFINE u == o.unread + j
             m == [o EXCEPT !.unread = u]
  <2>1. s \in Nat /\ n \in Nat /\ k.unread \in Nat /\ H3Window \in Nat
    <3>1. H3Window \in Nat
      BY UpstreamsAssumption, Zenon
    <3>2. n \in Nat
      BY <3>1, SMT
    <3> QED BY <1>1, <3>1, <3>2, H3ConnFields, Zenon DEF H3OK
  <2>2. \A a, b, d \in Nat : \A y : (y = (IF a < b THEN a ELSE b) \/ y = 0) =>
           y \in Nat /\ a - y \in Nat /\ \A i \in 0 .. b - y : d + i \in Nat
    BY SMT
  <2>3. \A a, b \in Nat : \A y : y = (IF a < b THEN a ELSE b) /\ a - y > 0 => \A i \in 0 .. b - y : ~(0 + i > 0)
    BY SMT
  <2>4. t \in Nat /\ r \in Nat /\ k.unread + j \in Nat
    <3>1. t = (IF s < n THEN s ELSE n) \/ t = 0
      BY Zenon DEF H3!Less
    <3> HIDE DEF t, s, k
    <3> QED BY <2>1, <2>2, <2>20, <3>1, Zenon
  <2>5. /\ h3' = [h EXCEPT !.conn[c].unread = u]
        /\ space' = [space EXCEPT ![c] = r]
    BY <1>5, <2>20, Zenon
  <2>6. space' \in [H3Conns -> Nat]
    <3> HIDE DEF r
    <3> QED BY <2>4, <2>5, Zenon DEF H3OK
  <2>7. /\ H3Same(h3, h, c) /\ h.tun = h3.tun /\ o.kind = "stream" /\ o.streamClosed = k.streamClosed
        /\ o.unread = k.unread /\ (~direct => o = k) /\ (direct => o.read = (r > 0))
    <3>1. CASE direct
      <4> DEFINE g == H3!UpdateFlowControl(h3, c, r)
      <4>1. h = g
        BY <3>1, Zenon
      <4> HIDE DEF r, h
      <4>2. /\ H3Same(h3, g, c) /\ g.tun = h3.tun /\ g.conn[c].kind = k.kind
            /\ g.conn[c].streamClosed = k.streamClosed /\ g.conn[c].unread = k.unread
            /\ (k.kind = "stream" => g.conn[c].read = (r > 0))
        BY <1>1, <2>4, H3Flow, Zenon
      <4> HIDE DEF g
      <4> QED BY <1>2, <3>1, <4>1, <4>2, Zenon
    <3>2. CASE ~direct
      <4>1. h = h3
        BY <3>2, Zenon
      <4>2. H3Same(h3, h3, c)
        BY <1>1, Zenon DEF H3Same
      <4> HIDE DEF h
      <4> QED BY <1>2, <3>2, <4>1, <4>2, Zenon
    <3> QED BY <3>1, <3>2, Zenon
  <2> HIDE DEF h
  <2>8. h \in H3Type /\ o \in H3Conn
    BY <2>7, H3Fields, Zenon DEF H3Same
  <2>9. u \in Nat
    BY <2>4, <2>7, Zenon
  <2>10. h3' = [h EXCEPT !.conn[c] = m]
    <3> HIDE DEF u
    <3> QED BY <2>5, <2>8, Zenon DEF H3Type
  <2>11. /\ m \in H3Conn /\ m.kind = o.kind /\ m.streamClosed = o.streamClosed /\ m.read = o.read /\ m.unread = u
    <3> HIDE DEF u, o
    <3> QED BY <2>8, <2>9, Zenon DEF H3Conn
  <2>12. ~direct => (m.read /\ m.unread > 0 => "read" \in h3.tasks)
    <3>1. SUFFICES ASSUME ~direct, m.read PROVE "read" \in h3.tasks
      BY Zenon
    <3>2. k.read
      BY <2>7, <2>11, <3>1, Zenon
    <3>3. k.unread # 0
      BY <3>1, <3>2, Zenon
    <3>4. \A a \in Nat : a # 0 => a > 0
      BY SMT
    <3> QED BY <1>1, <2>1, <3>2, <3>3, <3>4, Zenon DEF H3Kept
  <2>13. direct => ~(m.read /\ m.unread > 0)
    <3>1. SUFFICES ASSUME direct, r > 0 PROVE ~(u > 0)
      BY <2>7, <2>11, Zenon
    <3>2. t = (IF s < n THEN s ELSE n) /\ o.unread = 0
      BY <2>7, <3>1, Zenon DEF H3!Less
    <3>3. u = 0 + j
      BY <3>2, Zenon
    <3> HIDE DEF t, s, u
    <3> QED BY <2>1, <2>3, <3>1, <3>2, <3>3, Zenon
  <2> HIDE DEF m, u, o
  <2>14. H3Same(h, h3', c) /\ h3'.conn[c] = m /\ h3'.tun = h.tun /\ h3'.tasks = h.tasks
    BY <2>8, <2>10, <2>11, H3SetConn, Zenon
  <2>15. H3Same(h3, h3', c)
    <3>1. h3' \in H3Type /\ h3'.closing = h.closing
      <4>1. h3'.closing = h.closing
        BY <2>8, <2>10, Zenon DEF H3Type
      <4> QED BY <2>14, <4>1, Zenon DEF H3Same
    <3> QED BY <2>7, <2>14, <3>1, Zenon DEF H3Same
  <2>16. "read" \in h3.tasks => "read" \in h3'.tasks
    BY <2>7, <2>14, Zenon DEF H3Same
  <2>17. H3Kept(h3'.conn[c], h3'.tun[c], h3'.tasks)
    <3>1. m.kind = "stream" /\ ~m.streamClosed
      BY <1>2, <2>7, <2>11, Zenon
    <3>2. m.kind # "none" /\ h3.tun[c] \in {"waiting", "open"}
      BY <1>1, <1>2, <1>3, <2>7, <2>11, Zenon DEF H3Kept
    <3>3. m.read /\ m.unread > 0 => "read" \in h3'.tasks
      BY <2>12, <2>13, <2>16, Zenon
    <3> QED BY <2>7, <2>14, <3>1, <3>2, <3>3, Zenon DEF H3Kept
  <2> QED BY <1>1, <1>2, <1>3, <2>6, <2>15, <2>17, H3StepOne, Zenon
<1> QED BY <1>4, <1>5, Zenon DEF H3!Body

LEMMA H3InitOK == H3!Init => H3OK
<1> SUFFICES ASSUME H3!Init PROVE H3OK
  OBVIOUS
<1>1. /\ h3 = [st |-> "IDLE", inh |-> FALSE, closed |-> FALSE, err |-> FALSE, closing |-> {}, tasks |-> {},
               conn |-> [c \in H3Conns |-> H3!NoH3], health |-> "none", tun |-> [c \in H3Conns |-> "none"],
               inside |-> FALSE]
      /\ space = [c \in H3Conns |-> H3Room] /\ holder = "none"
  BY Zenon DEF H3!Init
<1>2. /\ "none" \in H2Known /\ "none" \in H3Health /\ "none" \in {"none", "gone"} /\ H3Room \in Nat
      /\ {} \in SUBSET H3Conns /\ {} \in SUBSET H3Tasks
  BY UpstreamsAssumption, Zenon DEF H2Known, H3Health
<1>3. h3 \in H3Type
  <2>1. [c \in H3Conns |-> H3!NoH3] \in [H3Conns -> H3Conn] /\ [c \in H3Conns |-> "none"] \in [H3Conns -> H2Known]
    BY <1>2, H3NoConn, Zenon
  <2> QED BY <1>1, <1>2, <2>1, Zenon DEF H3Type
<1>4. /\ h3.inh = FALSE /\ h3.st = "IDLE" /\ h3.tasks = {} /\ h3.closing = {}
      /\ \A c \in H3Conns : h3.conn[c] = H3!NoH3 /\ h3.tun[c] = "none"
  BY <1>1, Zenon
<1>5. H3Well(h3)
  BY <1>2, <1>3, <1>4, H3NoConn, Zenon DEF H3Well
<1>6. space \in [H3Conns -> Nat]
  BY <1>1, <1>2, Zenon
<1> QED BY <1>4, <1>5, <1>6, Zenon DEF H3OK

\* The tunnel and the HTTP/3 upstream have the same connections, a session that is over leaves nothing, and
\* what was kept for a client that reads has the task that gives it, whatever the order of the callbacks of
\* the client, of the tasks that they leave and of the calls of the tunnel
\* (Http3Upstream::socket_handler, close_session, complete_read, update_flow_control).
THEOREM H3Serves == H3!Spec => []H3Served
<1>1. H3OK /\ [H3!Next]_H3!h3Vars => H3OK'
  <2>1. ASSUME H3OK, UNCHANGED H3!h3Vars PROVE H3OK'
    BY <2>1, Zenon DEF H3!h3Vars, H3OK
  <2>2. ASSUME H3OK, H3!CloseByOwner \/ H3!FlushError \/ H3!ConnectionCloses \/ H3!SocketTimeout PROVE H3OK'
    <3>1. CASE H3!CloseByOwner \/ H3!FlushError
      BY <2>2, <3>1, H3EndStep, Zenon DEF H3!CloseByOwner, H3!FlushError
    <3>2. CASE H3!ConnectionCloses
      <4>1. PICK e \in BOOLEAN : H3!CloseSessionInner(e)
        BY <3>2, Zenon DEF H3!ConnectionCloses
      <4> QED BY <2>2, <3>2, <4>1, H3InnerStep, Zenon DEF H3!ConnectionCloses
    <3>3. CASE H3!SocketTimeout
      BY <2>2, <3>3, H3InnerStep, Zenon DEF H3!SocketTimeout
    <3> QED BY <2>2, <3>1, <3>2, <3>3, Zenon
  <2>3. ASSUME H3OK, H3!Next PROVE H3OK'
    <3>1. CASE \/ H3!OpenSession \/ H3!Readable \/ H3!HandshakeCompleted \/ H3!Output \/ H3!DoHealthCheck
               \/ H3!HealthCheckTask
      BY <2>3, <3>1, H3SessionStep, Zenon
    <3>2. CASE H3!Expiry \/ H3!HandlerReturns \/ H3!CloseTask
      BY <2>3, <3>2, H3ExpiryStep, H3HandlerReturnsStep, H3CloseTaskStep, Zenon
    <3>3. CASE H3!CompleteRead \/ H3!NotifySent \/ H3!PostReceive
      BY <2>3, <3>3, H3CompleteReadStep, H3NotifySentStep, H3PostReceiveStep, Zenon
    <3>4. ASSUME NEW c \in H3Conns, \/ H3!OpenConnection(c) \/ H3!CloseConnection(c) \/ H3!ClientReads(c)
                                    \/ H3!Response(c) \/ H3!Body(c) \/ H3!StreamClosed(c)
          PROVE  H3OK'
      BY <2>3, <3>4, H3OpenConnectionStep, H3CloseConnectionStep, H3ClientReadsStep, H3ResponseStep, H3BodyStep,
         H3StreamClosedStep, Zenon
    <3> QED BY <2>2, <2>3, <3>1, <3>2, <3>3, <3>4, Zenon DEF H3!Next
  <2> QED BY <2>1, <2>3, Zenon
<1>2. H3OK => H3Served
  <2> SUFFICES ASSUME H3OK PROVE H3!H3InStep /\ H3!H3DataServed
    BY Zenon DEF H3Served
  <2>1. H3!H3InStep
    <3>1. \A c \in H3Conns : H3!On(h3, c) <=> h3.tun[c] \in {"waiting", "open"}
      BY Zenon DEF H3OK, H3Well, H3Kept, H3!On
    <3>2. holder \in {"closed", "error"} => h3.st = "IDLE" /\ h3.tasks = {} /\ h3.closing = {}
      BY Zenon DEF H3OK, H3Well
    <3> QED BY <3>1, <3>2, Zenon DEF H3OK, H3Well, H3!H3InStep
  <2>2. H3!H3DataServed
    BY Zenon DEF H3OK, H3Well, H3Kept, H3!H3DataServed
  <2> QED BY <2>1, <2>2, Zenon
<1> QED BY <1>1, <1>2, H3InitOK, PTL DEF H3!Spec

-----------------------------------------------------------------------------
(* The pool of upstreams.                                                  *)

MuxChild == [st : {"OPENING", "OPENED"}, known : SUBSET MuxConns]
MuxPools == UNION {[D -> MuxChild] : D \in SUBSET (Nat \ {0})}
MuxTables == UNION {[D -> Nat] : D \in SUBSET MuxConns}
MuxRecord ==
    [pool : MuxPools, conns : MuxTables, pend : MuxTables, next : Nat \ {0}, error : BOOLEAN, open : BOOLEAN,
     held : SUBSET MuxConns, session : {"new", "opening", "open", "closed", "error", "deleted"}]

\* The pool p, the connections k, the pending ones w, the next id n, the ids h the tunnel holds and the
\* session s agree; a are the connections that were asked for.
MuxGood(p, k, w, n, h, s, a) ==
    /\ h \subseteq a /\ DOMAIN w \subseteq h
    /\ \A c \in DOMAIN k : k[c] \in DOMAIN p /\ c \in p[k[c]].known /\ c \in h /\ c \notin DOMAIN w
    /\ \A u \in DOMAIN p : /\ u < n /\ (p[u].known # {} => p[u].st = "OPENED")
                           /\ \A c \in p[u].known : c \in DOMAIN k /\ k[c] = u
    /\ s \in {"opening", "open"} <=> DOMAIN p # {}

MuxIsGood(m, a) == MuxGood(m.pool, m.conns, m.pend, m.next, m.held, m.session, a)

MuxOK == mux \in MuxRecord /\ MuxIsGood(mux, asked)

LEMMA MuxFields ==
  ASSUME NEW m \in MuxRecord
  PROVE  /\ m.pool \in MuxPools /\ m.conns \in MuxTables /\ m.pend \in MuxTables /\ m.next \in Nat \ {0}
         /\ m.error \in BOOLEAN /\ m.open \in BOOLEAN /\ m.held \in SUBSET MuxConns
         /\ m.session \in {"new", "opening", "open", "closed", "error", "deleted"}
BY Zenon DEF MuxRecord

LEMMA MuxPool ==
  ASSUME NEW p
  PROVE  p \in MuxPools <=> DOMAIN p \subseteq Nat \ {0} /\ p \in [DOMAIN p -> MuxChild]
<1>1. ASSUME p \in MuxPools PROVE DOMAIN p \subseteq Nat \ {0} /\ p \in [DOMAIN p -> MuxChild]
  <2>1. PICK D \in SUBSET (Nat \ {0}) : p \in [D -> MuxChild]
    BY <1>1, Zenon DEF MuxPools
  <2> QED BY <2>1, Zenon
<1>2. ASSUME DOMAIN p \subseteq Nat \ {0}, p \in [DOMAIN p -> MuxChild] PROVE p \in MuxPools
  BY <1>2, Zenon DEF MuxPools
<1> QED BY <1>1, <1>2

LEMMA MuxTable ==
  ASSUME NEW k
  PROVE  k \in MuxTables <=> DOMAIN k \subseteq MuxConns /\ k \in [DOMAIN k -> Nat]
<1>1. ASSUME k \in MuxTables PROVE DOMAIN k \subseteq MuxConns /\ k \in [DOMAIN k -> Nat]
  <2>1. PICK D \in SUBSET MuxConns : k \in [D -> Nat]
    BY <1>1, Zenon DEF MuxTables
  <2> QED BY <2>1, Zenon
<1>2. ASSUME DOMAIN k \subseteq MuxConns, k \in [DOMAIN k -> Nat] PROVE k \in MuxTables
  BY <1>2, Zenon DEF MuxTables
<1> QED BY <1>1, <1>2

LEMMA MuxChildFields ==
  ASSUME NEW p \in MuxPools, NEW u \in DOMAIN p
  PROVE  p[u] \in MuxChild /\ p[u].st \in {"OPENING", "OPENED"} /\ p[u].known \in SUBSET MuxConns /\ u \in Nat /\ u # 0
<1>1. p[u] \in MuxChild /\ u \in Nat \ {0}
  BY MuxPool, Zenon
<1> QED BY <1>1, Zenon DEF MuxChild

LEMMA MuxWithTable ==
  ASSUME NEW f \in MuxTables, NEW k \in MuxConns, NEW v \in Nat
  PROVE  Mux!With(f, k, v) \in MuxTables
<1> DEFINE g == Mux!With(f, k, v)
<1>1. g = [x \in DOMAIN f \cup {k} |-> IF x = k THEN v ELSE f[x]] /\ DOMAIN g = DOMAIN f \cup {k}
  BY Zenon DEF Mux!With
<1>2. DOMAIN f \subseteq MuxConns /\ f \in [DOMAIN f -> Nat]
  BY MuxTable, Zenon
<1>3. g \in [DOMAIN g -> Nat] /\ DOMAIN g \subseteq MuxConns
  BY <1>1, <1>2, Zenon
<1> QED BY <1>3, MuxTable, Zenon

LEMMA MuxWithPool ==
  ASSUME NEW f \in MuxPools, NEW k \in Nat \ {0}, NEW v \in MuxChild
  PROVE  Mux!With(f, k, v) \in MuxPools
<1> DEFINE g == Mux!With(f, k, v)
<1>1. g = [x \in DOMAIN f \cup {k} |-> IF x = k THEN v ELSE f[x]] /\ DOMAIN g = DOMAIN f \cup {k}
  BY Zenon DEF Mux!With
<1>2. DOMAIN f \subseteq Nat \ {0} /\ f \in [DOMAIN f -> MuxChild]
  BY MuxPool, Zenon
<1>3. g \in [DOMAIN g -> MuxChild] /\ DOMAIN g \subseteq Nat \ {0}
  BY <1>1, <1>2, Zenon
<1> QED BY <1>3, MuxPool, Zenon

LEMMA MuxWithout ==
  ASSUME NEW f, NEW S
  PROVE  /\ DOMAIN Mux!Without(f, S) = DOMAIN f \ S
         /\ \A x \in DOMAIN f \ S : Mux!Without(f, S)[x] = f[x]
         /\ f \in MuxTables => Mux!Without(f, S) \in MuxTables
         /\ f \in MuxPools => Mux!Without(f, S) \in MuxPools
<1> DEFINE g == Mux!Without(f, S)
<1>1. g = [x \in DOMAIN f \ S |-> f[x]]
  BY Zenon DEF Mux!Without, Mux!Restrict
<1>2. DOMAIN g = DOMAIN f \ S /\ \A x \in DOMAIN f \ S : g[x] = f[x]
  BY <1>1, Zenon
<1>3. ASSUME f \in MuxTables PROVE g \in MuxTables
  <2>1. DOMAIN f \subseteq MuxConns /\ f \in [DOMAIN f -> Nat]
    BY <1>3, MuxTable, Zenon
  <2>2. g \in [DOMAIN g -> Nat] /\ DOMAIN g \subseteq MuxConns
    BY <1>1, <1>2, <2>1, Zenon
  <2> QED BY <2>2, MuxTable, Zenon
<1>4. ASSUME f \in MuxPools PROVE g \in MuxPools
  <2>1. DOMAIN f \subseteq Nat \ {0} /\ f \in [DOMAIN f -> MuxChild]
    BY <1>4, MuxPool, Zenon
  <2>2. g \in [DOMAIN g -> MuxChild] /\ DOMAIN g \subseteq Nat \ {0}
    BY <1>1, <1>2, <2>1, Zenon
  <2> QED BY <2>2, MuxPool, Zenon
<1> QED BY <1>2, <1>3, <1>4

\* The ways in which the tables change together.

\* A new upstream joins the pool.
LEMMA MuxJoins ==
  ASSUME NEW p \in MuxPools, NEW k, NEW w, NEW n \in Nat \ {0}, NEW h, NEW s, NEW a, MuxGood(p, k, w, n, h, s, a),
         NEW t \in {"opening", "open"}, NEW q, q = Mux!With(p, n, [st |-> "OPENING", known |-> {}])
  PROVE  q \in MuxPools /\ MuxGood(q, k, w, n + 1, h, t, a) /\ n \notin DOMAIN p
<1> DEFINE v == [st |-> "OPENING", known |-> {}]
<1>1. v \in MuxChild /\ v.known = {}
  BY SMT DEF MuxChild
<1>2. DOMAIN q = DOMAIN p \cup {n} /\ q[n] = v /\ (\A x \in DOMAIN p : x # n => q[x] = p[x]) /\ q \in MuxPools
  <2>1. q \in MuxPools
    BY <1>1, MuxWithPool, Zenon
  <2>2. DOMAIN q = DOMAIN p \cup {n} /\ q[n] = v /\ \A x \in DOMAIN p : x # n => q[x] = p[x]
    BY Zenon DEF Mux!With
  <2> QED BY <2>1, <2>2
<1>3. \A u \in DOMAIN p : u \in Nat /\ u < n
  BY MuxChildFields, Zenon DEF MuxGood
<1>4. n \notin DOMAIN p
  BY <1>3, SMT
<1>5. \A u \in DOMAIN p : q[u] = p[u] /\ u < n + 1
  <2>1. \A u \in DOMAIN p : u < n + 1
    BY <1>3, SMT
  <2> QED BY <1>2, <1>4, <2>1, Zenon
<1>6. n < n + 1
  BY SMT
<1> HIDE DEF v
<1>7. MuxGood(q, k, w, n + 1, h, t, a)
  <2>1. \A c \in DOMAIN k : k[c] \in DOMAIN q /\ c \in q[k[c]].known /\ c \in h /\ c \notin DOMAIN w
    BY <1>2, <1>5, Zenon DEF MuxGood
  <2>2. \A u \in DOMAIN q : /\ u < n + 1 /\ (q[u].known # {} => q[u].st = "OPENED")
                            /\ \A c \in q[u].known : c \in DOMAIN k /\ k[c] = u
    <3> SUFFICES ASSUME NEW u \in DOMAIN q
                 PROVE  /\ u < n + 1 /\ (q[u].known # {} => q[u].st = "OPENED")
                        /\ \A c \in q[u].known : c \in DOMAIN k /\ k[c] = u
      OBVIOUS
    <3>1. CASE u = n
      BY <1>1, <1>2, <1>6, <3>1, Zenon
    <3>2. CASE u # n
      BY <1>2, <1>5, <3>2, Zenon DEF MuxGood
    <3> QED BY <3>1, <3>2
  <2> QED BY <1>2, <2>1, <2>2, Zenon DEF MuxGood
<1> QED BY <1>2, <1>4, <1>7

\* A connection that the tunnel did not hold waits for an upstream.
LEMMA MuxWaits ==
  ASSUME NEW p, NEW k, NEW w \in MuxTables, NEW n, NEW h \in SUBSET MuxConns, NEW s, NEW a, MuxGood(p, k, w, n, h, s, a),
         NEW c \in MuxConns, c \notin a, NEW u \in Nat
  PROVE  Mux!With(w, c, u) \in MuxTables /\ MuxGood(p, k, Mux!With(w, c, u), n, h \cup {c}, s, a \cup {c})
<1> DEFINE x == Mux!With(w, c, u)
<1>1. x \in MuxTables /\ DOMAIN x = DOMAIN w \cup {c}
  <2>1. DOMAIN x = DOMAIN w \cup {c}
    BY Zenon DEF Mux!With
  <2> QED BY <2>1, MuxWithTable, Zenon
<1> HIDE DEF x
<1>2. \A d \in DOMAIN k : d # c
  BY Zenon DEF MuxGood
<1> QED BY <1>1, <1>2, Zenon DEF MuxGood, x

\* A connection that the tunnel did not hold, or that waited, is opened on an upstream.
LEMMA MuxAskedMore ==
  ASSUME NEW p, NEW k, NEW w, NEW n, NEW h, NEW s, NEW a, MuxGood(p, k, w, n, h, s, a), NEW c
  PROVE  MuxGood(p, k, w, n, h, s, a \cup {c})
BY Zenon DEF MuxGood

LEMMA MuxNextLater ==
  ASSUME NEW p \in MuxPools, NEW k, NEW w, NEW n \in Nat \ {0}, NEW h, NEW s, NEW a, MuxGood(p, k, w, n, h, s, a)
  PROVE  MuxGood(p, k, w, n + 1, h, s, a)
<1>1. \A u \in DOMAIN p : u \in Nat /\ u < n
  BY MuxChildFields, Zenon DEF MuxGood
<1>2. \A u \in DOMAIN p : u < n + 1
  BY <1>1, SMT
<1> QED BY <1>2, Zenon DEF MuxGood

LEMMA MuxTakes ==
  ASSUME NEW p \in MuxPools, NEW k \in MuxTables, NEW w, NEW n, NEW h, NEW s, NEW a, MuxGood(p, k, w, n, h, s, a),
         NEW c \in MuxConns, c \notin a, NEW u \in DOMAIN p, p[u].st = "OPENED"
  PROVE  LET q == [p EXCEPT ![u].known = @ \cup {c}]
         IN  /\ q \in MuxPools /\ Mux!With(k, c, u) \in MuxTables
             /\ MuxGood(q, Mux!With(k, c, u), w, n, h \cup {c}, s, a \cup {c})
<1> DEFINE q == [p EXCEPT ![u].known = @ \cup {c}]
           x == Mux!With(k, c, u)
<1>1. p \in [DOMAIN p -> MuxChild] /\ DOMAIN p \subseteq Nat \ {0} /\ u \in Nat
  BY MuxPool, Zenon
<1>2. x \in MuxTables /\ DOMAIN x = DOMAIN k \cup {c} /\ x[c] = u /\ \A d \in DOMAIN k : d # c => x[d] = k[d]
  <2>1. x \in MuxTables
    BY <1>1, MuxWithTable, Zenon
  <2>2. DOMAIN x = DOMAIN k \cup {c} /\ x[c] = u /\ \A d \in DOMAIN k : d # c => x[d] = k[d]
    BY Zenon DEF Mux!With
  <2> QED BY <2>1, <2>2
<1>3. /\ DOMAIN q = DOMAIN p /\ q[u].known = p[u].known \cup {c} /\ q[u].st = p[u].st
      /\ \A v \in DOMAIN p : v # u => q[v] = p[v]
  <2>1. q[u] = [p[u] EXCEPT !.known = @ \cup {c}]
    BY <1>1, Zenon
  <2>2. p[u] \in MuxChild
    BY <1>1, Zenon
  <2>3. q[u].known = p[u].known \cup {c} /\ q[u].st = p[u].st
    BY <2>1, <2>2, Zenon DEF MuxChild
  <2> QED BY <1>1, <2>3, Zenon
<1>4. q \in MuxPools
  <2>1. p[u] \in MuxChild
    BY <1>1, Zenon
  <2>2. [p[u] EXCEPT !.known = @ \cup {c}] \in MuxChild
    BY <2>1, Zenon DEF MuxChild
  <2>3. q \in [DOMAIN p -> MuxChild]
    BY <1>1, <2>2, Zenon
  <2> QED BY <1>1, <1>3, <2>3, MuxPool, Zenon
<1> HIDE DEF q, x
<1>5. \A d \in DOMAIN k : d # c
  BY Zenon DEF MuxGood
<1>6. \A d \in DOMAIN x : x[d] \in DOMAIN q /\ d \in q[x[d]].known /\ d \in h \cup {c} /\ d \notin DOMAIN w
  <2> SUFFICES ASSUME NEW d \in DOMAIN x
               PROVE  x[d] \in DOMAIN q /\ d \in q[x[d]].known /\ d \in h \cup {c} /\ d \notin DOMAIN w
    OBVIOUS
  <2>1. CASE d = c
    <3>1. c \notin DOMAIN w
      BY Zenon DEF MuxGood
    <3> QED BY <1>2, <1>3, <2>1, <3>1, Zenon
  <2>2. CASE d # c
    <3>1. d \in DOMAIN k /\ x[d] = k[d]
      BY <1>2, <2>2, Zenon
    <3>2. k[d] \in DOMAIN p /\ d \in p[k[d]].known /\ d \in h /\ d \notin DOMAIN w
      BY <3>1, Zenon DEF MuxGood
    <3>3. d \in q[k[d]].known
      BY <1>3, <3>2, Zenon
    <3> QED BY <1>3, <3>1, <3>2, <3>3, Zenon
  <2> QED BY <2>1, <2>2
<1>7. \A v \in DOMAIN q : /\ v < n /\ (q[v].known # {} => q[v].st = "OPENED")
                          /\ \A d \in q[v].known : d \in DOMAIN x /\ x[d] = v
  <2> SUFFICES ASSUME NEW v \in DOMAIN q
               PROVE  /\ v < n /\ (q[v].known # {} => q[v].st = "OPENED")
                      /\ \A d \in q[v].known : d \in DOMAIN x /\ x[d] = v
    OBVIOUS
  <2>1. /\ v \in DOMAIN p /\ v < n /\ (p[v].known # {} => p[v].st = "OPENED")
        /\ \A d \in p[v].known : d \in DOMAIN k /\ k[d] = v
    BY <1>3, Zenon DEF MuxGood
  <2>2. CASE v = u
    BY <1>2, <1>3, <1>5, <2>1, <2>2, Zenon
  <2>3. CASE v # u
    BY <1>2, <1>3, <1>5, <2>1, <2>3, Zenon
  <2> QED BY <2>2, <2>3
<1>8. h \cup {c} \subseteq a \cup {c} /\ DOMAIN w \subseteq h \cup {c} /\ (s \in {"opening", "open"} <=> DOMAIN q # {})
  BY <1>3, Zenon DEF MuxGood
<1> QED BY <1>2, <1>4, <1>6, <1>7, <1>8, Zenon DEF MuxGood, q, x

\* Connections of one upstream end.
LEMMA MuxEnds ==
  ASSUME NEW p \in MuxPools, NEW k, NEW w, NEW n, NEW h, NEW s, NEW a, MuxGood(p, k, w, n, h, s, a),
         NEW u \in DOMAIN p, NEW S \in SUBSET p[u].known
  PROVE  LET q == [p EXCEPT ![u].known = @ \ S]
         IN  /\ q \in MuxPools /\ MuxGood(q, Mux!Without(k, S), w, n, h \ S, s, a)
             /\ DOMAIN q = DOMAIN p /\ q[u].known = p[u].known \ S
<1> DEFINE q == [p EXCEPT ![u].known = @ \ S]
           x == Mux!Without(k, S)
<1>1. p \in [DOMAIN p -> MuxChild] /\ DOMAIN p \subseteq Nat \ {0} /\ p[u] \in MuxChild
  BY MuxPool, Zenon
<1>2. DOMAIN x = DOMAIN k \ S /\ \A d \in DOMAIN k \ S : x[d] = k[d]
  BY Zenon DEF Mux!Without, Mux!Restrict
<1>3. /\ DOMAIN q = DOMAIN p /\ q[u].known = p[u].known \ S /\ q[u].st = p[u].st
      /\ \A v \in DOMAIN p : v # u => q[v] = p[v]
  <2>1. q[u] = [p[u] EXCEPT !.known = @ \ S]
    BY <1>1, Zenon
  <2>2. q[u].known = p[u].known \ S /\ q[u].st = p[u].st
    BY <1>1, <2>1, Zenon DEF MuxChild
  <2> QED BY <1>1, <2>2, Zenon
<1>4. q \in MuxPools
  <2>1. [p[u] EXCEPT !.known = @ \ S] \in MuxChild
    BY <1>1, Zenon DEF MuxChild
  <2>2. q \in [DOMAIN p -> MuxChild]
    BY <1>1, <2>1, Zenon
  <2> QED BY <1>1, <1>3, <2>2, MuxPool, Zenon
<1> HIDE DEF q, x
<1>5. \A d \in DOMAIN x : x[d] \in DOMAIN q /\ d \in q[x[d]].known /\ d \in h \ S /\ d \notin DOMAIN w
  <2> SUFFICES ASSUME NEW d \in DOMAIN x
               PROVE  x[d] \in DOMAIN q /\ d \in q[x[d]].known /\ d \in h \ S /\ d \notin DOMAIN w
    OBVIOUS
  <2>1. d \in DOMAIN k /\ d \notin S /\ x[d] = k[d]
    BY <1>2, Zenon
  <2>2. k[d] \in DOMAIN p /\ d \in p[k[d]].known /\ d \in h /\ d \notin DOMAIN w
    BY <2>1, Zenon DEF MuxGood
  <2> QED BY <1>3, <2>1, <2>2, Zenon
<1>6. \A v \in DOMAIN q : /\ v < n /\ (q[v].known # {} => q[v].st = "OPENED")
                          /\ \A d \in q[v].known : d \in DOMAIN x /\ x[d] = v
  <2> SUFFICES ASSUME NEW v \in DOMAIN q
               PROVE  /\ v < n /\ (q[v].known # {} => q[v].st = "OPENED")
                      /\ \A d \in q[v].known : d \in DOMAIN x /\ x[d] = v
    OBVIOUS
  <2>1. /\ v \in DOMAIN p /\ v < n /\ (p[v].known # {} => p[v].st = "OPENED")
        /\ \A d \in p[v].known : d \in DOMAIN k /\ k[d] = v
    BY <1>3, Zenon DEF MuxGood
  <2>2. CASE v = u
    BY <1>2, <1>3, <2>1, <2>2, Zenon
  <2>3. CASE v # u
    <3>1. \A d \in S : d \in DOMAIN k /\ k[d] = u
      BY Zenon DEF MuxGood
    <3>2. q[v] = p[v] /\ \A d \in p[v].known : d \notin S
      BY <1>3, <2>1, <2>3, <3>1, Zenon
    <3> QED BY <1>2, <2>1, <3>2, Zenon
  <2> QED BY <2>2, <2>3
<1>7. DOMAIN w \subseteq h \ S
  <2>1. \A d \in S : d \in DOMAIN k
    BY Zenon DEF MuxGood
  <2> QED BY <2>1, Zenon DEF MuxGood
<1>8. h \ S \subseteq a /\ (s \in {"opening", "open"} <=> DOMAIN q # {})
  BY <1>3, Zenon DEF MuxGood
<1> QED BY <1>3, <1>4, <1>5, <1>6, <1>7, <1>8, Zenon DEF MuxGood, q, x

\* The pending connections S are forgotten, the ones of T with the tunnel.
LEMMA MuxForgets ==
  ASSUME NEW p, NEW k, NEW w, NEW n, NEW h, NEW s, NEW a, MuxGood(p, k, w, n, h, s, a),
         NEW S \in SUBSET DOMAIN w, NEW T \in SUBSET S
  PROVE  MuxGood(p, k, Mux!Without(w, S), n, h \ T, s, a) /\ DOMAIN Mux!Without(w, S) = DOMAIN w \ S
<1>1. DOMAIN Mux!Without(w, S) = DOMAIN w \ S
  BY Zenon DEF Mux!Without, Mux!Restrict
<1>2. \A c \in DOMAIN k : c \notin T
  BY Zenon DEF MuxGood
<1>3. DOMAIN w \ S \subseteq h \ T
  BY Zenon DEF MuxGood
<1> QED BY <1>1, <1>2, <1>3, Zenon DEF MuxGood

\* The upstreams of a pool that are not in D go, with none of their connections left.
LEMMA MuxShrinks ==
  ASSUME NEW p \in MuxPools, NEW k, NEW w, NEW n, NEW h, NEW s, NEW a, MuxGood(p, k, w, n, h, s, a),
         NEW D \in SUBSET DOMAIN p, \A u \in DOMAIN p \ D : p[u].known = {},
         NEW t, t \in {"opening", "open"} <=> D # {}
  PROVE  LET q == [u \in D |-> p[u]]
         IN  q \in MuxPools /\ MuxGood(q, k, w, n, h, t, a) /\ DOMAIN q = D
<1> DEFINE q == [u \in D |-> p[u]]
<1>1. DOMAIN q = D /\ \A u \in D : q[u] = p[u]
  BY Zenon
<1>2. q \in MuxPools
  <2>1. DOMAIN p \subseteq Nat \ {0} /\ p \in [DOMAIN p -> MuxChild]
    BY MuxPool, Zenon
  <2>2. DOMAIN q \subseteq Nat \ {0} /\ q \in [DOMAIN q -> MuxChild]
    BY <1>1, <2>1, Zenon
  <2> QED BY <2>2, MuxPool, Zenon
<1> HIDE DEF q
<1>3. \A c \in DOMAIN k : k[c] \in D
  BY Zenon DEF MuxGood
<1> QED BY <1>1, <1>2, <1>3, Zenon DEF MuxGood, q

\* A fatal error: the connections of the upstreams other than u end, and they go.
LEMMA MuxOthersGo ==
  ASSUME NEW p \in MuxPools, NEW k, NEW w, NEW n, NEW h, NEW s, NEW a, MuxGood(p, k, w, n, h, s, a), NEW u \in DOMAIN p
  PROVE  LET S == UNION {p[v].known : v \in DOMAIN p \ {u}}
             q == Mux!Restrict(p, {u})
         IN  q \in MuxPools /\ MuxGood(q, Mux!Without(k, S), w, n, h \ S, s, a) /\ DOMAIN q = {u} /\ q[u] = p[u]
<1> DEFINE S == UNION {p[v].known : v \in DOMAIN p \ {u}}
           q == Mux!Restrict(p, {u})
           x == Mux!Without(k, S)
<1>1. DOMAIN q = {u} /\ q[u] = p[u]
  BY Zenon DEF Mux!Restrict
<1>2. DOMAIN x = DOMAIN k \ S /\ \A d \in DOMAIN k \ S : x[d] = k[d]
  BY Zenon DEF Mux!Without, Mux!Restrict
<1>3. \A d : d \in S <=> \E v \in DOMAIN p : v # u /\ d \in p[v].known
  BY Zenon
<1>4. q \in MuxPools
  <2>1. DOMAIN p \subseteq Nat \ {0} /\ p \in [DOMAIN p -> MuxChild]
    BY MuxPool, Zenon
  <2>2. q = [y \in {u} |-> p[y]]
    BY Zenon DEF Mux!Restrict
  <2>3. DOMAIN q \subseteq Nat \ {0} /\ q \in [DOMAIN q -> MuxChild]
    BY <1>1, <2>1, <2>2, Zenon
  <2> QED BY <2>3, MuxPool, Zenon
<1> HIDE DEF S, q, x
<1>5. ASSUME NEW d \in S PROVE d \in DOMAIN k /\ k[d] # u
  <2>1. PICK v \in DOMAIN p : v # u /\ d \in p[v].known
    BY <1>3, <1>5, Zenon
  <2>2. d \in DOMAIN k /\ k[d] = v
    BY <2>1, Zenon DEF MuxGood
  <2> QED BY <2>1, <2>2
<1>6. \A d \in DOMAIN x : x[d] \in DOMAIN q /\ d \in q[x[d]].known /\ d \in h \ S /\ d \notin DOMAIN w
  <2> SUFFICES ASSUME NEW d \in DOMAIN x
               PROVE  x[d] \in DOMAIN q /\ d \in q[x[d]].known /\ d \in h \ S /\ d \notin DOMAIN w
    OBVIOUS
  <2>1. d \in DOMAIN k /\ d \notin S /\ x[d] = k[d]
    BY <1>2, Zenon
  <2>2. k[d] \in DOMAIN p /\ d \in p[k[d]].known /\ d \in h /\ d \notin DOMAIN w
    BY <2>1, Zenon DEF MuxGood
  <2>3. k[d] = u
    BY <1>3, <2>1, <2>2, Zenon
  <2> QED BY <1>1, <2>1, <2>2, <2>3, Zenon
<1>7. /\ u < n /\ (q[u].known # {} => q[u].st = "OPENED")
      /\ \A d \in q[u].known : d \in DOMAIN x /\ x[d] = u
  <2>1. /\ u < n /\ (p[u].known # {} => p[u].st = "OPENED")
        /\ \A d \in p[u].known : d \in DOMAIN k /\ k[d] = u
    BY Zenon DEF MuxGood
  <2>2. \A d \in p[u].known : d \notin S
    BY <1>5, <2>1, Zenon
  <2> QED BY <1>1, <1>2, <2>1, <2>2, Zenon
<1>8. DOMAIN w \subseteq h \ S
  BY <1>5, Zenon DEF MuxGood
<1>9. h \ S \subseteq a /\ (s \in {"opening", "open"} <=> DOMAIN q # {})
  BY <1>1, Zenon DEF MuxGood
<1>10. MuxGood(q, x, w, n, h \ S, s, a)
  BY <1>1, <1>6, <1>7, <1>8, <1>9, Zenon DEF MuxGood
<1> QED BY <1>1, <1>4, <1>10 DEF S, q, x

\* The connections S that waited are taken by open upstreams, forgotten, or refused.
LEMMA MuxProceeds ==
  ASSUME NEW m \in MuxRecord, NEW a, MuxIsGood(m, a), NEW S \in SUBSET DOMAIN m.pend,
         NEW by \in [S -> DOMAIN m.pool \cup {0}]
  PROVE  Mux!Proceed(m, S, by) \in MuxRecord /\ MuxIsGood(Mux!Proceed(m, S, by), a)
<1> DEFINE opened == {c \in S : by[c] # 0 /\ m.pool[by[c]].st = "OPENED"}
           p == m.pool
           k == m.conns
           w == m.pend
           h == m.held
           q == [v \in DOMAIN p |-> [p[v] EXCEPT !.known = @ \cup {c \in opened : by[c] = v}]]
           x == [c \in DOMAIN k \cup opened |-> IF c \in opened THEN by[c] ELSE k[c]]
           y == Mux!Without(w, S)
           g == h \ {c \in S : by[c] = 0}
           r == Mux!Proceed(m, S, by)
<1>1. r = [m EXCEPT !.pool = q, !.conns = x, !.pend = y, !.held = g]
  BY Zenon DEF Mux!Proceed
<1>2. /\ p \in MuxPools /\ k \in MuxTables /\ w \in MuxTables /\ h \in SUBSET MuxConns
      /\ DOMAIN p \subseteq Nat \ {0} /\ p \in [DOMAIN p -> MuxChild]
      /\ DOMAIN k \subseteq MuxConns /\ k \in [DOMAIN k -> Nat] /\ DOMAIN w \subseteq MuxConns
  BY MuxFields, MuxPool, MuxTable, Zenon
<1>3. MuxGood(p, k, w, m.next, h, m.session, a)
  BY DEF MuxIsGood
<1>4. \A c \in opened : c \in S /\ c \in DOMAIN w /\ c \in h /\ c \notin DOMAIN k /\ by[c] \in DOMAIN p /\ p[by[c]].st = "OPENED"
                        /\ by[c] \in Nat /\ by[c] # 0 /\ c \in MuxConns
  <2> SUFFICES ASSUME NEW c \in opened
               PROVE  c \in S /\ c \in DOMAIN w /\ c \in h /\ c \notin DOMAIN k /\ by[c] \in DOMAIN p /\ p[by[c]].st = "OPENED"
                      /\ by[c] \in Nat /\ by[c] # 0 /\ c \in MuxConns
    OBVIOUS
  <2>1. c \in S /\ c \in DOMAIN w /\ by[c] # 0 /\ p[by[c]].st = "OPENED" /\ by[c] \in DOMAIN p
    BY Zenon
  <2>2. c \in h /\ c \notin DOMAIN k
    BY <1>3, <2>1, Zenon DEF MuxGood
  <2> QED BY <1>2, <2>1, <2>2, Zenon
<1>5. /\ DOMAIN q = DOMAIN p /\ \A v \in DOMAIN p : /\ q[v].known = p[v].known \cup {c \in opened : by[c] = v}
                                                   /\ q[v].st = p[v].st /\ q[v] \in MuxChild
  <2>1. DOMAIN q = DOMAIN p
    BY Zenon
  <2>2. ASSUME NEW v \in DOMAIN p
        PROVE  q[v].known = p[v].known \cup {c \in opened : by[c] = v} /\ q[v].st = p[v].st /\ q[v] \in MuxChild
    <3> DEFINE more == {c \in opened : by[c] = v}
    <3>1. q[v] = [p[v] EXCEPT !.known = @ \cup more] /\ p[v] \in MuxChild
      BY <1>2, Zenon
    <3>2. more \subseteq MuxConns
      BY <1>4, Zenon
    <3> HIDE DEF more, opened, q
    <3> QED BY <3>1, <3>2, Zenon DEF MuxChild, more
  <2> QED BY <2>1, <2>2
<1>6. /\ DOMAIN x = DOMAIN k \cup opened /\ (\A c \in opened : x[c] = by[c])
      /\ (\A c \in DOMAIN k : c \notin opened => x[c] = k[c])
  BY Zenon
<1>7. DOMAIN y = DOMAIN w \ S /\ y \in MuxTables
  BY <1>2, MuxWithout, Zenon
<1>8. q \in MuxPools /\ x \in MuxTables /\ g \in SUBSET MuxConns
  <2>1. q \in [DOMAIN q -> MuxChild]
    BY <1>5, Zenon
  <2>2. q \in MuxPools
    BY <1>2, <1>5, <2>1, MuxPool, Zenon
  <2>3. DOMAIN x \subseteq MuxConns /\ \A c \in DOMAIN x : x[c] \in Nat
    BY <1>2, <1>4, <1>6, Zenon
  <2>4. x \in [DOMAIN x -> Nat]
    BY <2>3, Zenon
  <2>5. x \in MuxTables
    BY <2>3, <2>4, MuxTable, Zenon
  <2> QED BY <1>2, <2>2, <2>5, Zenon
<1> HIDE DEF opened, p, k, w, h, q, x, y
<1>9. r \in MuxRecord
  BY <1>1, <1>7, <1>8, Zenon DEF MuxRecord
<1>10. r.pool = q /\ r.conns = x /\ r.pend = y /\ r.next = m.next /\ r.held = g /\ r.session = m.session
  BY <1>1, Zenon DEF MuxRecord
<1> HIDE DEF r
<1>11. \A c \in opened : c \in g
  BY <1>4, Zenon
<1>12. \A c \in DOMAIN k : c \in g /\ c \notin S
  <2>1. \A c \in DOMAIN k : c \in h /\ c \notin DOMAIN w
    BY <1>3, Zenon DEF MuxGood
  <2> QED BY <2>1, Zenon DEF w
<1>13. \A c \in DOMAIN x : x[c] \in DOMAIN q /\ c \in q[x[c]].known /\ c \in g /\ c \notin DOMAIN y
  <2> SUFFICES ASSUME NEW c \in DOMAIN x
               PROVE  x[c] \in DOMAIN q /\ c \in q[x[c]].known /\ c \in g /\ c \notin DOMAIN y
    OBVIOUS
  <2>1. CASE c \in opened
    <3>1. c \in S /\ by[c] \in DOMAIN p /\ x[c] = by[c]
      BY <1>4, <1>6, <2>1, Zenon
    <3>2. c \in q[by[c]].known
      BY <1>5, <2>1, <3>1, Zenon
    <3> QED BY <1>5, <1>7, <1>11, <2>1, <3>1, <3>2, Zenon
  <2>2. CASE c \notin opened
    <3>1. c \in DOMAIN k /\ x[c] = k[c]
      BY <1>6, <2>2, Zenon
    <3>2. k[c] \in DOMAIN p /\ c \in p[k[c]].known /\ c \notin DOMAIN w
      BY <1>3, <3>1, Zenon DEF MuxGood
    <3> QED BY <1>5, <1>7, <1>12, <3>1, <3>2, Zenon
  <2> QED BY <2>1, <2>2
<1>14. \A u \in DOMAIN q : /\ u < m.next /\ (q[u].known # {} => q[u].st = "OPENED")
                           /\ \A c \in q[u].known : c \in DOMAIN x /\ x[c] = u
  <2> SUFFICES ASSUME NEW u \in DOMAIN q
               PROVE  /\ u < m.next /\ (q[u].known # {} => q[u].st = "OPENED")
                      /\ \A c \in q[u].known : c \in DOMAIN x /\ x[c] = u
    OBVIOUS
  <2>1. /\ u \in DOMAIN p /\ u < m.next /\ (p[u].known # {} => p[u].st = "OPENED")
        /\ \A c \in p[u].known : c \in DOMAIN k /\ k[c] = u
    BY <1>3, <1>5, Zenon DEF MuxGood
  <2>2. q[u].known = p[u].known \cup {c \in opened : by[c] = u} /\ q[u].st = p[u].st
    BY <1>5, <2>1
  <2>3. ASSUME NEW c \in q[u].known PROVE c \in DOMAIN x /\ x[c] = u
    BY <1>4, <1>6, <2>1, <2>2, <2>3, Zenon
  <2>4. q[u].known # {} => q[u].st = "OPENED"
    BY <1>4, <2>1, <2>2, Zenon
  <2> QED BY <2>1, <2>3, <2>4
<1>15. g \subseteq a /\ DOMAIN y \subseteq g /\ (m.session \in {"opening", "open"} <=> DOMAIN q # {})
  <2>1. h \subseteq a /\ DOMAIN w \subseteq h /\ (m.session \in {"opening", "open"} <=> DOMAIN p # {})
    BY <1>3, Zenon DEF MuxGood
  <2> QED BY <1>5, <1>7, <2>1, Zenon
<1>16. MuxGood(q, x, y, m.next, g, m.session, a)
  BY <1>13, <1>14, <1>15, Zenon DEF MuxGood
<1> QED BY <1>9, <1>10, <1>16 DEF MuxIsGood, r

\* open_connection on an upstream of the pool.
LEMMA MuxOpensOn ==
  ASSUME NEW m \in MuxRecord, NEW a, MuxIsGood(m, a), NEW u \in DOMAIN m.pool, NEW c \in MuxConns, c \notin a,
         NEW r \in Mux!OpenOn(m, u, c), NEW m2, m2 = IF r[2] THEN [r[1] EXCEPT !.held = @ \cup {c}] ELSE r[1]
  PROVE  m2 \in MuxRecord /\ MuxIsGood(m2, a \cup {c})
<1>1. /\ m.pool \in MuxPools /\ m.conns \in MuxTables /\ m.pend \in MuxTables /\ m.held \in SUBSET MuxConns
      /\ m.next \in Nat \ {0} /\ u \in Nat
      /\ MuxGood(m.pool, m.conns, m.pend, m.next, m.held, m.session, a)
  BY MuxFields, MuxChildFields, Zenon DEF MuxIsGood
<1>2. c \notin DOMAIN m.pend
  BY <1>1, Zenon DEF MuxGood
<1>3. m.held \cup {c} \in SUBSET MuxConns
  BY <1>1, Zenon
<1>4. CASE m.pool[u].st = "OPENING"
  <2> DEFINE x == Mux!With(m.pend, c, u)
  <2>1. r = <<[m EXCEPT !.pend = x], TRUE>>
    BY <1>2, <1>4, Zenon DEF Mux!OpenOn
  <2>2. x \in MuxTables /\ MuxGood(m.pool, m.conns, x, m.next, m.held \cup {c}, m.session, a \cup {c})
    BY <1>1, MuxWaits, Zenon
  <2> HIDE DEF x
  <2>3. m2 = [[m EXCEPT !.pend = x] EXCEPT !.held = @ \cup {c}]
    BY <2>1, Zenon
  <2>4. m2 = [m EXCEPT !.pend = x, !.held = m.held \cup {c}]
    BY <2>3, Zenon DEF MuxRecord
  <2>5. m2 \in MuxRecord
    BY <1>3, <2>2, <2>4, Zenon DEF MuxRecord
  <2>6. /\ m2.pool = m.pool /\ m2.conns = m.conns /\ m2.pend = x /\ m2.next = m.next /\ m2.held = m.held \cup {c}
        /\ m2.session = m.session
    BY <2>4, Zenon DEF MuxRecord
  <2> QED BY <2>2, <2>5, <2>6 DEF MuxIsGood
<1>5. CASE r = <<m, FALSE>>
  <2>1. m2 = m
    BY <1>5, Zenon
  <2> QED BY <1>1, <2>1, MuxAskedMore, Zenon DEF MuxIsGood
<1>6. CASE m.pool[u].st # "OPENING" /\ r # <<m, FALSE>>
  <2> DEFINE x == Mux!With(m.conns, c, u)
             q == [m.pool EXCEPT ![u].known = @ \cup {c}]
  <2>1. r = <<[m EXCEPT !.pool[u].known = @ \cup {c}, !.conns = x], TRUE>>
    BY <1>6, Zenon DEF Mux!OpenOn
  <2>2. m.pool[u].st = "OPENED"
    BY <1>1, <1>6, MuxChildFields, Zenon
  <2>3. /\ q \in MuxPools /\ x \in MuxTables
        /\ MuxGood(q, x, m.pend, m.next, m.held \cup {c}, m.session, a \cup {c})
    BY <1>1, <2>2, MuxTakes, Zenon
  <2>4. m2 = [[m EXCEPT !.pool = q, !.conns = x] EXCEPT !.held = @ \cup {c}]
    BY <2>1, Zenon
  <2> HIDE DEF x, q
  <2>5. m2 = [m EXCEPT !.pool = q, !.conns = x, !.held = m.held \cup {c}]
    BY <2>4, Zenon DEF MuxRecord
  <2>6. m2 \in MuxRecord
    BY <1>3, <2>3, <2>5, Zenon DEF MuxRecord
  <2>7. /\ m2.pool = q /\ m2.conns = x /\ m2.pend = m.pend /\ m2.next = m.next /\ m2.held = m.held \cup {c}
        /\ m2.session = m.session
    BY <2>5, Zenon DEF MuxRecord
  <2> QED BY <2>3, <2>6, <2>7 DEF MuxIsGood
<1> QED BY <1>4, <1>5, <1>6

LEMMA MuxConnectionsEnd ==
  ASSUME NEW m \in MuxRecord, NEW a, MuxIsGood(m, a), NEW u \in DOMAIN m.pool, NEW S \in SUBSET m.pool[u].known,
         NEW r, r = Mux!ConnectionsEnd(m, u, S)
  PROVE  r \in MuxRecord /\ MuxIsGood(r, a) /\ DOMAIN r.pool = DOMAIN m.pool
         /\ (S = m.pool[u].known => r.pool[u].known = {})
<1> DEFINE q == [m.pool EXCEPT ![u].known = @ \ S]
           x == Mux!Without(m.conns, S)
<1>1. /\ m.pool \in MuxPools /\ m.conns \in MuxTables /\ m.held \in SUBSET MuxConns
      /\ MuxGood(m.pool, m.conns, m.pend, m.next, m.held, m.session, a)
  BY MuxFields, Zenon DEF MuxIsGood
<1>2. /\ q \in MuxPools /\ MuxGood(q, x, m.pend, m.next, m.held \ S, m.session, a)
      /\ DOMAIN q = DOMAIN m.pool /\ q[u].known = m.pool[u].known \ S
  BY <1>1, MuxEnds, Zenon
<1>3. x \in MuxTables
  BY <1>1, MuxWithout, Zenon
<1>4. r = [[m EXCEPT !.pool = q, !.conns = x] EXCEPT !.held = @ \ S]
  BY Zenon DEF Mux!ConnectionsEnd, Mux!Told
<1> HIDE DEF q, x
<1>5. r = [m EXCEPT !.pool = q, !.conns = x, !.held = m.held \ S]
  BY <1>4, Zenon DEF MuxRecord
<1>6. m.held \ S \in SUBSET MuxConns
  BY <1>1, Zenon
<1>7. r \in MuxRecord
  BY <1>2, <1>3, <1>5, <1>6, Zenon DEF MuxRecord
<1>8. /\ r.pool = q /\ r.conns = x /\ r.pend = m.pend /\ r.next = m.next /\ r.held = m.held \ S
      /\ r.session = m.session
  BY <1>5, Zenon DEF MuxRecord
<1>9. S = m.pool[u].known => q[u].known = {}
  BY <1>2, Zenon
<1> QED BY <1>2, <1>7, <1>8, <1>9 DEF MuxIsGood

\* close_upstream of one whose connections have ended.
LEMMA MuxCloses ==
  ASSUME NEW m \in MuxRecord, NEW a, MuxIsGood(m, a), NEW u \in DOMAIN m.pool, m.pool[u].known = {}
  PROVE  Mux!CloseUpstream(m, u) \in MuxRecord /\ MuxIsGood(Mux!CloseUpstream(m, u), a)
<1> DEFINE D == DOMAIN m.pool \ {u}
           q == [v \in D |-> m.pool[v]]
           r == [m EXCEPT !.pool = q]
           t == IF r.error THEN "error" ELSE "closed"
           z == Mux!CloseUpstream(m, u)
<1>1. m.pool \in MuxPools /\ MuxGood(m.pool, m.conns, m.pend, m.next, m.held, m.session, a)
  BY MuxFields, Zenon DEF MuxIsGood
<1>2. ASSUME NEW s, s \in {"opening", "open"} <=> D # {}
      PROVE  q \in MuxPools /\ MuxGood(q, m.conns, m.pend, m.next, m.held, s, a) /\ DOMAIN q = D
  BY <1>1, <1>2, MuxShrinks, Zenon
<1>3. z = IF Mux!Upstreams(r) # {} THEN r ELSE [r EXCEPT !.open = FALSE, !.error = FALSE, !.session = t]
  BY Zenon DEF Mux!CloseUpstream, Mux!Without, Mux!Restrict
<1>4. q \in MuxPools /\ DOMAIN q = D
  <2>1. "opening" \in {"opening", "open"} /\ "new" \notin {"opening", "open"}
    BY Zenon
  <2> QED BY <1>2, <2>1, Zenon
<1> HIDE DEF q
<1>5. /\ r \in MuxRecord /\ r.pool = q /\ r.conns = m.conns /\ r.pend = m.pend /\ r.next = m.next /\ r.held = m.held
      /\ r.session = m.session /\ Mux!Upstreams(r) = D
  <2>1. r \in MuxRecord /\ r.pool = q
    BY <1>4, Zenon DEF MuxRecord
  <2>2. r.conns = m.conns /\ r.pend = m.pend /\ r.next = m.next /\ r.held = m.held /\ r.session = m.session
    BY Zenon DEF MuxRecord
  <2> QED BY <1>4, <2>1, <2>2, Zenon DEF Mux!Upstreams
<1> HIDE DEF r
<1>6. CASE D # {}
  <2>1. z = r
    BY <1>3, <1>5, <1>6
  <2>2. DOMAIN m.pool # {}
    BY Zenon
  <2>3. m.session \in {"opening", "open"} <=> D # {}
    BY <1>1, <1>6, <2>2, Zenon DEF MuxGood
  <2> QED BY <1>2, <1>5, <2>1, <2>3 DEF MuxIsGood
<1>7. CASE D = {}
  <2>1. z = [r EXCEPT !.open = FALSE, !.error = FALSE, !.session = t]
    BY <1>3, <1>5, <1>7
  <2>2. t \in {"error", "closed"}
    BY Zenon
  <2> HIDE DEF t, z
  <2>3. z \in MuxRecord
    BY <1>5, <2>1, <2>2, Zenon DEF MuxRecord
  <2>4. z.pool = q /\ z.conns = m.conns /\ z.pend = m.pend /\ z.next = m.next /\ z.held = m.held /\ z.session = t
    BY <1>5, <2>1, Zenon DEF MuxRecord
  <2>5. t \in {"opening", "open"} <=> D # {}
    BY <1>7, <2>2, Zenon
  <2> QED BY <1>2, <2>3, <2>4, <2>5 DEF MuxIsGood, z
<1> QED BY <1>6, <1>7

LEMMA MuxInitOK == Mux!Init => MuxOK
<1> SUFFICES ASSUME Mux!Init PROVE MuxOK
  OBVIOUS
<1>1. DOMAIN <<>> = {}
  BY SMT
<1>2. <<>> \in [{} -> MuxChild] /\ <<>> \in [{} -> Nat]
  BY SMT
<1>3. <<>> \in MuxPools /\ <<>> \in MuxTables
  BY <1>1, <1>2, MuxPool, MuxTable, Zenon
<1>4. mux \in MuxRecord
  <2>1. 1 \in Nat \ {0}
    BY SMT
  <2> QED BY <1>3, <2>1, Zenon DEF Mux!Init, MuxRecord
<1>5. mux.pool = <<>> /\ mux.conns = <<>> /\ mux.pend = <<>> /\ mux.held = {} /\ mux.session = "new" /\ asked = {}
  BY Zenon DEF Mux!Init
<1>6. MuxIsGood(mux, asked)
  BY <1>1, <1>5, Zenon DEF MuxIsGood, MuxGood
<1> QED BY <1>4, <1>6 DEF MuxOK

LEMMA MuxOpensNew ==
  ASSUME NEW m \in MuxRecord, NEW a, MuxIsGood(m, a), NEW t \in {"opening", "open"}
  PROVE  LET r == [Mux!OpenNew(m) EXCEPT !.session = t]
         IN  r \in MuxRecord /\ MuxIsGood(r, a)
<1> DEFINE q == Mux!With(m.pool, m.next, [st |-> "OPENING", known |-> {}])
           r == [Mux!OpenNew(m) EXCEPT !.session = t]
<1>1. /\ m.pool \in MuxPools /\ m.next \in Nat \ {0}
      /\ MuxGood(m.pool, m.conns, m.pend, m.next, m.held, m.session, a)
  BY MuxFields, Zenon DEF MuxIsGood
<1>2. q \in MuxPools /\ MuxGood(q, m.conns, m.pend, m.next + 1, m.held, t, a)
  <2>1. PICK x : x = q
    OBVIOUS
  <2>2. x \in MuxPools /\ MuxGood(x, m.conns, m.pend, m.next + 1, m.held, t, a)
    BY <1>1, <2>1, MuxJoins, ZenonT(60)
  <2> QED BY <2>1, <2>2
<1>3. m.next + 1 \in Nat \ {0}
  BY <1>1, SMT
<1>4. r = [[m EXCEPT !.pool = q, !.next = m.next + 1] EXCEPT !.session = t]
  BY Zenon DEF Mux!OpenNew
<1> HIDE DEF q, r
<1>5. r = [m EXCEPT !.pool = q, !.next = m.next + 1, !.session = t]
  BY <1>4, Zenon DEF MuxRecord
<1>6. r \in MuxRecord
  BY <1>2, <1>3, <1>5, Zenon DEF MuxRecord
<1>7. r.pool = q /\ r.conns = m.conns /\ r.pend = m.pend /\ r.next = m.next + 1 /\ r.held = m.held /\ r.session = t
  BY <1>5, Zenon DEF MuxRecord
<1> QED BY <1>2, <1>6, <1>7 DEF MuxIsGood, r

LEMMA MuxOpenSessionStep == ASSUME MuxOK, Mux!OpenSession PROVE MuxOK'
<1>1. mux \in MuxRecord /\ MuxIsGood(mux, asked) /\ asked' = asked /\ mux.session = "new"
  BY DEF MuxOK, Mux!OpenSession
<1>2. CASE mux' = [Mux!OpenNew(mux) EXCEPT !.session = "opening"]
  <2>1. mux' \in MuxRecord /\ MuxIsGood(mux', asked)
    BY <1>1, <1>2, MuxOpensNew, Zenon
  <2> QED BY <1>1, <2>1 DEF MuxOK, MuxIsGood
<1>3. CASE mux' = [mux EXCEPT !.session = "closed", !.next = @ + 1]
  <2>1. mux.pool \in MuxPools /\ mux.next \in Nat \ {0} /\ MuxGood(mux.pool, mux.conns, mux.pend, mux.next, mux.held, mux.session, asked)
    BY <1>1, MuxFields, Zenon DEF MuxIsGood
  <2>2. MuxGood(mux.pool, mux.conns, mux.pend, mux.next + 1, mux.held, mux.session, asked)
    BY <2>1, MuxNextLater, Zenon
  <2>3. MuxGood(mux.pool, mux.conns, mux.pend, mux.next + 1, mux.held, "closed", asked)
    BY <1>1, <2>2, Zenon DEF MuxGood
  <2>4. mux.next + 1 \in Nat \ {0}
    BY <2>1, SMT
  <2>5. mux' \in MuxRecord
    BY <1>1, <1>3, <2>4, Zenon DEF MuxRecord
  <2>6. /\ mux'.pool = mux.pool /\ mux'.conns = mux.conns /\ mux'.pend = mux.pend /\ mux'.next = mux.next + 1
        /\ mux'.held = mux.held /\ mux'.session = "closed"
    BY <1>1, <1>3, Zenon DEF MuxRecord
  <2> QED BY <1>1, <2>3, <2>5, <2>6 DEF MuxOK, MuxIsGood
<1> QED BY <1>2, <1>3, Zenon DEF Mux!OpenSession

LEMMA MuxSelects ==
  ASSUME NEW m, NEW b
  PROVE  Mux!SelectExisting(m, b) \subseteq DOMAIN m.pool
<1> DEFINE under == {u \in Mux!Upstreams(m) : Mux!ConnectionsNum(m, u) < Threshold}
           least == {u \in Mux!Upstreams(m) : \A v \in Mux!Upstreams(m) :
                        Mux!Cardinality(m.pool[u].known) <= Mux!Cardinality(m.pool[v].known)}
           full == b \/ Mux!Cardinality(Mux!Upstreams(m)) = PoolSize
<1>1. Mux!SelectExisting(m, b) = CASE under # {} -> under [] under = {} /\ full -> least [] OTHER -> {}
  BY Zenon DEF Mux!SelectExisting
<1>2. under \subseteq DOMAIN m.pool /\ least \subseteq DOMAIN m.pool
  BY Zenon DEF Mux!Upstreams
<1> HIDE DEF under, least, full
<1>3. CASE under # {}
  BY <1>1, <1>2, <1>3, Zenon
<1>4. CASE under = {} /\ full
  BY <1>1, <1>2, <1>4, Zenon
<1>5. CASE under = {} /\ ~full
  BY <1>1, <1>5, Zenon
<1> QED BY <1>3, <1>4, <1>5, Zenon

LEMMA MuxOpenConnectionStep ==
  ASSUME MuxOK, NEW c \in MuxConns, Mux!OpenConnection(c)
  PROVE  MuxOK'
<1>1. mux \in MuxRecord /\ MuxIsGood(mux, asked) /\ c \notin asked /\ asked' = asked \cup {c} /\ DOMAIN mux.pool # {}
  <2>1. mux \in MuxRecord /\ MuxIsGood(mux, asked) /\ c \notin asked /\ asked' = asked \cup {c} /\ mux.session = "open"
    BY Zenon DEF MuxOK, Mux!OpenConnection
  <2> QED BY <2>1, Zenon DEF MuxIsGood, MuxGood
<1>2. ASSUME NEW m2, m2 \in MuxRecord, MuxIsGood(m2, asked \cup {c}), mux' = m2 PROVE MuxOK'
  BY <1>1, <1>2 DEF MuxOK, MuxIsGood
<1> DEFINE Answers(m, ok) == mux' = IF ok THEN [m EXCEPT !.held = @ \cup {c}] ELSE m
<1>3. ASSUME NEW u \in Mux!SelectExisting(mux, FALSE), NEW r \in Mux!OpenOn(mux, u, c), Answers(r[1], r[2]) PROVE MuxOK'
  <2>1. u \in DOMAIN mux.pool
    BY MuxSelects, Zenon
  <2>2. mux' \in MuxRecord /\ MuxIsGood(mux', asked \cup {c})
    BY <1>1, <1>3, <2>1, MuxOpensOn, Zenon
  <2> QED BY <1>1, <2>2 DEF MuxOK, MuxIsGood
<1>4. ASSUME NEW u \in Mux!SelectExisting(mux, TRUE), NEW r \in Mux!OpenOn([mux EXCEPT !.next = @ + 1], u, c), Answers(r[1], r[2])
      PROVE  MuxOK'
  <2> DEFINE m == [mux EXCEPT !.next = @ + 1]
  <2>1. mux.pool \in MuxPools /\ mux.next \in Nat \ {0} /\ MuxGood(mux.pool, mux.conns, mux.pend, mux.next, mux.held, mux.session, asked)
    BY <1>1, MuxFields, Zenon DEF MuxIsGood
  <2>2. MuxGood(mux.pool, mux.conns, mux.pend, mux.next + 1, mux.held, mux.session, asked)
    BY <2>1, MuxNextLater, Zenon
  <2>3. mux.next + 1 \in Nat \ {0}
    BY <2>1, SMT
  <2>4. m \in MuxRecord
    BY <1>1, <2>3, Zenon DEF MuxRecord
  <2>5. /\ m.pool = mux.pool /\ m.conns = mux.conns /\ m.pend = mux.pend /\ m.next = mux.next + 1
        /\ m.held = mux.held /\ m.session = mux.session
    BY <1>1, Zenon DEF MuxRecord
  <2> HIDE DEF m
  <2>6. MuxIsGood(m, asked)
    BY <2>2, <2>5 DEF MuxIsGood
  <2>7. u \in DOMAIN m.pool
    BY <2>5, MuxSelects, Zenon
  <2>8. r \in Mux!OpenOn(m, u, c)
    BY <1>4 DEF m
  <2>9. mux' \in MuxRecord /\ MuxIsGood(mux', asked \cup {c})
    BY <1>1, <1>4, <2>4, <2>6, <2>7, <2>8, MuxOpensOn, Zenon
  <2> QED BY <1>1, <2>9 DEF MuxOK, MuxIsGood
<1>5. ASSUME Answers([Mux!OpenNew(mux) EXCEPT !.pend = Mux!With(@, c, mux.next)], TRUE) PROVE MuxOK'
  <2> DEFINE q == Mux!With(mux.pool, mux.next, [st |-> "OPENING", known |-> {}])
             x == Mux!With(mux.pend, c, mux.next)
  <2>1. /\ mux.pool \in MuxPools /\ mux.next \in Nat \ {0} /\ mux.pend \in MuxTables /\ mux.held \in SUBSET MuxConns
        /\ MuxGood(mux.pool, mux.conns, mux.pend, mux.next, mux.held, mux.session, asked)
    BY <1>1, MuxFields, Zenon DEF MuxIsGood
  <2>2. mux.session \in {"opening", "open"} /\ mux.next \in Nat
    BY <1>1, <2>1, Zenon DEF MuxGood
  <2>3. q \in MuxPools /\ MuxGood(q, mux.conns, mux.pend, mux.next + 1, mux.held, mux.session, asked)
    <3>1. PICK y : y = q
      OBVIOUS
    <3>2. PICK t \in {"opening", "open"} : t = mux.session
      BY <2>2
    <3>3. y \in MuxPools /\ MuxGood(y, mux.conns, mux.pend, mux.next + 1, mux.held, t, asked)
      BY <2>1, <3>1, MuxJoins, ZenonT(60)
    <3> QED BY <3>1, <3>2, <3>3
  <2>4. x \in MuxTables /\ MuxGood(q, mux.conns, x, mux.next + 1, mux.held \cup {c}, mux.session, asked \cup {c})
    BY <1>1, <2>1, <2>2, <2>3, MuxWaits, Zenon
  <2>5. mux.next + 1 \in Nat \ {0} /\ mux.held \cup {c} \in SUBSET MuxConns
    BY <2>1, SMT
  <2>6. mux' = [[[mux EXCEPT !.pool = q, !.next = mux.next + 1] EXCEPT !.pend = Mux!With(@, c, mux.next)] EXCEPT !.held = @ \cup {c}]
    BY <1>5, Zenon DEF Mux!OpenNew
  <2> HIDE DEF q
  <2>7. mux' = [mux EXCEPT !.pool = q, !.next = mux.next + 1, !.pend = x, !.held = mux.held \cup {c}]
    BY <1>1, <2>6, Zenon DEF MuxRecord
  <2> HIDE DEF x
  <2>8. mux' \in MuxRecord
    BY <1>1, <2>3, <2>4, <2>5, <2>7, Zenon DEF MuxRecord
  <2>9. /\ mux'.pool = q /\ mux'.conns = mux.conns /\ mux'.pend = x /\ mux'.next = mux.next + 1
        /\ mux'.held = mux.held \cup {c} /\ mux'.session = mux.session
    BY <1>1, <2>7, Zenon DEF MuxRecord
  <2> QED BY <1>1, <2>4, <2>8, <2>9 DEF MuxOK, MuxIsGood
<1> QED BY <1>3, <1>4, <1>5, Zenon DEF Mux!OpenConnection

LEMMA MuxCloseConnectionStep ==
  ASSUME MuxOK, NEW c \in MuxConns, Mux!CloseConnection(c)
  PROVE  MuxOK'
<1>1. mux \in MuxRecord /\ MuxIsGood(mux, asked) /\ asked' = asked /\ c \in DOMAIN mux.conns
      /\ mux' = Mux!ConnectionsEnd(mux, mux.conns[c], {c})
  BY DEF MuxOK, Mux!CloseConnection
<1>2. mux.conns[c] \in DOMAIN mux.pool /\ {c} \in SUBSET mux.pool[mux.conns[c]].known
  BY <1>1, Zenon DEF MuxIsGood, MuxGood
<1>3. mux' \in MuxRecord /\ MuxIsGood(mux', asked)
  BY <1>1, <1>2, MuxConnectionsEnd, Zenon
<1> QED BY <1>1, <1>3 DEF MuxOK, MuxIsGood

LEMMA MuxCloseSessionStep == ASSUME MuxOK, Mux!CloseSession PROVE MuxOK'
<1> DEFINE told == UNION {mux.pool[u].known : u \in DOMAIN mux.pool} \cup DOMAIN mux.pend
<1>1. mux \in MuxRecord /\ MuxIsGood(mux, asked) /\ asked' = asked
      /\ mux' = [[mux EXCEPT !.held = @ \ told] EXCEPT !.pool = <<>>, !.conns = <<>>, !.pend = <<>>, !.error = FALSE, !.session = "deleted"]
  BY Zenon DEF MuxOK, Mux!CloseSession, Mux!Told, Mux!Upstreams
<1>2. DOMAIN <<>> = {}
  BY SMT
<1>3. <<>> \in [{} -> MuxChild] /\ <<>> \in [{} -> Nat]
  BY SMT
<1>4. <<>> \in MuxPools /\ <<>> \in MuxTables
  BY <1>2, <1>3, MuxPool, MuxTable, Zenon
<1>5. mux.held \ told \in SUBSET MuxConns /\ mux.held \ told \subseteq asked
  BY <1>1, MuxFields, Zenon DEF MuxIsGood, MuxGood
<1> HIDE DEF told
<1>6. mux' = [mux EXCEPT !.held = mux.held \ told, !.pool = <<>>, !.conns = <<>>, !.pend = <<>>, !.error = FALSE, !.session = "deleted"]
  BY <1>1, Zenon DEF MuxRecord
<1>7. mux' \in MuxRecord
  BY <1>1, <1>4, <1>5, <1>6, Zenon DEF MuxRecord
<1>8. /\ mux'.pool = <<>> /\ mux'.conns = <<>> /\ mux'.pend = <<>> /\ mux'.held = mux.held \ told
      /\ mux'.session = "deleted"
  BY <1>1, <1>6, Zenon DEF MuxRecord
<1>9. MuxIsGood(mux', asked)
  BY <1>2, <1>5, <1>8, Zenon DEF MuxIsGood, MuxGood
<1> QED BY <1>1, <1>7, <1>9 DEF MuxOK, MuxIsGood

LEMMA MuxChildSessionOpenedStep ==
  ASSUME MuxOK, NEW u \in DOMAIN mux.pool, Mux!ChildSessionOpened(u)
  PROVE  MuxOK'
<1> DEFINE p == mux.pool
           q == [p EXCEPT ![u].st = "OPENED"]
           t == IF mux.open THEN mux.session ELSE "open"
           m == [mux EXCEPT !.open = TRUE, !.session = t, !.pool = q]
           S == Mux!PendingOf(m, u)
<1>1. mux \in MuxRecord /\ MuxIsGood(mux, asked) /\ asked' = asked
  BY DEF MuxOK, Mux!ChildSessionOpened
<1>2. /\ p \in MuxPools /\ mux.session \in {"new", "opening", "open", "closed", "error", "deleted"}
      /\ MuxGood(p, mux.conns, mux.pend, mux.next, mux.held, mux.session, asked)
  BY <1>1, MuxFields, Zenon DEF MuxIsGood
<1>3. mux' \in Mux!ProceedAll([mux EXCEPT !.open = TRUE, !.session = IF mux.open THEN @ ELSE "open", !.pool[u].st = "OPENED"], u)
  BY DEF Mux!ChildSessionOpened
<1>4. mux' \in Mux!ProceedAll(m, u)
  BY <1>1, <1>3, Zenon DEF MuxRecord
<1>5. /\ DOMAIN q = DOMAIN p /\ q[u].st = "OPENED" /\ q[u].known = p[u].known /\ q \in MuxPools
      /\ \A v \in DOMAIN p \ {u} : q[v] = p[v]
  <2>1. p \in [DOMAIN p -> MuxChild] /\ p[u] \in MuxChild /\ DOMAIN p \subseteq Nat \ {0}
    BY <1>2, MuxPool, Zenon
  <2>2. [p[u] EXCEPT !.st = "OPENED"] \in MuxChild
    BY <2>1, Zenon DEF MuxChild
  <2>3. DOMAIN q = DOMAIN p /\ q[u] = [p[u] EXCEPT !.st = "OPENED"] /\ \A v \in DOMAIN p \ {u} : q[v] = p[v]
    BY Zenon
  <2>4. q[u].st = "OPENED" /\ q[u].known = p[u].known
    BY <2>1, <2>3, Zenon DEF MuxChild
  <2>5. q \in [DOMAIN q -> MuxChild]
    BY <2>1, <2>2, <2>3, Zenon
  <2>6. q \in MuxPools
    BY <2>1, <2>3, <2>5, MuxPool, Zenon
  <2> QED BY <2>3, <2>4, <2>6
<1>6. \A v \in DOMAIN p : q[v].known = p[v].known /\ (p[v].st = "OPENED" => q[v].st = "OPENED")
  BY <1>5, Zenon
<1> HIDE DEF q
<1>7. t \in {"opening", "open"}
  BY <1>2, Zenon DEF MuxGood
<1>8. MuxGood(q, mux.conns, mux.pend, mux.next, mux.held, t, asked)
  <2>1. p = p /\ DOMAIN q # {}
    BY <1>5, Zenon
  <2>2. \A c \in DOMAIN mux.conns : mux.conns[c] \in DOMAIN q /\ c \in q[mux.conns[c]].known /\ c \in mux.held /\ c \notin DOMAIN mux.pend
    BY <1>2, <1>5, <1>6, Zenon DEF MuxGood
  <2>3. \A v \in DOMAIN q : /\ v < mux.next /\ (q[v].known # {} => q[v].st = "OPENED")
                            /\ \A c \in q[v].known : c \in DOMAIN mux.conns /\ mux.conns[c] = v
    <3>1. \A v \in DOMAIN p : /\ v < mux.next /\ (p[v].known # {} => p[v].st = "OPENED")
                              /\ \A c \in p[v].known : c \in DOMAIN mux.conns /\ mux.conns[c] = v
      BY <1>2, Zenon DEF MuxGood
    <3> HIDE DEF p
    <3> QED BY <1>5, <1>6, <3>1, Zenon
  <2>4. mux.held \subseteq asked /\ DOMAIN mux.pend \subseteq mux.held
    BY <1>2, Zenon DEF MuxGood
  <2> HIDE DEF t
  <2> QED BY <1>7, <2>1, <2>2, <2>3, <2>4, Zenon DEF MuxGood
<1>9. t \in {"new", "opening", "open", "closed", "error", "deleted"}
  BY <1>7, Zenon
<1> HIDE DEF t
<1>10. m \in MuxRecord
  BY <1>1, <1>5, <1>9, Zenon DEF MuxRecord
<1>11. m.pool = q /\ m.conns = mux.conns /\ m.pend = mux.pend /\ m.next = mux.next /\ m.held = mux.held /\ m.session = t
  BY <1>1, Zenon DEF MuxRecord
<1> HIDE DEF m
<1>12. MuxIsGood(m, asked)
  BY <1>8, <1>11 DEF MuxIsGood
<1>13. S \in SUBSET DOMAIN m.pend
  BY Zenon DEF Mux!PendingOf
<1>14. PICK by \in [S -> DOMAIN m.pool \cup {0}] : mux' = Mux!Proceed(m, S, by)
  BY <1>4, Zenon DEF Mux!ProceedAll, Mux!Upstreams
<1>15. mux' \in MuxRecord /\ MuxIsGood(mux', asked)
  BY <1>10, <1>12, <1>13, <1>14, MuxProceeds, Zenon
<1> QED BY <1>1, <1>15 DEF MuxOK, MuxIsGood

LEMMA MuxChildSessionClosedStep ==
  ASSUME MuxOK, NEW u \in DOMAIN mux.pool, Mux!ChildSessionClosed(u)
  PROVE  MuxOK'
<1> DEFINE m == Mux!ConnectionsEnd(mux, u, mux.pool[u].known)
           S == Mux!PendingOf(m, u)
           x == Mux!Without(m.pend, S)
           r == Mux!Told([m EXCEPT !.pend = Mux!Without(@, S)], S)
<1>1. mux \in MuxRecord /\ MuxIsGood(mux, asked) /\ asked' = asked /\ mux' = Mux!CloseUpstream(r, u)
  BY Zenon DEF MuxOK, Mux!ChildSessionClosed
<1>2. m \in MuxRecord /\ MuxIsGood(m, asked) /\ u \in DOMAIN m.pool /\ m.pool[u].known = {}
  <2> DEFINE K == mux.pool[u].known
  <2>1. PICK T \in SUBSET K : T = K
    BY Zenon
  <2>2. Mux!ConnectionsEnd(mux, u, T) = m
    BY <2>1
  <2> HIDE DEF m
  <2>3. m \in MuxRecord /\ MuxIsGood(m, asked) /\ DOMAIN m.pool = DOMAIN mux.pool /\ (T = K => m.pool[u].known = {})
    BY <1>1, <2>2, MuxConnectionsEnd, Zenon
  <2> QED BY <2>1, <2>2, <2>3, Zenon
<1> HIDE DEF m
<1>3. m.pend \in MuxTables /\ m.held \in SUBSET MuxConns /\ MuxGood(m.pool, m.conns, m.pend, m.next, m.held, m.session, asked)
  BY <1>2, MuxFields, Zenon DEF MuxIsGood
<1>4. S \in SUBSET DOMAIN m.pend /\ S \in SUBSET S
  BY Zenon DEF Mux!PendingOf
<1>5. MuxGood(m.pool, m.conns, x, m.next, m.held \ S, m.session, asked) /\ x \in MuxTables
  <2> HIDE DEF S
  <2> QED BY <1>3, <1>4, MuxForgets, MuxWithout, Zenon
<1>6. r = [[m EXCEPT !.pend = x] EXCEPT !.held = @ \ S]
  BY Zenon DEF Mux!Told
<1>7. m.held \ S \in SUBSET MuxConns
  BY <1>3, Zenon
<1> HIDE DEF x, S, r
<1>8. r = [m EXCEPT !.pend = x, !.held = m.held \ S]
  BY <1>2, <1>6, Zenon DEF MuxRecord
<1>9. r \in MuxRecord
  BY <1>2, <1>5, <1>7, <1>8, Zenon DEF MuxRecord
<1>10. r.pool = m.pool /\ r.conns = m.conns /\ r.pend = x /\ r.next = m.next /\ r.held = m.held \ S /\ r.session = m.session
  BY <1>2, <1>8, Zenon DEF MuxRecord
<1>11. MuxIsGood(r, asked) /\ u \in DOMAIN r.pool /\ r.pool[u].known = {}
  BY <1>2, <1>5, <1>10 DEF MuxIsGood
<1>12. mux' \in MuxRecord /\ MuxIsGood(mux', asked)
  BY <1>1, <1>9, <1>11, MuxCloses, Zenon
<1> QED BY <1>1, <1>12 DEF MuxOK, MuxIsGood

LEMMA MuxChildConnectionClosedStep ==
  ASSUME MuxOK, NEW u \in DOMAIN mux.pool, Mux!ChildConnectionClosed(u)
  PROVE  MuxOK'
<1>1. mux \in MuxRecord /\ MuxIsGood(mux, asked) /\ asked' = asked
  BY DEF MuxOK, Mux!ChildConnectionClosed
<1>2. PICK c \in mux.pool[u].known : mux' = Mux!ConnectionsEnd(mux, u, {c})
  BY DEF Mux!ChildConnectionClosed
<1>3. {c} \in SUBSET mux.pool[u].known
  BY Zenon
<1>4. mux' \in MuxRecord /\ MuxIsGood(mux', asked)
  BY <1>1, <1>2, <1>3, MuxConnectionsEnd, Zenon
<1> QED BY <1>1, <1>4 DEF MuxOK, MuxIsGood

LEMMA MuxDrops ==
  ASSUME NEW m \in MuxRecord, NEW a, MuxIsGood(m, a), NEW u \in DOMAIN m.pool
  PROVE  Mux!DropUpstream(m, u) \in MuxRecord /\ MuxIsGood(Mux!DropUpstream(m, u), a)
<1> DEFINE r == Mux!ConnectionsEnd(m, u, m.pool[u].known)
           K == m.pool[u].known
<1>2. r \in MuxRecord /\ MuxIsGood(r, a) /\ u \in DOMAIN r.pool /\ r.pool[u].known = {}
  <2>1. PICK T \in SUBSET K : T = K
    BY Zenon
  <2>2. Mux!ConnectionsEnd(m, u, T) = r
    BY <2>1
  <2> HIDE DEF r
  <2>3. r \in MuxRecord /\ MuxIsGood(r, a) /\ DOMAIN r.pool = DOMAIN m.pool /\ (T = K => r.pool[u].known = {})
    BY <2>2, MuxConnectionsEnd, Zenon
  <2> QED BY <2>1, <2>2, <2>3, Zenon
<1> HIDE DEF r
<1>3. Mux!CloseUpstream(r, u) \in MuxRecord /\ MuxIsGood(Mux!CloseUpstream(r, u), a)
  BY <1>2, MuxCloses, Zenon
<1> QED BY <1>3, Zenon DEF Mux!DropUpstream, r

LEMMA MuxChildErrorStep ==
  ASSUME MuxOK, NEW u \in DOMAIN mux.pool, Mux!ChildError(u)
  PROVE  MuxOK'
<1> DEFINE S == UNION {mux.pool[v].known : v \in DOMAIN mux.pool \ {u}}
           q == Mux!Restrict(mux.pool, {u})
           x == Mux!Without(mux.conns, S)
           r == [Mux!Told(mux, S) EXCEPT !.pool = Mux!Restrict(@, {u}), !.conns = Mux!Without(@, S), !.error = TRUE]
<1>1. mux \in MuxRecord /\ MuxIsGood(mux, asked) /\ asked' = asked
  BY DEF MuxOK, Mux!ChildError
<1>2. CASE mux' = Mux!DropUpstream(mux, u)
  <2>1. mux' \in MuxRecord /\ MuxIsGood(mux', asked)
    BY <1>1, <1>2, MuxDrops, Zenon
  <2> QED BY <1>1, <2>1 DEF MuxOK, MuxIsGood
<1>3. CASE mux' = Mux!DropUpstream(r, u)
  <2>1. /\ mux.pool \in MuxPools /\ mux.conns \in MuxTables /\ mux.held \in SUBSET MuxConns
        /\ MuxGood(mux.pool, mux.conns, mux.pend, mux.next, mux.held, mux.session, asked)
    BY <1>1, MuxFields, Zenon DEF MuxIsGood
  <2>2. q \in MuxPools /\ MuxGood(q, x, mux.pend, mux.next, mux.held \ S, mux.session, asked) /\ DOMAIN q = {u}
    BY <2>1, MuxOthersGo, Zenon
  <2>3. x \in MuxTables
    BY <2>1, MuxWithout, Zenon
  <2>4. r = [[mux EXCEPT !.held = @ \ S] EXCEPT !.pool = Mux!Restrict(@, {u}), !.conns = Mux!Without(@, S), !.error = TRUE]
    BY Zenon DEF Mux!Told
  <2>5. mux.held \ S \in SUBSET MuxConns
    BY <2>1, Zenon
  <2> HIDE DEF S, r
  <2>6. r = [mux EXCEPT !.held = mux.held \ S, !.pool = q, !.conns = x, !.error = TRUE]
    BY <1>1, <2>4, Zenon DEF MuxRecord
  <2> HIDE DEF q, x
  <2>7. r \in MuxRecord
    BY <1>1, <2>2, <2>3, <2>5, <2>6, Zenon DEF MuxRecord
  <2>8. r.pool = q /\ r.conns = x /\ r.pend = mux.pend /\ r.next = mux.next /\ r.held = mux.held \ S /\ r.session = mux.session
    BY <1>1, <2>6, Zenon DEF MuxRecord
  <2>9. MuxIsGood(r, asked) /\ u \in DOMAIN r.pool
    BY <2>2, <2>8 DEF MuxIsGood
  <2>10. mux' \in MuxRecord /\ MuxIsGood(mux', asked)
    BY <1>3, <2>7, <2>9, MuxDrops, Zenon
  <2> QED BY <1>1, <2>10 DEF MuxOK, MuxIsGood
<1> QED BY <1>2, <1>3, Zenon DEF Mux!ChildError, Mux!Upstreams

LEMMA MuxStepOK == MuxOK /\ [Mux!Next]_Mux!muxVars => MuxOK'
<1> SUFFICES ASSUME MuxOK, [Mux!Next]_Mux!muxVars PROVE MuxOK'
  OBVIOUS
<1>1. CASE Mux!OpenSession \/ Mux!CloseSession
  BY <1>1, MuxOpenSessionStep, MuxCloseSessionStep
<1>2. ASSUME NEW c \in MuxConns, Mux!OpenConnection(c) \/ Mux!CloseConnection(c) PROVE MuxOK'
  BY <1>2, MuxOpenConnectionStep, MuxCloseConnectionStep
<1>3. ASSUME NEW u \in DOMAIN mux.pool,
             Mux!ChildSessionOpened(u) \/ Mux!ChildSessionClosed(u) \/ Mux!ChildConnectionClosed(u) \/ Mux!ChildError(u)
      PROVE  MuxOK'
  BY <1>3, MuxChildSessionOpenedStep, MuxChildSessionClosedStep, MuxChildConnectionClosedStep, MuxChildErrorStep
<1>4. CASE UNCHANGED Mux!muxVars
  BY <1>4, Zenon DEF Mux!muxVars, MuxOK, MuxIsGood
<1> QED BY <1>1, <1>2, <1>3, <1>4, Zenon DEF Mux!Next, Mux!Upstreams

LEMMA MuxOKInStep == MuxOK => MuxInStep
<1> SUFFICES ASSUME MuxOK PROVE MuxInStep
  OBVIOUS
<1>1. MuxGood(mux.pool, mux.conns, mux.pend, mux.next, mux.held, mux.session, asked)
  BY DEF MuxOK, MuxIsGood
<1> QED BY <1>1, Zenon DEF MuxInStep, Mux!MuxInStep, MuxGood, Mux!Upstreams

\* UpstreamMultiplexer (upstream_multiplexer.cpp): whatever its upstreams report, in whatever order, and
\* whatever the tunnel asks, the connections of the multiplexer, those its upstreams know and those the tunnel
\* holds are the same, and a client whose last upstream is gone knows that its session is over.
THEOREM MuxStaysInStep == Mux!Spec => []MuxInStep
<1>1. MuxOK => MuxInStep
  BY MuxOKInStep
<1> QED BY <1>1, MuxInitOK, MuxStepOK, PTL DEF Mux!Spec

-----------------------------------------------------------------------------
(* The stream of UDP packets.                                              *)

\* A set of naturals that has 0, and with each number the next one, has them all.
LEMMA UdpAllNaturals ==
  ASSUME NEW N, 0 \in N, \A n \in Nat : n \in N => n + 1 \in N
  PROVE  Nat \subseteq N
<1> SUFFICES ASSUME Nat \ N # {} PROVE FALSE
  OBVIOUS
<1> DEFINE M == Nat \ N
<1>1. M \subseteq Nat /\ M # {}
  OBVIOUS
<1> HIDE DEF M
<1>2. PICK x \in M : \A y \in M : ~(<<y, x>> \in OpToRel(<, Nat))
  BY <1>1, NatLessThanWellFounded, WFMin
<1>3. \A y \in M : y < x => <<y, x>> \in OpToRel(<, Nat)
  BY <1>1 DEF OpToRel
<1>4. \A y \in M : ~(y < x)
  BY <1>2, <1>3, Zenon
<1>5. x \in Nat /\ x # 0 /\ x \notin N
  BY <1>1 DEF M
<1>6. x - 1 \in Nat /\ x - 1 < x /\ x = (x - 1) + 1
  BY <1>5, SMT
<1>7. x - 1 \in N
  BY <1>4, <1>6 DEF M
<1> QED BY <1>5, <1>6, <1>7

\* The sequence r holds the items of q that are not about S, in their order: h is where they were.
UdpKeeps(q, S, r, h, n) ==
    /\ h \in [1 .. Len(r) -> 1 .. n]
    /\ \A a \in 1 .. Len(r) : r[a] = q[h[a]] /\ q[h[a]][2] \notin S
    /\ \A a, b \in 1 .. Len(r) : a < b => h[a] < h[b]
    /\ \A i \in 1 .. n : q[i][2] \notin S => \E a \in 1 .. Len(r) : h[a] = i

\* f is what is left of the first n items of q, item by item.
UdpLeft(q, S, f, n) ==
    /\ DOMAIN f = 0 .. n /\ f[0] = <<>>
    /\ \A i \in 1 .. n : f[i] = IF q[i][2] \in S THEN f[i - 1] ELSE Append(f[i - 1], q[i])

LEMMA UdpLeftExists ==
  ASSUME NEW q, NEW S, NEW n \in Nat
  PROVE  \E f : UdpLeft(q, S, f, n)
<1> DEFINE N == {k \in Nat : \E f : UdpLeft(q, S, f, k)}
<1>1. 0 \in N
  <2>1. UdpLeft(q, S, [i \in 0 .. 0 |-> <<>>], 0)
    BY DEF UdpLeft
  <2> QED BY <2>1
<1>2. ASSUME NEW k \in Nat, k \in N PROVE k + 1 \in N
  <2>1. PICK f : UdpLeft(q, S, f, k)
    BY <1>2
  <2> DEFINE v == IF q[k + 1][2] \in S THEN f[k] ELSE Append(f[k], q[k + 1])
             g == [i \in 0 .. (k + 1) |-> IF i = k + 1 THEN v ELSE f[i]]
  <2> HIDE DEF v
  <2>2. DOMAIN g = 0 .. (k + 1) /\ g[k + 1] = v /\ \A i \in 0 .. k : g[i] = f[i]
    BY SMT
  <2> HIDE DEF g
  <2>3. g[0] = <<>>
    BY <2>1, <2>2 DEF UdpLeft
  <2>4. ASSUME NEW i \in 1 .. (k + 1) PROVE g[i] = IF q[i][2] \in S THEN g[i - 1] ELSE Append(g[i - 1], q[i])
    <3>1. i - 1 \in 0 .. k /\ g[i - 1] = f[i - 1]
      BY <2>2
    <3>2. CASE i = k + 1
      <4>1. i - 1 = k
        BY <3>2, SMT
      <4> QED BY <2>2, <3>1, <3>2, <4>1, Zenon DEF v
    <3>3. CASE i # k + 1
      <4>1. i \in 1 .. k /\ g[i] = f[i]
        BY <2>2, <3>3, SMT
      <4> QED BY <2>1, <3>1, <4>1, Zenon DEF UdpLeft
    <3> QED BY <3>2, <3>3
  <2>5. UdpLeft(q, S, g, k + 1)
    BY <2>2, <2>3, <2>4, Zenon DEF UdpLeft
  <2>6. k + 1 \in Nat
    OBVIOUS
  <2> QED BY <2>5, <2>6
<1> HIDE DEF N
<1>3. Nat \subseteq N
  BY <1>1, <1>2, UdpAllNaturals, Zenon
<1> QED BY <1>3 DEF N

LEMMA UdpWithoutIsLeft ==
  ASSUME NEW T, NEW q \in Seq(T), NEW S
  PROVE  \E f : UdpLeft(q, S, f, Len(q)) /\ Udp!Without(q, S) = f[Len(q)]
<1> DEFINE n == Len(q)
           F == CHOOSE F : F = [i \in 0 .. n |-> IF i = 0 THEN <<>> ELSE IF q[i][2] \in S THEN F[i - 1] ELSE Append(F[i - 1], q[i])]
<1>1. n \in Nat
  OBVIOUS
<1>2. Udp!Without(q, S) = F[n]
  BY Zenon DEF Udp!Without
<1> HIDE DEF n
<1>3. PICK f : UdpLeft(q, S, f, n)
  BY <1>1, UdpLeftExists, Zenon
<1> DEFINE B(g) == [i \in 0 .. n |-> IF i = 0 THEN <<>> ELSE IF q[i][2] \in S THEN g[i - 1] ELSE Append(g[i - 1], q[i])]
<1>4. UdpLeft(q, S, B(f), n) /\ B(f) = B(B(f))
  <2>1. \A i \in 0 .. n : B(f)[i] = IF i = 0 THEN <<>> ELSE IF q[i][2] \in S THEN f[i - 1] ELSE Append(f[i - 1], q[i])
    BY Zenon
  <2>2. \A i \in 0 .. n : i = 0 \/ i \in 1 .. n
    BY <1>1, SMT
  <2>3. 0 \notin 1 .. n
    BY <1>1, SMT
  <2>4. ASSUME NEW i \in 0 .. n PROVE B(f)[i] = f[i]
    <3>1. CASE i = 0
      BY <1>3, <2>1, <3>1, Zenon DEF UdpLeft
    <3>2. CASE i # 0
      BY <1>3, <2>1, <2>2, <3>2, Zenon DEF UdpLeft
    <3> QED BY <3>1, <3>2
  <2>5. \A i \in 1 .. n : i - 1 \in 0 .. n
    BY <1>1, SMT
  <2>6. DOMAIN B(f) = 0 .. n
    BY Zenon
  <2>7. ASSUME NEW i \in 0 .. n PROVE B(f)[i] = IF i = 0 THEN <<>> ELSE IF q[i][2] \in S THEN B(f)[i - 1] ELSE Append(B(f)[i - 1], q[i])
    <3>1. CASE i = 0
      BY <2>1, <3>1, Zenon
    <3>2. CASE i # 0
      <4>1. B(f)[i - 1] = f[i - 1]
        BY <2>2, <2>4, <2>5, <3>2, Zenon
      <4> QED BY <2>1, <4>1, Zenon
    <3> QED BY <3>1, <3>2
  <2>8. B(B(f)) = B(f)
    BY <2>7, Zenon
  <2>9. UdpLeft(q, S, B(f), n)
    <3>1. 0 \in 0 .. n /\ \A i \in 1 .. n : i \in 0 .. n /\ i # 0
      BY <1>1, SMT
    <3> HIDE DEF B
    <3>2. B(f)[0] = <<>>
      BY <2>7, <3>1, Zenon
    <3>3. \A i \in 1 .. n : B(f)[i] = IF q[i][2] \in S THEN B(f)[i - 1] ELSE Append(B(f)[i - 1], q[i])
      BY <2>7, <3>1, Zenon
    <3> QED BY <2>6, <3>2, <3>3, Zenon DEF UdpLeft
  <2> QED BY <2>8, <2>9
<1>5. F = B(F)
  <2>1. \E g : g = B(g)
    BY <1>4, Zenon
  <2>2. F = CHOOSE g : g = B(g)
    BY Zenon
  <2> QED BY <2>1, <2>2, Zenon
<1> HIDE DEF F
<1>6. UdpLeft(q, S, F, n)
  <2>1. DOMAIN F = 0 .. n /\ \A i \in 0 .. n : F[i] = IF i = 0 THEN <<>> ELSE IF q[i][2] \in S THEN F[i - 1] ELSE Append(F[i - 1], q[i])
    BY <1>5, Zenon
  <2>2. 0 \in 0 .. n /\ \A i \in 1 .. n : i \in 0 .. n /\ i # 0
    BY <1>1, SMT
  <2>3. F[0] = <<>>
    BY <2>1, <2>2, Zenon
  <2>4. \A i \in 1 .. n : F[i] = IF q[i][2] \in S THEN F[i - 1] ELSE Append(F[i - 1], q[i])
    BY <2>1, <2>2, Zenon
  <2> QED BY <2>1, <2>3, <2>4, Zenon DEF UdpLeft
<1> QED BY <1>2, <1>6 DEF n

\* One more item is looked at: it goes, or it comes last.
LEMMA UdpKeepsGone ==
  ASSUME NEW q, NEW S, NEW T, NEW r \in Seq(T), NEW h, NEW n \in Nat, UdpKeeps(q, S, r, h, n), q[n + 1][2] \in S
  PROVE  UdpKeeps(q, S, r, h, n + 1)
<1>1. h \in [1 .. Len(r) -> 1 .. (n + 1)]
  BY DEF UdpKeeps
<1>2. ASSUME NEW i \in 1 .. (n + 1), q[i][2] \notin S PROVE \E a \in 1 .. Len(r) : h[a] = i
  <2>1. i # n + 1
    BY <1>2, Zenon
  <2>2. i \in 1 .. n
    BY <2>1, SMT
  <2> QED BY <1>2, <2>2, Zenon DEF UdpKeeps
<1> QED BY <1>1, <1>2, Zenon DEF UdpKeeps

LEMMA UdpKeepsLast ==
  ASSUME NEW q, NEW S, NEW T, NEW r \in Seq(T), NEW h, NEW n \in Nat, UdpKeeps(q, S, r, h, n), q[n + 1][2] \notin S, q[n + 1] \in T
  PROVE  \E g : UdpKeeps(q, S, Append(r, q[n + 1]), g, n + 1)
<1> DEFINE m == Len(r)
           s == Append(r, q[n + 1])
           g == [a \in 1 .. (m + 1) |-> IF a = m + 1 THEN n + 1 ELSE h[a]]
<1>1. m \in Nat /\ Len(s) = m + 1 /\ s[m + 1] = q[n + 1] /\ \A a \in 1 .. m : s[a] = r[a]
  OBVIOUS
<1> HIDE DEF s, m
<1>2. /\ h \in [1 .. m -> 1 .. n] /\ (\A a \in 1 .. m : r[a] = q[h[a]] /\ q[h[a]][2] \notin S)
      /\ (\A a, b \in 1 .. m : a < b => h[a] < h[b])
      /\ (\A i \in 1 .. n : q[i][2] \notin S => \E a \in 1 .. m : h[a] = i)
  BY Zenon DEF UdpKeeps, m
<1>3. g[m + 1] = n + 1 /\ \A a \in 1 .. m : g[a] = h[a]
  BY <1>1, SMT
<1>4. g \in [1 .. (m + 1) -> 1 .. (n + 1)]
  <2>1. \A a \in 1 .. (m + 1) : a = m + 1 \/ a \in 1 .. m
    BY <1>1, SMT
  <2>2. \A a \in 1 .. m : h[a] \in 1 .. (n + 1)
    BY <1>2, SMT
  <2>3. n + 1 \in 1 .. (n + 1)
    BY SMT
  <2> QED BY <2>1, <2>2, <2>3, Zenon
<1> HIDE DEF g
<1>5. \A a \in 1 .. (m + 1) : a = m + 1 \/ a \in 1 .. m
  BY <1>1, SMT
<1>6. \A a \in 1 .. (m + 1) : s[a] = q[g[a]] /\ q[g[a]][2] \notin S
  BY <1>1, <1>2, <1>3, <1>5, Zenon
<1>7. ASSUME NEW a \in 1 .. (m + 1), NEW b \in 1 .. (m + 1), a < b PROVE g[a] < g[b]
  <2>1. a \in 1 .. m
    BY <1>1, <1>7, SMT
  <2>2. CASE b = m + 1
    <3>1. h[a] \in 1 .. n
      BY <1>2, <2>1
    <3> QED BY <1>3, <2>1, <2>2, <3>1, SMT
  <2>3. CASE b \in 1 .. m
    BY <1>2, <1>3, <1>7, <2>1, <2>3, Zenon
  <2> QED BY <1>5, <2>2, <2>3
<1>8. ASSUME NEW i \in 1 .. (n + 1), q[i][2] \notin S PROVE \E a \in 1 .. (m + 1) : g[a] = i
  <2>0. m + 1 \in 1 .. (m + 1) /\ \A a \in 1 .. m : a \in 1 .. (m + 1)
    BY <1>1, SMT
  <2>1. CASE i = n + 1
    BY <1>3, <2>0, <2>1, Zenon
  <2>2. CASE i # n + 1
    <3>1. i \in 1 .. n
      BY <2>2, SMT
    <3>2. PICK a \in 1 .. m : h[a] = i
      BY <1>2, <1>8, <3>1, Zenon
    <3> QED BY <1>3, <2>0, <3>2, Zenon
  <2> QED BY <2>1, <2>2
<1>9. UdpKeeps(q, S, s, g, n + 1)
  BY <1>1, <1>4, <1>6, <1>7, <1>8 DEF UdpKeeps
<1> QED BY <1>9 DEF s

\* What Without leaves of a sequence.
LEMMA UdpWithout ==
  ASSUME NEW T, NEW q \in Seq(T), NEW S
  PROVE  Udp!Without(q, S) \in Seq(T) /\ \E h : UdpKeeps(q, S, Udp!Without(q, S), h, Len(q))
<1>1. PICK f : UdpLeft(q, S, f, Len(q)) /\ Udp!Without(q, S) = f[Len(q)]
  BY UdpWithoutIsLeft, Zenon
<1> DEFINE N == {k \in Nat : k <= Len(q) => f[k] \in Seq(T) /\ \E h : UdpKeeps(q, S, f[k], h, k)}
<1>2. 0 \in N
  <2>1. f[0] = <<>>
    BY <1>1, Zenon DEF UdpLeft
  <2>2. UdpKeeps(q, S, <<>>, <<>>, 0)
    BY DEF UdpKeeps
  <2>3. <<>> \in Seq(T) /\ 0 \in Nat
    OBVIOUS
  <2> QED BY <2>1, <2>2, <2>3
<1>3. ASSUME NEW k \in Nat, k \in N PROVE k + 1 \in N
  <2>0. k + 1 \in Nat
    OBVIOUS
  <2> SUFFICES ASSUME k + 1 <= Len(q) PROVE f[k + 1] \in Seq(T) /\ \E h : UdpKeeps(q, S, f[k + 1], h, k + 1)
    BY <2>0
  <2>1. k <= Len(q) /\ k + 1 \in 1 .. Len(q) /\ k = (k + 1) - 1
    BY <2>0, SMT
  <2>2. f[k] \in Seq(T)
    BY <1>3, <2>1
  <2>3. PICK h : UdpKeeps(q, S, f[k], h, k)
    BY <1>3, <2>1
  <2>4. q[k + 1] \in T
    BY <2>1, ElementOfSeq
  <2>5. f[k + 1] = IF q[k + 1][2] \in S THEN f[k] ELSE Append(f[k], q[k + 1])
    <3>1. f[k + 1] = IF q[k + 1][2] \in S THEN f[(k + 1) - 1] ELSE Append(f[(k + 1) - 1], q[k + 1])
      BY <1>1, <2>1, Zenon DEF UdpLeft
    <3> QED BY <2>1, <3>1
  <2>6. CASE q[k + 1][2] \in S
    <3>1. f[k + 1] = f[k]
      BY <2>5, <2>6, Zenon
    <3>2. UdpKeeps(q, S, f[k], h, k + 1)
      BY <2>2, <2>3, <2>6, UdpKeepsGone, Zenon
    <3> QED BY <2>2, <3>1, <3>2
  <2>7. CASE q[k + 1][2] \notin S
    <3>1. f[k + 1] = Append(f[k], q[k + 1])
      BY <2>5, <2>7, Zenon
    <3>2. \E g : UdpKeeps(q, S, Append(f[k], q[k + 1]), g, k + 1)
      BY <2>2, <2>3, <2>4, <2>7, UdpKeepsLast, Zenon
    <3>3. Append(f[k], q[k + 1]) \in Seq(T)
      BY <2>2, <2>4
    <3> QED BY <3>1, <3>2, <3>3
  <2> QED BY <2>6, <2>7
<1> HIDE DEF N
<1>4. Nat \subseteq N
  BY <1>2, <1>3, UdpAllNaturals, Zenon
<1>5. Len(q) \in N /\ Len(q) <= Len(q)
  BY <1>4
<1> QED BY <1>1, <1>5 DEF N

UdpTasks == {"open", "close"} \X UdpConns
UdpOn(t) == {c \in UdpConns : t[c].on}
UdpRecv == [st : {"IDLE", "PAYLOAD", "DROPPING"}, id : UdpConns \cup {UNONE}, left : Nat, have : Nat]

UdpWire == [addr : Udp!Addrs \cup {UNONE}, len : Nat, got : Nat, place : {"kept", "ending", "lost"}]

UdpTyped ==
    /\ udps \in [UdpConns -> [on : BOOLEAN, read : BOOLEAN]]
    /\ addrTo \in [Udp!Addrs -> UdpConns \cup {UNONE}] /\ utasks \in Seq(UdpTasks) /\ uheld \subseteq UdpConns
    /\ rc \in UdpRecv /\ wire \in UdpWire

\* The tasks q, the connections on that exist, those the tunnel holds and the table of addresses agree. A
\* connection the tunnel does not hold any more waits for its close task, which comes after its open task; one
\* the tunnel holds is found by its address or will be by its open task, which comes after the close tasks of
\* older connections with its address.
UdpAgree(q, n, on, held, to) ==
    /\ \A i, j \in 1 .. n : q[i] = q[j] => i = j
    /\ \A i \in 1 .. n : q[i][2] \in on
    /\ \A c \in UdpConns : c \in on <=> (c \in held \/ \E i \in 1 .. n : q[i] = <<"close", c>>)
    /\ \A i \in 1 .. n : q[i][1] = "close" => q[i][2] \notin held
    /\ \A c, d \in held : AddrOf[c] = AddrOf[d] => c = d
    /\ \A c \in held : (\E i \in 1 .. n : q[i] = <<"open", c>>) \/ to[AddrOf[c]] = c
    /\ \A i \in 1 .. n : q[i][1] = "open" /\ q[i][2] \notin held =>
          \E j \in 1 .. n : i < j /\ q[j] = <<"close", q[i][2]>>
    /\ \A i \in 1 .. n : \A c \in held : q[i][1] = "close" /\ AddrOf[q[i][2]] = AddrOf[c] =>
          \E j \in 1 .. n : i < j /\ q[j] = <<"open", c>>

UdpQueue(q, on, held, to) == UdpAgree(q, Len(q), on, held, to)

\* Where the multiplexer is in the packet that the endpoint sends.
UdpInPlace(r, w) ==
    /\ r.st = "IDLE" => /\ r.have = (IF w.got < Prefix THEN w.got ELSE 0)
                        /\ (w.got < Prefix \/ w.got = Prefix + w.len)
    /\ r.st # "IDLE" => w.got >= Prefix /\ r.left = Prefix + w.len - w.got /\ w.addr # UNONE
    /\ r.st = "PAYLOAD" => AddrOf[r.id] = w.addr
    /\ w.got <= Prefix + w.len /\ (w.addr = UNONE => w.got = 0)

UdpReceives(r, w, on) ==
    /\ r.st = "IDLE" => r.id = UNONE
    /\ r.st = "PAYLOAD" => r.id \in on
    /\ w.place = "kept" => UdpInPlace(r, w)

UdpFound(to) == \A a \in Udp!Addrs : to[a] # UNONE => AddrOf[to[a]] = a

UdpOK ==
    /\ UdpTyped /\ UdpQueue(utasks, UdpOn(udps), uheld, addrTo)
    /\ UdpReceives(rc, wire, UdpOn(udps)) /\ UdpFound(addrTo) /\ (wire.place = "kept" => ~misled)

LEMMA UdpPair ==
  ASSUME NEW x \in UdpTasks
  PROVE  x = <<x[1], x[2]>> /\ x[1] \in {"open", "close"} /\ x[2] \in UdpConns
BY SMT DEF UdpTasks

LEMMA UdpAddr ==
  ASSUME NEW c \in UdpConns
  PROVE  AddrOf[c] \in Udp!Addrs /\ AddrOf[c] # UNONE /\ c # UNONE
BY UpstreamsAssumption, Zenon DEF UpstreamsAssumption, Udp!Addrs

LEMMA UdpOpens ==
  ASSUME NEW q \in Seq(UdpTasks), NEW on \in SUBSET UdpConns, NEW held \in SUBSET UdpConns, NEW to, UdpQueue(q, on, held, to),
         NEW c \in UdpConns, c \notin on, \A d \in held : AddrOf[d] # AddrOf[c]
  PROVE  UdpQueue(Append(q, <<"open", c>>), on \cup {c}, held \cup {c}, to)
<1> DEFINE n == Len(q)
           s == Append(q, <<"open", c>>)
           H == held \cup {c}
<1>1. n \in Nat /\ Len(s) = n + 1 /\ s[n + 1] = <<"open", c>> /\ \A i \in 1 .. n : s[i] = q[i]
  OBVIOUS
<1>2. \A i \in 1 .. (n + 1) : i \in 1 .. n \/ (i = n + 1 /\ i \notin 1 .. n)
  BY <1>1, SMT
<1>3. (\A i \in 1 .. n : i \in 1 .. (n + 1) /\ i < n + 1) /\ n + 1 \in 1 .. (n + 1)
  BY <1>1, SMT
<1>4. <<"open", c>>[1] = "open" /\ <<"open", c>>[2] = c /\ (\A d : <<"open", c>> # <<"close", d>>) /\ \A d : <<"open", c>> = <<"open", d>> => c = d
  BY SMT
<1>5. \A i \in 1 .. n : q[i][2] # c /\ q[i] # <<"open", c>> /\ q[i][2] \in on /\ q[i] # <<"close", c>>
  <2>1. \A i \in 1 .. n : q[i][2] \in on
    BY Zenon DEF UdpQueue, UdpAgree
  <2>2. <<"close", c>>[2] = c
    BY SMT
  <2> QED BY <1>4, <2>1, <2>2, Zenon
<1>6. c \notin held
  BY Zenon
<1> HIDE DEF n, s
<1>7. \A i, j \in 1 .. (n + 1) : s[i] = s[j] => i = j
  <2>1. \A i, j \in 1 .. n : q[i] = q[j] => i = j
    BY Zenon DEF UdpQueue, UdpAgree, n
  <2> QED BY <1>1, <1>2, <1>5, <2>1, Zenon
<1>8. \A i \in 1 .. (n + 1) : s[i][2] \in on \cup {c}
  BY <1>1, <1>2, <1>4, <1>5, Zenon
<1>9. \A d \in UdpConns : d \in on \cup {c} <=> (d \in H \/ \E i \in 1 .. (n + 1) : s[i] = <<"close", d>>)
  <2>1. \A d \in UdpConns : d \in on <=> (d \in held \/ \E i \in 1 .. n : q[i] = <<"close", d>>)
    BY Zenon DEF UdpQueue, UdpAgree, n
  <2> QED BY <1>1, <1>2, <1>3, <1>4, <2>1, Zenon
<1>10. \A i \in 1 .. (n + 1) : s[i][1] = "close" => s[i][2] \notin H
  <2>1. \A i \in 1 .. n : q[i][1] = "close" => q[i][2] \notin held
    BY Zenon DEF UdpQueue, UdpAgree, n
  <2> QED BY <1>1, <1>2, <1>4, <1>5, <2>1, Zenon
<1>11. \A x, y \in H : AddrOf[x] = AddrOf[y] => x = y
  <2>1. \A x, y \in held : AddrOf[x] = AddrOf[y] => x = y
    BY Zenon DEF UdpQueue, UdpAgree
  <2> QED BY <2>1, Zenon
<1>12. \A x \in H : (\E i \in 1 .. (n + 1) : s[i] = <<"open", x>>) \/ to[AddrOf[x]] = x
  <2>1. \A x \in held : (\E i \in 1 .. n : q[i] = <<"open", x>>) \/ to[AddrOf[x]] = x
    BY Zenon DEF UdpQueue, UdpAgree, n
  <2> QED BY <1>1, <1>3, <2>1, Zenon
<1>13. \A i \in 1 .. (n + 1) : s[i][1] = "open" /\ s[i][2] \notin H => \E j \in 1 .. (n + 1) : i < j /\ s[j] = <<"close", s[i][2]>>
  <2>1. \A i \in 1 .. n : q[i][1] = "open" /\ q[i][2] \notin held => \E j \in 1 .. n : i < j /\ q[j] = <<"close", q[i][2]>>
    BY Zenon DEF UdpQueue, UdpAgree, n
  <2> SUFFICES ASSUME NEW i \in 1 .. (n + 1), s[i][1] = "open", s[i][2] \notin H PROVE \E j \in 1 .. (n + 1) : i < j /\ s[j] = <<"close", s[i][2]>>
    OBVIOUS
  <2>2. i \in 1 .. n
    BY <1>1, <1>2, <1>4, Zenon
  <2>3. PICK j \in 1 .. n : i < j /\ q[j] = <<"close", q[i][2]>>
    BY <1>1, <2>1, <2>2, Zenon
  <2> QED BY <1>1, <1>3, <2>2, <2>3, Zenon
<1>14. \A i \in 1 .. (n + 1) : \A x \in H : s[i][1] = "close" /\ AddrOf[s[i][2]] = AddrOf[x] => \E j \in 1 .. (n + 1) : i < j /\ s[j] = <<"open", x>>
  <2>1. \A i \in 1 .. n : \A x \in held : q[i][1] = "close" /\ AddrOf[q[i][2]] = AddrOf[x] => \E j \in 1 .. n : i < j /\ q[j] = <<"open", x>>
    BY Zenon DEF UdpQueue, UdpAgree, n
  <2> SUFFICES ASSUME NEW i \in 1 .. (n + 1), NEW x \in H, s[i][1] = "close", AddrOf[s[i][2]] = AddrOf[x]
               PROVE  \E j \in 1 .. (n + 1) : i < j /\ s[j] = <<"open", x>>
    OBVIOUS
  <2>2. i \in 1 .. n
    <3>1. "open" # "close"
      OBVIOUS
    <3> QED BY <1>1, <1>2, <1>4, <3>1, Zenon
  <2>3. CASE x = c
    BY <1>1, <1>3, <2>2, <2>3, Zenon
  <2>4. CASE x \in held
    <3>1. PICK j \in 1 .. n : i < j /\ q[j] = <<"open", x>>
      BY <1>1, <2>1, <2>2, <2>4, Zenon
    <3> QED BY <1>1, <1>3, <3>1, Zenon
  <2> QED BY <2>3, <2>4
<1>15. UdpQueue(s, on \cup {c}, H, to)
  <2> HIDE DEF H
  <2> DEFINE X == on \cup {c}
  <2>1. X = on \cup {c}
    OBVIOUS
  <2> HIDE DEF X
  <2>2. UdpAgree(s, n + 1, X, H, to)
    BY <1>7, <1>8, <1>9, <1>10, <1>11, <1>12, <1>13, <1>14, <2>1, Zenon DEF UdpAgree
  <2> QED BY <1>1, <2>1, <2>2 DEF UdpQueue
<1> QED BY <1>15 DEF s

LEMMA UdpClosesLater ==
  ASSUME NEW q \in Seq(UdpTasks), NEW on \in SUBSET UdpConns, NEW held \in SUBSET UdpConns, NEW to, UdpQueue(q, on, held, to),
         NEW c \in held
  PROVE  UdpQueue(Append(q, <<"close", c>>), on, held \ {c}, to)
<1> DEFINE n == Len(q)
           s == Append(q, <<"close", c>>)
           H == held \ {c}
<1>0. c \in UdpConns
  OBVIOUS
<1>1. n \in Nat /\ Len(s) = n + 1 /\ s[n + 1] = <<"close", c>> /\ \A i \in 1 .. n : s[i] = q[i]
  BY <1>0
<1>2. \A i \in 1 .. (n + 1) : i \in 1 .. n \/ (i = n + 1 /\ i \notin 1 .. n)
  BY <1>1, SMT
<1>3. (\A i \in 1 .. n : i \in 1 .. (n + 1) /\ i < n + 1) /\ n + 1 \in 1 .. (n + 1)
  BY <1>1, SMT
<1>4. <<"close", c>>[1] = "close" /\ <<"close", c>>[2] = c /\ (\A d : <<"close", c>> # <<"open", d>>) /\ \A d : <<"close", c>> = <<"close", d>> => c = d
  BY SMT
<1>5. \A i \in 1 .. n : q[i] # <<"close", c>>
  <2>1. \A i \in 1 .. n : q[i][1] = "close" => q[i][2] \notin held
    BY Zenon DEF UdpQueue, UdpAgree
  <2> QED BY <1>4, <2>1, Zenon
<1>6. c \in on /\ "close" # "open"
  BY <1>0, Zenon DEF UdpQueue, UdpAgree
<1> HIDE DEF n, s
<1>7. \A i, j \in 1 .. (n + 1) : s[i] = s[j] => i = j
  <2>1. \A i, j \in 1 .. n : q[i] = q[j] => i = j
    BY Zenon DEF UdpQueue, UdpAgree, n
  <2> QED BY <1>1, <1>2, <1>5, <2>1, Zenon
<1>8. \A i \in 1 .. (n + 1) : s[i][2] \in on
  <2>1. \A i \in 1 .. n : q[i][2] \in on
    BY Zenon DEF UdpQueue, UdpAgree, n
  <2> QED BY <1>1, <1>2, <1>4, <1>6, <2>1, Zenon
<1>9. \A d \in UdpConns : d \in on <=> (d \in H \/ \E i \in 1 .. (n + 1) : s[i] = <<"close", d>>)
  <2>1. \A d \in UdpConns : d \in on <=> (d \in held \/ \E i \in 1 .. n : q[i] = <<"close", d>>)
    BY Zenon DEF UdpQueue, UdpAgree, n
  <2> QED BY <1>1, <1>2, <1>3, <1>4, <1>6, <2>1, Zenon
<1>10. \A i \in 1 .. (n + 1) : s[i][1] = "close" => s[i][2] \notin H
  <2>1. \A i \in 1 .. n : q[i][1] = "close" => q[i][2] \notin held
    BY Zenon DEF UdpQueue, UdpAgree, n
  <2> QED BY <1>1, <1>2, <1>4, <2>1, Zenon
<1>11. \A x, y \in H : AddrOf[x] = AddrOf[y] => x = y
  BY Zenon DEF UdpQueue, UdpAgree
<1>12. \A x \in H : (\E i \in 1 .. (n + 1) : s[i] = <<"open", x>>) \/ to[AddrOf[x]] = x
  <2>1. \A x \in held : (\E i \in 1 .. n : q[i] = <<"open", x>>) \/ to[AddrOf[x]] = x
    BY Zenon DEF UdpQueue, UdpAgree, n
  <2> QED BY <1>1, <1>3, <2>1, Zenon
<1>13. \A i \in 1 .. (n + 1) : s[i][1] = "open" /\ s[i][2] \notin H => \E j \in 1 .. (n + 1) : i < j /\ s[j] = <<"close", s[i][2]>>
  <2>1. \A i \in 1 .. n : q[i][1] = "open" /\ q[i][2] \notin held => \E j \in 1 .. n : i < j /\ q[j] = <<"close", q[i][2]>>
    BY Zenon DEF UdpQueue, UdpAgree, n
  <2> SUFFICES ASSUME NEW i \in 1 .. (n + 1), s[i][1] = "open", s[i][2] \notin H PROVE \E j \in 1 .. (n + 1) : i < j /\ s[j] = <<"close", s[i][2]>>
    OBVIOUS
  <2>2. i \in 1 .. n
    BY <1>1, <1>2, <1>4, <1>6, Zenon
  <2>3. CASE s[i][2] = c
    BY <1>1, <1>3, <2>2, <2>3, Zenon
  <2>4. CASE s[i][2] \notin held
    <3>1. PICK j \in 1 .. n : i < j /\ q[j] = <<"close", q[i][2]>>
      BY <1>1, <2>1, <2>2, <2>4, Zenon
    <3> QED BY <1>1, <1>3, <2>2, <3>1, Zenon
  <2> QED BY <2>3, <2>4
<1>14. \A i \in 1 .. (n + 1) : \A x \in H : s[i][1] = "close" /\ AddrOf[s[i][2]] = AddrOf[x] => \E j \in 1 .. (n + 1) : i < j /\ s[j] = <<"open", x>>
  <2>1. \A i \in 1 .. n : \A x \in held : q[i][1] = "close" /\ AddrOf[q[i][2]] = AddrOf[x] => \E j \in 1 .. n : i < j /\ q[j] = <<"open", x>>
    BY Zenon DEF UdpQueue, UdpAgree, n
  <2> SUFFICES ASSUME NEW i \in 1 .. (n + 1), NEW x \in H, s[i][1] = "close", AddrOf[s[i][2]] = AddrOf[x]
               PROVE  \E j \in 1 .. (n + 1) : i < j /\ s[j] = <<"open", x>>
    OBVIOUS
  <2>2. x \in held /\ x # c
    BY Zenon
  <2>3. AddrOf[x] # AddrOf[c]
    BY <2>2, Zenon DEF UdpQueue, UdpAgree
  <2>4. i \in 1 .. n
    BY <1>1, <1>2, <1>4, <2>3, Zenon
  <2>5. PICK j \in 1 .. n : i < j /\ q[j] = <<"open", x>>
    BY <1>1, <2>1, <2>2, <2>4, Zenon
  <2> QED BY <1>1, <1>3, <2>5, Zenon
<1>15. UdpQueue(s, on, H, to)
  <2> HIDE DEF H
  <2> DEFINE X == on
  <2>1. X = on
    OBVIOUS
  <2> HIDE DEF X
  <2>2. UdpAgree(s, n + 1, X, H, to)
    BY <1>7, <1>8, <1>9, <1>10, <1>11, <1>12, <1>13, <1>14, <2>1, Zenon DEF UdpAgree
  <2> QED BY <1>1, <2>1, <2>2 DEF UdpQueue
<1> QED BY <1>15 DEF s

\* complete_udp_connection of the first task: an older connection with the address has been closed by then.
LEMMA UdpCompletes ==
  ASSUME NEW q \in Seq(UdpTasks), NEW on \in SUBSET UdpConns, NEW held \in SUBSET UdpConns,
         NEW to \in [Udp!Addrs -> UdpConns \cup {UNONE}], UdpQueue(q, on, held, to), q # <<>>, Head(q)[1] = "open"
  PROVE  UdpQueue(Tail(q), on, held, [to EXCEPT ![AddrOf[Head(q)[2]]] = Head(q)[2]])
<1> DEFINE n == Len(q)
           s == Tail(q)
           c == Head(q)[2]
           z == [to EXCEPT ![AddrOf[c]] = c]
<1>1. n \in Nat /\ n # 0 /\ Len(s) = n - 1 /\ (\A i \in 1 .. (n - 1) : s[i] = q[i + 1]) /\ Head(q) = q[1] /\ q[1] \in UdpTasks
  OBVIOUS
<1>2. q[1] = <<"open", c>> /\ q[1][1] = "open" /\ c \in UdpConns
  BY <1>1, UdpPair
<1>3. \A i \in 1 .. (n - 1) : i + 1 \in 1 .. n /\ s[i] = q[i + 1]
  BY <1>1
<1>4. \A i \in 1 .. n : i # 1 => i - 1 \in 1 .. (n - 1) /\ s[i - 1] = q[i]
  <2> SUFFICES ASSUME NEW i \in 1 .. n, i # 1 PROVE i - 1 \in 1 .. (n - 1) /\ s[i - 1] = q[i]
    OBVIOUS
  <2>1. i - 1 \in 1 .. (n - 1) /\ (i - 1) + 1 = i
    BY <1>1, SMT
  <2>2. s[i - 1] = q[(i - 1) + 1]
    BY <1>3, <2>1, Zenon
  <2> QED BY <2>1, <2>2
<1>5. AddrOf[c] \in Udp!Addrs
  BY <1>2, UdpAddr
<1>6. z[AddrOf[c]] = c /\ \A a \in Udp!Addrs \ {AddrOf[c]} : z[a] = to[a]
  BY <1>5, Zenon
<1>7. \A i, j \in 1 .. n : i < j => j # 1
  BY <1>1, SMT
<1>8. 1 \in 1 .. n /\ (\A i \in 1 .. n : i = 1 \/ 1 < i) /\ \A i, j, k \in 1 .. n : i < j /\ j < k => i < k
  BY <1>1, SMT
<1>9. \A d : <<"open", c>> # <<"close", d>> /\ (<<"open", c>> = <<"open", d>> => c = d)
  BY SMT
<1>10. \A i, j \in 1 .. (n - 1) : (i + 1 = j + 1 => i = j) /\ (i + 1 < j + 1 => i < j)
  BY <1>1, SMT
<1>11. \A i \in 1 .. (n - 1), j \in 1 .. n : i + 1 < j => i < j - 1 /\ j # 1
  BY <1>1, SMT
<1>12. UdpAgree(q, n, on, held, to)
  BY DEF UdpQueue
<1> HIDE DEF n, s, c, z
<1>a1. \A i, j \in 1 .. n : q[i] = q[j] => i = j
  BY <1>12, Zenon DEF UdpAgree
<1>a2. \A i \in 1 .. n : q[i][2] \in on
  BY <1>12, Zenon DEF UdpAgree
<1>a3. \A x \in UdpConns : x \in on <=> (x \in held \/ \E i \in 1 .. n : q[i] = <<"close", x>>)
  BY <1>12, Zenon DEF UdpAgree
<1>a4. \A i \in 1 .. n : q[i][1] = "close" => q[i][2] \notin held
  BY <1>12, Zenon DEF UdpAgree
<1>a5. \A x, y \in held : AddrOf[x] = AddrOf[y] => x = y
  BY <1>12, Zenon DEF UdpAgree
<1>a6. \A x \in held : (\E i \in 1 .. n : q[i] = <<"open", x>>) \/ to[AddrOf[x]] = x
  BY <1>12, Zenon DEF UdpAgree
<1>a7. \A i \in 1 .. n : q[i][1] = "open" /\ q[i][2] \notin held => \E j \in 1 .. n : i < j /\ q[j] = <<"close", q[i][2]>>
  BY <1>12, Zenon DEF UdpAgree
<1>a8. \A i \in 1 .. n : \A x \in held : q[i][1] = "close" /\ AddrOf[q[i][2]] = AddrOf[x] => \E j \in 1 .. n : i < j /\ q[j] = <<"open", x>>
  BY <1>12, Zenon DEF UdpAgree
<1>20. \A i, j \in 1 .. (n - 1) : s[i] = s[j] => i = j
  <2>1. \A i, j \in 1 .. n : q[i] = q[j] => i = j
    BY <1>12, Zenon DEF UdpAgree
  <2> QED BY <1>3, <1>10, <2>1, Zenon
<1>21. \A i \in 1 .. (n - 1) : s[i][2] \in on
  BY <1>3, <1>a2, Zenon
<1>22. \A d \in UdpConns : d \in on <=> (d \in held \/ \E i \in 1 .. (n - 1) : s[i] = <<"close", d>>)
  <2>1. \A d \in UdpConns : d \in on <=> (d \in held \/ \E i \in 1 .. n : q[i] = <<"close", d>>)
    BY <1>12, Zenon DEF UdpAgree
  <2>2. ASSUME NEW d PROVE (\E i \in 1 .. n : q[i] = <<"close", d>>) <=> (\E i \in 1 .. (n - 1) : s[i] = <<"close", d>>)
    <3>1. ASSUME NEW i \in 1 .. n, q[i] = <<"close", d>> PROVE \E j \in 1 .. (n - 1) : s[j] = <<"close", d>>
      <4>1. i # 1
        BY <1>2, <1>9, <3>1, Zenon
      <4> QED BY <1>4, <3>1, <4>1, Zenon
    <3> QED BY <1>3, <3>1, Zenon
  <2> QED BY <2>1, <2>2, Zenon
<1>23. \A i \in 1 .. (n - 1) : s[i][1] = "close" => s[i][2] \notin held
  <2>1. \A i \in 1 .. (n - 1) : s[i] = q[i + 1] /\ i + 1 \in 1 .. n
    BY <1>3, Zenon
  <2>2. ASSUME NEW i \in 1 .. (n - 1), s[i][1] = "close" PROVE s[i][2] \notin held
    <3>1. q[i + 1][1] = "close" /\ s[i][2] = q[i + 1][2]
      BY <2>1, <2>2, Zenon
    <3> QED BY <1>a4, <2>1, <3>1, Zenon
  <2> QED BY <2>2
<1>24. \A x, y \in held : AddrOf[x] = AddrOf[y] => x = y
  BY <1>12, Zenon DEF UdpAgree
<1>25. ASSUME NEW d \in held PROVE (\E i \in 1 .. (n - 1) : s[i] = <<"open", d>>) \/ z[AddrOf[d]] = d
  <2>0. d \in UdpConns /\ AddrOf[d] \in Udp!Addrs
    BY UdpAddr, Zenon
  <2>1. CASE d = c
    BY <1>6, <2>1, Zenon
  <2>2. ASSUME d # c, NEW i \in 1 .. n, q[i] = <<"open", d>> PROVE \E k \in 1 .. (n - 1) : s[k] = <<"open", d>>
    <3>1. i # 1
      BY <1>2, <1>9, <2>2, Zenon
    <3> QED BY <1>4, <2>2, <3>1, Zenon
  <2>3. CASE d # c /\ AddrOf[d] = AddrOf[c]
    <3>1. c \notin held
      BY <1>24, <2>3, Zenon
    <3>2. PICK j \in 1 .. n : 1 < j /\ q[j] = <<"close", q[1][2]>>
      <4>1. q[1][2] = c
        BY <1>2, SMT
      <4> QED BY <1>2, <1>8, <1>12, <3>1, <4>1, Zenon DEF UdpAgree
    <3>3. q[j][1] = "close" /\ q[j][2] = c
      BY <1>2, <3>2, SMT
    <3>4. PICK k \in 1 .. n : j < k /\ q[k] = <<"open", d>>
      BY <1>12, <2>3, <3>3, Zenon DEF UdpAgree
    <3> QED BY <2>2, <2>3, <3>4, Zenon
  <2>4. CASE AddrOf[d] # AddrOf[c]
    <3>1. z[AddrOf[d]] = to[AddrOf[d]] /\ d # c
      BY <1>6, <2>0, <2>4, Zenon
    <3>2. (\E i \in 1 .. n : q[i] = <<"open", d>>) \/ to[AddrOf[d]] = d
      BY <1>12, Zenon DEF UdpAgree
    <3> QED BY <2>2, <3>1, <3>2, Zenon
  <2> QED BY <2>1, <2>3, <2>4
<1>26. ASSUME NEW i \in 1 .. (n - 1), s[i][1] = "open", s[i][2] \notin held
       PROVE  \E j \in 1 .. (n - 1) : i < j /\ s[j] = <<"close", s[i][2]>>
  <2>1. PICK j \in 1 .. n : i + 1 < j /\ q[j] = <<"close", q[i + 1][2]>>
    BY <1>3, <1>12, <1>26, Zenon DEF UdpAgree
  <2>2. j # 1 /\ i < j - 1
    BY <1>11, <2>1, Zenon
  <2> QED BY <1>3, <1>4, <2>1, <2>2, Zenon
<1>27. ASSUME NEW i \in 1 .. (n - 1), NEW d \in held, s[i][1] = "close", AddrOf[s[i][2]] = AddrOf[d]
       PROVE  \E j \in 1 .. (n - 1) : i < j /\ s[j] = <<"open", d>>
  <2>1. PICK j \in 1 .. n : i + 1 < j /\ q[j] = <<"open", d>>
    <3>1. i + 1 \in 1 .. n /\ q[i + 1][1] = "close" /\ AddrOf[q[i + 1][2]] = AddrOf[d]
      BY <1>3, <1>27, Zenon
    <3> QED BY <1>a8, <3>1, Zenon
  <2>2. j # 1 /\ i < j - 1
    BY <1>11, <2>1, Zenon
  <2> QED BY <1>3, <1>4, <2>1, <2>2, Zenon
<1>28. UdpAgree(s, n - 1, on, held, z)
  BY <1>20, <1>21, <1>22, <1>23, <1>24, <1>25, <1>26, <1>27, Zenon DEF UdpAgree
<1> QED BY <1>1, <1>28 DEF UdpQueue, s, z, c

\* clean_connection_data of the connections S.
LEMMA UdpCleans ==
  ASSUME NEW q \in Seq(UdpTasks), NEW on \in SUBSET UdpConns, NEW held \in SUBSET UdpConns, NEW to, UdpQueue(q, on, held, to),
         NEW S \in SUBSET UdpConns, NEW z, \A c \in UdpConns : z[AddrOf[c]] = to[AddrOf[c]] \/ \E d \in S \cap on : AddrOf[d] = AddrOf[c]
  PROVE  Udp!Without(q, S) \in Seq(UdpTasks) /\ UdpQueue(Udp!Without(q, S), on \ S, held \ S, z)
<1> DEFINE r == Udp!Without(q, S)
           n == Len(q)
           m == Len(r)
<1>1. r \in Seq(UdpTasks)
  BY UdpWithout, Zenon
<1>2. PICK h : UdpKeeps(q, S, r, h, n)
  BY UdpWithout, Zenon
<1>3. UdpAgree(q, n, on, held, to)
  BY DEF UdpQueue
<1>4. m \in Nat /\ n \in Nat
  BY <1>1
<1> HIDE DEF r, n, m
<1>5. /\ \A a \in 1 .. m : h[a] \in 1 .. n /\ r[a] = q[h[a]] /\ q[h[a]][2] \notin S
      /\ \A i \in 1 .. n : q[i][2] \notin S => \E a \in 1 .. m : h[a] = i /\ r[a] = q[i]
  <2>1. /\ h \in [1 .. m -> 1 .. n] /\ \A a \in 1 .. m : r[a] = q[h[a]] /\ q[h[a]][2] \notin S
    BY <1>2, Zenon DEF UdpKeeps, m
  <2>2. \A i \in 1 .. n : q[i][2] \notin S => \E a \in 1 .. m : h[a] = i
    BY <1>2, Zenon DEF UdpKeeps, m
  <2>3. ASSUME NEW i \in 1 .. n, q[i][2] \notin S PROVE \E a \in 1 .. m : h[a] = i /\ r[a] = q[i]
    <3>1. PICK a \in 1 .. m : h[a] = i
      BY <2>2, <2>3, Zenon
    <3>2. r[a] = q[i]
      BY <2>1, <3>1, Zenon
    <3> QED BY <3>1, <3>2
  <2>4. \A a \in 1 .. m : h[a] \in 1 .. n
    BY <2>1, Zenon
  <2> QED BY <2>1, <2>3, <2>4, Zenon
<1>6. \A a, b \in 1 .. m : (h[a] = h[b] => a = b) /\ (h[a] < h[b] => a < b)
  <2>1. \A a, b \in 1 .. m : a < b => h[a] < h[b]
    BY <1>2, Zenon DEF UdpKeeps, m
  <2>2. \A a \in 1 .. m : h[a] \in 1 .. n
    BY <1>5, Zenon
  <2> SUFFICES ASSUME NEW a \in 1 .. m, NEW b \in 1 .. m PROVE (h[a] = h[b] => a = b) /\ (h[a] < h[b] => a < b)
    OBVIOUS
  <2>3. h[a] \in Nat /\ h[b] \in Nat /\ (a < b => h[a] < h[b]) /\ (b < a => h[b] < h[a]) /\ a \in Nat /\ b \in Nat
    BY <1>4, <2>1, <2>2, SMT
  <2> QED BY <2>3, SMT
<1>7. \A i \in 1 .. n : q[i] = <<q[i][1], q[i][2]>> /\ q[i][2] \in UdpConns
  <2>1. \A i \in 1 .. n : q[i] \in UdpTasks
    BY DEF n
  <2> QED BY <2>1, UdpPair, Zenon
<1>8. \A x, t, c : x = <<t, c>> => x[1] = t /\ x[2] = c
  BY SMT
<1>a1. \A i, j \in 1 .. n : q[i] = q[j] => i = j
  BY <1>3, Zenon DEF UdpAgree
<1>a2. \A i \in 1 .. n : q[i][2] \in on
  BY <1>3, Zenon DEF UdpAgree
<1>a3. \A x \in UdpConns : x \in on <=> (x \in held \/ \E i \in 1 .. n : q[i] = <<"close", x>>)
  BY <1>3, Zenon DEF UdpAgree
<1>a4. \A i \in 1 .. n : q[i][1] = "close" => q[i][2] \notin held
  BY <1>3, Zenon DEF UdpAgree
<1>a5. \A x, y \in held : AddrOf[x] = AddrOf[y] => x = y
  BY <1>3, Zenon DEF UdpAgree
<1>a6. \A x \in held : (\E i \in 1 .. n : q[i] = <<"open", x>>) \/ to[AddrOf[x]] = x
  BY <1>3, Zenon DEF UdpAgree
<1>a7. \A i \in 1 .. n : q[i][1] = "open" /\ q[i][2] \notin held => \E j \in 1 .. n : i < j /\ q[j] = <<"close", q[i][2]>>
  BY <1>3, Zenon DEF UdpAgree
<1>a8. \A i \in 1 .. n : \A x \in held : q[i][1] = "close" /\ AddrOf[q[i][2]] = AddrOf[x] => \E j \in 1 .. n : i < j /\ q[j] = <<"open", x>>
  BY <1>3, Zenon DEF UdpAgree
<1>20. \A a, b \in 1 .. m : r[a] = r[b] => a = b
  <2> SUFFICES ASSUME NEW a \in 1 .. m, NEW b \in 1 .. m, r[a] = r[b] PROVE a = b
    OBVIOUS
  <2>1. h[a] \in 1 .. n /\ h[b] \in 1 .. n /\ q[h[a]] = q[h[b]]
    BY <1>5, Zenon
  <2> QED BY <1>a1, <1>6, <2>1, Zenon
<1>21. \A a \in 1 .. m : r[a][2] \in on \ S
  <2> SUFFICES ASSUME NEW a \in 1 .. m PROVE r[a][2] \in on \ S
    OBVIOUS
  <2>1. h[a] \in 1 .. n /\ r[a] = q[h[a]] /\ q[h[a]][2] \notin S
    BY <1>5, Zenon
  <2>2. q[h[a]][2] \in on
    BY <1>a2, <2>1, Zenon
  <2> QED BY <2>1, <2>2
<1>22. \A c \in UdpConns : c \in on \ S <=> (c \in held \ S \/ \E a \in 1 .. m : r[a] = <<"close", c>>)
  <2> SUFFICES ASSUME NEW c \in UdpConns PROVE c \in on \ S <=> (c \in held \ S \/ \E a \in 1 .. m : r[a] = <<"close", c>>)
    OBVIOUS
  <2>1. c \in on <=> (c \in held \/ \E i \in 1 .. n : q[i] = <<"close", c>>)
    BY <1>3, Zenon DEF UdpAgree
  <2>2. ASSUME NEW a \in 1 .. m, r[a] = <<"close", c>> PROVE c \notin S /\ \E i \in 1 .. n : q[i] = <<"close", c>>
    <3>1. h[a] \in 1 .. n /\ q[h[a]] = <<"close", c>> /\ q[h[a]][2] \notin S
      BY <1>5, <2>2, Zenon
    <3>2. q[h[a]][2] = c
      BY <3>1, SMT
    <3> QED BY <3>1, <3>2, Zenon
  <2>3. ASSUME c \notin S, NEW i \in 1 .. n, q[i] = <<"close", c>> PROVE \E a \in 1 .. m : r[a] = <<"close", c>>
    <3>1. q[i][2] = c
      BY <2>3, SMT
    <3>2. PICK a \in 1 .. m : r[a] = q[i]
      BY <1>5, <2>3, <3>1, Zenon
    <3> QED BY <2>3, <3>2, Zenon
  <2> QED BY <2>1, <2>2, <2>3, Zenon
<1>23. \A a \in 1 .. m : r[a][1] = "close" => r[a][2] \notin held \ S
  <2> SUFFICES ASSUME NEW a \in 1 .. m, r[a][1] = "close" PROVE r[a][2] \notin held
    BY Zenon
  <2>1. h[a] \in 1 .. n /\ r[a] = q[h[a]]
    BY <1>5, Zenon
  <2>2. q[h[a]][1] = "close"
    BY <2>1
  <2>3. q[h[a]][2] \notin held
    BY <1>a4, <2>1, <2>2, Zenon
  <2> QED BY <2>1, <2>3
<1>24. \A x, y \in held \ S : AddrOf[x] = AddrOf[y] => x = y
  BY <1>3, Zenon DEF UdpAgree
<1>25. ASSUME NEW c \in held \ S PROVE (\E a \in 1 .. m : r[a] = <<"open", c>>) \/ z[AddrOf[c]] = c
  <2>1. ASSUME NEW i \in 1 .. n, q[i] = <<"open", c>> PROVE \E a \in 1 .. m : r[a] = <<"open", c>>
    <3>1. q[i][2] = c
      BY <2>1, SMT
    <3>2. PICK a \in 1 .. m : r[a] = q[i]
      BY <1>5, <2>1, <3>1, Zenon
    <3> QED BY <2>1, <3>2, Zenon
  <2>2. (\E i \in 1 .. n : q[i] = <<"open", c>>) \/ to[AddrOf[c]] = c
    BY <1>3, Zenon DEF UdpAgree
  <2>3. ASSUME NEW d \in S \cap on, AddrOf[d] = AddrOf[c] PROVE \E i \in 1 .. n : q[i] = <<"open", c>>
    <3>1. d \notin held
      BY <1>3, <2>3, Zenon DEF UdpAgree
    <3>2. PICK i \in 1 .. n : q[i] = <<"close", d>>
      BY <1>3, <3>1, Zenon DEF UdpAgree
    <3>3. q[i][1] = "close" /\ q[i][2] = d
      BY <3>2, SMT
    <3> QED BY <1>a8, <2>3, <3>3, Zenon
  <2>4. c \in UdpConns
    BY Zenon
  <2> QED BY <2>1, <2>2, <2>3, <2>4, Zenon
<1>26. ASSUME NEW a \in 1 .. m, r[a][1] = "open", r[a][2] \notin held \ S
       PROVE  \E b \in 1 .. m : a < b /\ r[b] = <<"close", r[a][2]>>
  <2>1. h[a] \in 1 .. n /\ r[a] = q[h[a]] /\ r[a][2] \notin S /\ r[a][2] \notin held
    BY <1>5, <1>26, Zenon
  <2>2. PICK j \in 1 .. n : h[a] < j /\ q[j] = <<"close", q[h[a]][2]>>
    BY <1>3, <1>26, <2>1, Zenon DEF UdpAgree
  <2>3. q[j][2] = r[a][2]
    <3>1. \A t, d : <<t, d>>[2] = d
      BY SMT
    <3>2. q[j][2] = q[h[a]][2]
      <4> HIDE DEF UdpKeeps
      <4>1. <<"close", q[h[a]][2]>>[2] = q[h[a]][2]
        BY <3>1, Zenon
      <4> QED BY <2>2, <4>1, Zenon
    <3> QED BY <2>1, <3>2
  <2>4. PICK b \in 1 .. m : h[b] = j /\ r[b] = q[j]
    BY <1>5, <2>1, <2>3, Zenon
  <2> QED BY <1>6, <2>1, <2>2, <2>4, Zenon
<1>27. ASSUME NEW a \in 1 .. m, NEW c \in held \ S, r[a][1] = "close", AddrOf[r[a][2]] = AddrOf[c]
       PROVE  \E b \in 1 .. m : a < b /\ r[b] = <<"open", c>>
  <2>1. h[a] \in 1 .. n /\ r[a] = q[h[a]] /\ c \in held /\ c \notin S
    BY <1>5, <1>27, Zenon
  <2>2. PICK j \in 1 .. n : h[a] < j /\ q[j] = <<"open", c>>
    <3>1. q[h[a]][1] = "close" /\ AddrOf[q[h[a]][2]] = AddrOf[c]
      BY <1>27, <2>1, Zenon
    <3> QED BY <1>a8, <2>1, <3>1, Zenon
  <2>3. q[j][2] = c
    BY <2>2, SMT
  <2>4. PICK b \in 1 .. m : h[b] = j /\ r[b] = q[j]
    BY <1>5, <2>1, <2>3, Zenon
  <2> QED BY <1>6, <2>1, <2>2, <2>4, Zenon
<1>28. UdpAgree(r, m, on \ S, held \ S, z)
  <2> DEFINE X == on \ S
             Y == held \ S
  <2>1. X = on \ S /\ Y = held \ S
    OBVIOUS
  <2>2. /\ \A a \in 1 .. m : r[a][2] \in X
        /\ \A c \in UdpConns : c \in X <=> (c \in Y \/ \E a \in 1 .. m : r[a] = <<"close", c>>)
        /\ \A a \in 1 .. m : r[a][1] = "close" => r[a][2] \notin Y
        /\ \A x, y \in Y : AddrOf[x] = AddrOf[y] => x = y
    BY <1>21, <1>22, <1>23, <1>24
  <2>3. \A c \in Y : (\E a \in 1 .. m : r[a] = <<"open", c>>) \/ z[AddrOf[c]] = c
    BY <1>25
  <2>4. \A a \in 1 .. m : r[a][1] = "open" /\ r[a][2] \notin Y => \E b \in 1 .. m : a < b /\ r[b] = <<"close", r[a][2]>>
    BY <1>26
  <2>5. \A a \in 1 .. m : \A c \in Y : r[a][1] = "close" /\ AddrOf[r[a][2]] = AddrOf[c] => \E b \in 1 .. m : a < b /\ r[b] = <<"open", c>>
    BY <1>27
  <2> HIDE DEF X, Y
  <2>6. UdpAgree(r, m, X, Y, z)
    BY <1>20, <2>2, <2>3, <2>4, <2>5, Zenon DEF UdpAgree
  <2> QED BY <2>1, <2>6
<1> QED BY <1>1, <1>28 DEF UdpQueue, r, m

LEMMA UdpInitOK == Udp!Init => UdpOK
<1> SUFFICES ASSUME Udp!Init PROVE UdpOK
  OBVIOUS
<1>1. \A c \in UdpConns : udps[c] = [on |-> FALSE, read |-> FALSE]
  BY Zenon DEF Udp!Init, Udp!Absent
<1>2. UdpOn(udps) = {}
  BY <1>1, SMT DEF UdpOn
<1>3. utasks = <<>> /\ Len(utasks) = 0 /\ uheld = {} /\ \A i : i \notin 1 .. 0
  <2>1. utasks = <<>> /\ uheld = {}
    BY Zenon DEF Udp!Init
  <2> QED BY <2>1, SMT
<1>4. UdpTyped
  <2>1. udps \in [UdpConns -> [on : BOOLEAN, read : BOOLEAN]]
    BY Zenon DEF Udp!Init, Udp!Absent
  <2>2. addrTo \in [Udp!Addrs -> UdpConns \cup {UNONE}]
    BY Zenon DEF Udp!Init
  <2>3. utasks \in Seq(UdpTasks)
    BY <1>3, SMT
  <2>4. 0 \in Nat
    OBVIOUS
  <2>5. rc \in UdpRecv /\ wire \in UdpWire
    BY <2>4, Zenon DEF Udp!Init, Udp!IdleRecv, Udp!NoPacket, UdpRecv, UdpWire
  <2> QED BY <1>3, <2>1, <2>2, <2>3, <2>5, Zenon DEF UdpTyped
<1>5. UdpAgree(utasks, 0, {}, {}, addrTo)
  BY <1>3, Zenon DEF UdpAgree
<1>6. UdpQueue(utasks, UdpOn(udps), uheld, addrTo)
  BY <1>2, <1>3, <1>5 DEF UdpQueue
<1>7. UdpReceives(rc, wire, UdpOn(udps))
  <2>1. rc = [st |-> "IDLE", id |-> UNONE, left |-> 0, have |-> 0] /\ wire = [addr |-> UNONE, len |-> 0, got |-> 0, place |-> "kept"]
    BY Zenon DEF Udp!Init, Udp!IdleRecv, Udp!NoPacket
  <2> QED BY <2>1, UpstreamsAssumption, SMT DEF UpstreamsAssumption, UdpReceives, UdpInPlace
<1>8. UdpFound(addrTo) /\ ~misled
  BY Zenon DEF Udp!Init, UdpFound
<1> QED BY <1>4, <1>6, <1>7, <1>8 DEF UdpOK

LEMMA UdpOpenConnectionStep ==
  ASSUME UdpOK, NEW c \in UdpConns, Udp!OpenConnection(c)
  PROVE  UdpOK'
<1>1. /\ ~udps[c].on /\ (\A d \in uheld : AddrOf[d] # AddrOf[c]) /\ udps' = [udps EXCEPT ![c].on = TRUE]
      /\ utasks' = Append(utasks, <<"open", c>>) /\ uheld' = uheld \cup {c}
      /\ addrTo' = addrTo /\ rc' = rc /\ wire' = wire /\ misled' = misled
  BY Zenon DEF Udp!OpenConnection
<1>2. UdpTyped /\ UdpQueue(utasks, UdpOn(udps), uheld, addrTo)
  BY DEF UdpOK
<1>3. udps \in [UdpConns -> [on : BOOLEAN, read : BOOLEAN]] /\ utasks \in Seq(UdpTasks) /\ uheld \subseteq UdpConns
  BY <1>2 DEF UdpTyped
<1>4. udps' \in [UdpConns -> [on : BOOLEAN, read : BOOLEAN]] /\ udps'[c].on /\ \A d \in UdpConns \ {c} : udps'[d] = udps[d]
  BY <1>1, <1>3, Zenon
<1>5. UdpOn(udps') = UdpOn(udps) \cup {c} /\ c \notin UdpOn(udps) /\ UdpOn(udps) \in SUBSET UdpConns
  BY <1>1, <1>4, Zenon DEF UdpOn
<1>6. utasks' \in Seq(UdpTasks) /\ uheld' \subseteq UdpConns
  <2>1. <<"open", c>> \in UdpTasks
    BY SMT DEF UdpTasks
  <2> QED BY <1>1, <1>3, <2>1
<1>7. UdpTyped'
  BY <1>1, <1>2, <1>4, <1>6, Zenon DEF UdpTyped
<1>8. UdpQueue(utasks', UdpOn(udps'), uheld', addrTo')
  <2>1. uheld \in SUBSET UdpConns
    BY <1>3
  <2>2. UdpQueue(Append(utasks, <<"open", c>>), UdpOn(udps) \cup {c}, uheld \cup {c}, addrTo)
    BY <1>1, <1>2, <1>3, <1>5, <2>1, UdpOpens, Zenon
  <2> QED BY <1>1, <1>5, <2>2
<1>9. UdpReceives(rc', wire', UdpOn(udps'))
  <2>1. UdpReceives(rc, wire, UdpOn(udps))
    BY DEF UdpOK
  <2> QED BY <1>1, <1>5, <2>1, Zenon DEF UdpReceives
<1> QED BY <1>1, <1>7, <1>8, <1>9 DEF UdpOK, UdpFound

LEMMA UdpOpenTaskStep == ASSUME UdpOK, Udp!OpenTask PROVE UdpOK'
<1> DEFINE c == Head(utasks)[2]
<1>1. /\ utasks # <<>> /\ Head(utasks)[1] = "open" /\ addrTo' = [addrTo EXCEPT ![AddrOf[c]] = c]
      /\ utasks' = Tail(utasks) /\ udps' = udps /\ uheld' = uheld /\ rc' = rc /\ wire' = wire /\ misled' = misled
  BY Zenon DEF Udp!OpenTask
<1>2. UdpTyped /\ UdpQueue(utasks, UdpOn(udps), uheld, addrTo) /\ UdpFound(addrTo)
  BY DEF UdpOK
<1>3. /\ utasks \in Seq(UdpTasks) /\ uheld \in SUBSET UdpConns /\ UdpOn(udps) \in SUBSET UdpConns
      /\ addrTo \in [Udp!Addrs -> UdpConns \cup {UNONE}]
  BY <1>2, Zenon DEF UdpTyped, UdpOn
<1>4. Head(utasks) \in UdpTasks /\ utasks' \in Seq(UdpTasks)
  BY <1>1, <1>3
<1>5. c \in UdpConns /\ AddrOf[c] \in Udp!Addrs
  BY <1>4, UdpPair, UdpAddr, Zenon
<1>6. UdpQueue(Tail(utasks), UdpOn(udps), uheld, [addrTo EXCEPT ![AddrOf[c]] = c])
  BY <1>1, <1>2, <1>3, UdpCompletes, Zenon
<1> HIDE DEF c
<1>7. addrTo' \in [Udp!Addrs -> UdpConns \cup {UNONE}] /\ addrTo'[AddrOf[c]] = c /\ \A a \in Udp!Addrs \ {AddrOf[c]} : addrTo'[a] = addrTo[a]
  BY <1>1, <1>3, <1>5, Zenon
<1>8. UdpFound(addrTo')
  BY <1>2, <1>7, Zenon DEF UdpFound
<1>9. UdpTyped'
  BY <1>1, <1>2, <1>4, <1>7, Zenon DEF UdpTyped
<1> QED BY <1>1, <1>6, <1>8, <1>9 DEF UdpOK

LEMMA UdpCloseConnectionAsyncStep ==
  ASSUME UdpOK, NEW c \in UdpConns, Udp!CloseConnectionAsync(c)
  PROVE  UdpOK'
<1>1. /\ c \in uheld /\ utasks' = Append(utasks, <<"close", c>>) /\ uheld' = uheld \ {c} /\ udps' = udps
      /\ addrTo' = addrTo /\ rc' = rc /\ wire' = wire /\ misled' = misled
  BY Zenon DEF Udp!CloseConnectionAsync
<1>2. UdpTyped /\ UdpQueue(utasks, UdpOn(udps), uheld, addrTo)
  BY DEF UdpOK
<1>3. utasks \in Seq(UdpTasks) /\ uheld \in SUBSET UdpConns /\ UdpOn(udps) \in SUBSET UdpConns
  BY <1>2, Zenon DEF UdpTyped, UdpOn
<1>4. utasks' \in Seq(UdpTasks) /\ uheld' \subseteq UdpConns
  <2>1. <<"close", c>> \in UdpTasks
    BY SMT DEF UdpTasks
  <2> QED BY <1>1, <1>3, <2>1
<1>5. UdpTyped'
  BY <1>1, <1>2, <1>4, Zenon DEF UdpTyped
<1>6. UdpQueue(Append(utasks, <<"close", c>>), UdpOn(udps), uheld \ {c}, addrTo)
  BY <1>1, <1>2, <1>3, UdpClosesLater, Zenon
<1> QED BY <1>1, <1>5, <1>6 DEF UdpOK

\* CleanConnections, wherever it is called.
LEMMA UdpCleanStep ==
  ASSUME UdpOK, NEW S \in SUBSET UdpConns, Udp!CleanConnections(S), UNCHANGED <<established, wire, misled>>
  PROVE  UdpOK'
<1>1. /\ udps' = [c \in UdpConns |-> IF c \in S THEN Udp!Absent ELSE udps[c]]
      /\ addrTo' = [a \in Udp!Addrs |-> IF \E c \in S : udps[c].on /\ AddrOf[c] = a THEN UNONE ELSE addrTo[a]]
      /\ utasks' = Udp!Without(utasks, S) /\ uheld' = uheld \ S
      /\ rc' = (IF rc.id \in S THEN [rc EXCEPT !.st = "DROPPING"] ELSE rc) /\ wire' = wire /\ misled' = misled
  BY Zenon DEF Udp!CleanConnections
<1>2. UdpTyped /\ UdpQueue(utasks, UdpOn(udps), uheld, addrTo) /\ UdpFound(addrTo) /\ UdpReceives(rc, wire, UdpOn(udps))
  BY DEF UdpOK
<1>3. /\ utasks \in Seq(UdpTasks) /\ uheld \in SUBSET UdpConns /\ UdpOn(udps) \in SUBSET UdpConns
      /\ addrTo \in [Udp!Addrs -> UdpConns \cup {UNONE}] /\ udps \in [UdpConns -> [on : BOOLEAN, read : BOOLEAN]] /\ rc \in UdpRecv
  BY <1>2, Zenon DEF UdpTyped, UdpOn
<1>4. Udp!Absent \in [on : BOOLEAN, read : BOOLEAN] /\ ~Udp!Absent.on
  BY Zenon DEF Udp!Absent
<1>5. udps' \in [UdpConns -> [on : BOOLEAN, read : BOOLEAN]] /\ UdpOn(udps') = UdpOn(udps) \ S
  <2>1. udps' \in [UdpConns -> [on : BOOLEAN, read : BOOLEAN]]
    BY <1>1, <1>3, <1>4, Zenon
  <2>2. \A c \in UdpConns : udps'[c].on <=> (c \notin S /\ udps[c].on)
    <3> SUFFICES ASSUME NEW c \in UdpConns PROVE udps'[c].on <=> (c \notin S /\ udps[c].on)
      OBVIOUS
    <3>1. udps'[c] = IF c \in S THEN Udp!Absent ELSE udps[c]
      BY <1>1, Zenon
    <3>2. CASE c \in S
      BY <1>4, <3>1, <3>2, Zenon
    <3>3. CASE c \notin S
      BY <3>1, <3>3, Zenon
    <3> QED BY <3>2, <3>3
  <2> QED BY <2>1, <2>2, Zenon DEF UdpOn
<1>6. addrTo' \in [Udp!Addrs -> UdpConns \cup {UNONE}] /\ UdpFound(addrTo')
  BY <1>1, <1>2, <1>3, Zenon DEF UdpFound
<1>7. \A c \in UdpConns : addrTo'[AddrOf[c]] = addrTo[AddrOf[c]] \/ \E d \in S \cap UdpOn(udps) : AddrOf[d] = AddrOf[c]
  <2> SUFFICES ASSUME NEW c \in UdpConns, ~(\E d \in S \cap UdpOn(udps) : AddrOf[d] = AddrOf[c]) PROVE addrTo'[AddrOf[c]] = addrTo[AddrOf[c]]
    OBVIOUS
  <2>1. AddrOf[c] \in Udp!Addrs
    BY UdpAddr
  <2>2. ~(\E d \in S : udps[d].on /\ AddrOf[d] = AddrOf[c])
    BY Zenon DEF UdpOn
  <2> QED BY <1>1, <2>1, <2>2, Zenon
<1>8. Udp!Without(utasks, S) \in Seq(UdpTasks) /\ UdpQueue(Udp!Without(utasks, S), UdpOn(udps) \ S, uheld \ S, addrTo')
  BY <1>2, <1>3, <1>7, UdpCleans, Zenon
<1>9. rc' \in UdpRecv /\ UdpReceives(rc', wire', UdpOn(udps'))
  <2>1. CASE rc.id \notin S
    <3>1. rc' = rc
      BY <1>1, <2>1, Zenon
    <3> QED BY <1>1, <1>2, <1>3, <1>5, <2>1, <3>1, Zenon DEF UdpReceives
  <2>2. CASE rc.id \in S
    <3>1. rc.id # UNONE
      BY <2>2, UdpAddr
    <3>2. rc.st # "IDLE"
      BY <1>2, <3>1, Zenon DEF UdpReceives
    <3>3. rc' = [rc EXCEPT !.st = "DROPPING"]
      BY <1>1, <2>2, Zenon
    <3>4. rc' \in UdpRecv /\ rc'.st = "DROPPING" /\ rc'.left = rc.left
      BY <1>3, <3>3, Zenon DEF UdpRecv
    <3>5. "DROPPING" # "IDLE" /\ "DROPPING" # "PAYLOAD"
      OBVIOUS
    <3> QED BY <1>1, <1>2, <3>2, <3>4, <3>5, Zenon DEF UdpReceives, UdpInPlace
  <2> QED BY <2>1, <2>2
<1>10. uheld' \subseteq UdpConns
  BY <1>1, <1>3
<1>11. UdpTyped'
  BY <1>1, <1>2, <1>5, <1>6, <1>8, <1>9, <1>10, Zenon DEF UdpTyped
<1>12. UdpQueue(utasks', UdpOn(udps'), uheld', addrTo')
  BY <1>1, <1>5, <1>8
<1> QED BY <1>1, <1>6, <1>9, <1>11, <1>12 DEF UdpOK

LEMMA UdpSetReadEnabledStep ==
  ASSUME UdpOK, NEW c \in UdpConns, Udp!SetReadEnabled(c)
  PROVE  UdpOK'
<1>1. /\ udps' = [udps EXCEPT ![c].read = ~@] /\ addrTo' = addrTo /\ utasks' = utasks /\ rc' = rc /\ wire' = wire
      /\ uheld' = uheld /\ misled' = misled
  BY Zenon DEF Udp!SetReadEnabled
<1>2. udps \in [UdpConns -> [on : BOOLEAN, read : BOOLEAN]] /\ UdpTyped
  BY DEF UdpOK, UdpTyped
<1>3. udps' \in [UdpConns -> [on : BOOLEAN, read : BOOLEAN]] /\ \A d \in UdpConns : udps'[d].on = udps[d].on
  BY <1>1, <1>2, Zenon
<1>4. UdpOn(udps') = UdpOn(udps)
  BY <1>3, Zenon DEF UdpOn
<1>5. UdpTyped'
  BY <1>1, <1>2, <1>3, Zenon DEF UdpTyped
<1> QED BY <1>1, <1>4, <1>5 DEF UdpOK

LEMMA UdpCloseStep == ASSUME UdpOK, Udp!Close PROVE UdpOK'
<1>1. ~misled'
  BY DEF Udp!Close
<1>2. \A c \in UdpConns : udps'[c] = [on |-> FALSE, read |-> FALSE]
  BY Zenon DEF Udp!Close, Udp!Absent
<1>3. UdpOn(udps') = {}
  BY <1>2, SMT DEF UdpOn
<1>4. utasks' = <<>> /\ Len(utasks') = 0 /\ uheld' = {} /\ \A i : i \notin 1 .. 0
  <2>1. utasks' = <<>> /\ uheld' = {}
    BY Zenon DEF Udp!Close
  <2> QED BY <2>1, SMT
<1>5. UdpTyped'
  <2>1. udps' \in [UdpConns -> [on : BOOLEAN, read : BOOLEAN]]
    BY Zenon DEF Udp!Close, Udp!Absent
  <2>2. addrTo' \in [Udp!Addrs -> UdpConns \cup {UNONE}]
    BY Zenon DEF Udp!Close
  <2>3. utasks' \in Seq(UdpTasks)
    BY <1>4, SMT
  <2>4. 0 \in Nat
    OBVIOUS
  <2>5. rc' \in UdpRecv /\ wire' \in UdpWire
    BY <2>4, Zenon DEF Udp!Close, Udp!IdleRecv, Udp!NoPacket, UdpRecv, UdpWire
  <2> QED BY <1>4, <2>1, <2>2, <2>3, <2>5, Zenon DEF UdpTyped
<1>6. UdpAgree(utasks', 0, {}, {}, addrTo')
  BY <1>4, Zenon DEF UdpAgree
<1>7. UdpQueue(utasks', UdpOn(udps'), uheld', addrTo')
  BY <1>3, <1>4, <1>6 DEF UdpQueue
<1>8. UdpReceives(rc', wire', UdpOn(udps'))
  <2>1. rc' = [st |-> "IDLE", id |-> UNONE, left |-> 0, have |-> 0] /\ wire' = [addr |-> UNONE, len |-> 0, got |-> 0, place |-> "kept"]
    BY Zenon DEF Udp!Close, Udp!IdleRecv, Udp!NoPacket
  <2> QED BY <2>1, UpstreamsAssumption, SMT DEF UpstreamsAssumption, UdpReceives, UdpInPlace
<1>9. UdpFound(addrTo')
  BY Zenon DEF Udp!Close, UdpFound
<1> QED BY <1>1, <1>5, <1>7, <1>8, <1>9 DEF UdpOK

\* The next piece of the packet w, or the first one of another packet.
UdpNextPiece(w, p) ==
    p.place = "kept" =>
        /\ w.place = "kept"
        /\ IF w.addr # UNONE /\ w.got < Prefix + w.len THEN p.addr = w.addr /\ p.len = w.len /\ p.got = w.got + 1
           ELSE p.addr \in Udp!Addrs /\ p.got = 1

\* Whatever the prefix is taken for.
LEMMA UdpArrivesAnywhere ==
  ASSUME UdpOK, NEW q \in [addr : Udp!Addrs \cup {UNONE}, len : Nat],
         rc' = IF rc.st # "IDLE" /\ rc.left = 0 THEN [Udp!IdleRecv EXCEPT !.have = 1]
               ELSE IF rc.st = "IDLE" THEN Udp!ReceivePrefix(q) ELSE Udp!ReceivePayload
  PROVE  rc' \in UdpRecv /\ (rc'.st = "IDLE" => rc'.id = UNONE) /\ (rc'.st = "PAYLOAD" => rc'.id \in UdpOn(udps))
<1> DEFINE on == UdpOn(udps)
<1>1. rc \in UdpRecv /\ UdpReceives(rc, wire, on) /\ addrTo \in [Udp!Addrs -> UdpConns \cup {UNONE}]
  BY DEF UdpOK, UdpTyped
<1>2. /\ rc.st \in {"IDLE", "PAYLOAD", "DROPPING"} /\ rc.id \in UdpConns \cup {UNONE} /\ rc.left \in Nat /\ rc.have \in Nat
      /\ q.len \in Nat /\ q.addr \in Udp!Addrs \cup {UNONE} /\ 0 \in Nat /\ 1 \in Nat
  BY <1>1, SMT DEF UdpRecv
<1>3. CASE rc' = Udp!IdleRecv \/ rc' = [Udp!IdleRecv EXCEPT !.have = 1]
  <2>1. rc' = [st |-> "IDLE", id |-> UNONE, left |-> 0, have |-> 0]
        \/ rc' = [st |-> "IDLE", id |-> UNONE, left |-> 0, have |-> 1]
    BY <1>3, Zenon DEF Udp!IdleRecv
  <2> QED BY <1>2, <2>1, SMT DEF UdpRecv
<1>4. CASE rc.st = "IDLE" /\ rc' = [rc EXCEPT !.have = @ + 1]
  <2>1. rc.have + 1 \in Nat
    BY <1>2, SMT
  <2>2. rc' \in UdpRecv /\ rc'.st = "IDLE" /\ rc'.id = rc.id
    BY <1>1, <1>4, <2>1, Zenon DEF UdpRecv
  <2> QED BY <1>1, <1>4, <2>2, SMT DEF UdpReceives
<1>5. CASE rc' = [rc EXCEPT !.left = @ - 1] /\ rc.left # 0
  <2>1. rc.left - 1 \in Nat
    BY <1>2, <1>5, SMT
  <2>2. rc' \in UdpRecv /\ rc'.st = rc.st /\ rc'.id = rc.id
    BY <1>1, <1>5, <2>1, Zenon DEF UdpRecv
  <2> QED BY <1>1, <2>2, Zenon DEF UdpReceives
<1>6. ASSUME NEW c, c = Udp!ReadPrefix(q),
             rc' = [st |-> IF c = UNONE THEN "DROPPING" ELSE "PAYLOAD", id |-> c, left |-> q.len, have |-> 0]
      PROVE  rc' \in UdpRecv /\ (rc'.st = "IDLE" => rc'.id = UNONE) /\ (rc'.st = "PAYLOAD" => rc'.id \in on)
  <2>1. c = UNONE \/ (q.addr # UNONE /\ c = addrTo[q.addr] /\ c # UNONE /\ udps[c].on)
    BY <1>6, Zenon DEF Udp!ReadPrefix
  <2>2. c = UNONE \/ c \in on
    BY <1>1, <1>2, <2>1, Zenon DEF UdpOn
  <2>3. CASE c = UNONE
    <3>1. rc' \in UdpRecv /\ rc'.st = "DROPPING"
      BY <1>2, <1>6, <2>3, SMT DEF UdpRecv
    <3> QED BY <3>1, SMT
  <2>4. CASE c # UNONE
    <3>1. c \in UdpConns
      BY <2>2, <2>4, Zenon DEF UdpOn
    <3>2. rc' \in UdpRecv /\ rc'.st = "PAYLOAD" /\ rc'.id = c
      BY <1>2, <1>6, <2>4, <3>1, SMT DEF UdpRecv
    <3> QED BY <2>2, <2>4, <3>2, SMT
  <2> QED BY <2>3, <2>4
<1>7. CASE rc.st # "IDLE" /\ rc.left = 0
  BY <1>3, <1>7, Zenon
<1>8. CASE rc.st = "IDLE"
  <2>1. rc' = Udp!ReceivePrefix(q)
    BY <1>8, Zenon
  <2> QED BY <1>4, <1>6, <1>8, <2>1, Zenon DEF Udp!ReceivePrefix
<1>9. CASE rc.st # "IDLE" /\ rc.left # 0
  <2>1. rc' = Udp!ReceivePayload
    BY <1>9, Zenon
  <2> QED BY <1>3, <1>5, <1>9, <2>1, Zenon DEF Udp!ReceivePayload
<1> QED BY <1>7, <1>8, <1>9

LEMMA UdpArrives ==
  ASSUME UdpOK, NEW p \in UdpWire, UdpNextPiece(wire, p), Udp!ProcessReadEvent(p)
  PROVE  rc' \in UdpRecv /\ UdpReceives(rc', p, UdpOn(udps)) /\ (p.place = "kept" => ~misled')
<1> DEFINE on == UdpOn(udps)
<1>1. /\ rc \in UdpRecv /\ wire \in UdpWire /\ UdpReceives(rc, wire, on)
      /\ UdpFound(addrTo) /\ addrTo \in [Udp!Addrs -> UdpConns \cup {UNONE}]
  BY DEF UdpOK, UdpTyped
<1>10. PICK d \in Udp!Decoded(p) :
           rc' = IF rc.st # "IDLE" /\ rc.left = 0 THEN [Udp!IdleRecv EXCEPT !.have = 1]
                 ELSE IF rc.st = "IDLE" THEN Udp!ReceivePrefix(d) ELSE Udp!ReceivePayload
  BY Zenon DEF Udp!ProcessReadEvent
<1>11. d \in [addr : Udp!Addrs \cup {UNONE}, len : Nat] /\ (p.place = "kept" => d.addr = p.addr /\ d.len = p.len)
  <2>1. d \in [addr : Udp!Addrs \cup {UNONE}, len : 0 .. MaxPayload] /\ (p.place = "kept" => d.addr = p.addr /\ d.len = p.len)
    BY Zenon DEF Udp!Decoded
  <2> QED BY <2>1, UpstreamsAssumption, SMT DEF UpstreamsAssumption
<1>12. rc' \in UdpRecv /\ (rc'.st = "IDLE" => rc'.id = UNONE) /\ (rc'.st = "PAYLOAD" => rc'.id \in on)
  BY <1>10, <1>11, UdpArrivesAnywhere, Zenon
<1> SUFFICES ASSUME p.place = "kept" PROVE UdpInPlace(rc', p) /\ ~misled'
  BY <1>12, Zenon DEF UdpReceives
<1>13. UdpInPlace(rc, wire) /\ ~misled /\ d.addr = p.addr /\ d.len = p.len
  <2>1. wire.place = "kept"
    BY Zenon DEF UdpNextPiece
  <2> QED BY <1>1, <1>11, <2>1, Zenon DEF UdpOK, UdpReceives
<1>2. Prefix \in Nat /\ Prefix > 1 /\ UNONE \notin Udp!Addrs
  <2>1. UNONE \notin Udp!Addrs
    BY UpstreamsAssumption, Zenon DEF UpstreamsAssumption, Udp!Addrs
  <2> QED BY <2>1, UpstreamsAssumption, SMT DEF UpstreamsAssumption
<1>3. ~misled'
  <2>1. misled' = (misled \/ (rc.st = "PAYLOAD" /\ rc.left <= 1 /\ AddrOf[rc.id] # wire.addr))
    BY Zenon DEF Udp!ProcessReadEvent
  <2> QED BY <1>13, <2>1, Zenon DEF UdpInPlace
<1> SUFFICES UdpInPlace(rc', p)
  BY <1>3
<1>4. /\ rc.st \in {"IDLE", "PAYLOAD", "DROPPING"} /\ rc.id \in UdpConns \cup {UNONE} /\ rc.left \in Nat /\ rc.have \in Nat
      /\ wire.len \in Nat /\ wire.got \in Nat /\ p.len \in Nat /\ p.got \in Nat /\ p.addr \in Udp!Addrs \cup {UNONE}
  BY <1>1, Zenon DEF UdpRecv, UdpWire
<1>5. rc' = IF rc.st # "IDLE" /\ rc.left = 0 THEN [Udp!IdleRecv EXCEPT !.have = 1]
            ELSE IF rc.st = "IDLE" THEN Udp!ReceivePrefix(d) ELSE Udp!ReceivePayload
  BY <1>10
<1>6. ASSUME NEW h \in Nat, rc' = [st |-> "IDLE", id |-> UNONE, left |-> 0, have |-> h], h = (IF p.got < Prefix THEN p.got ELSE 0),
             p.got < Prefix \/ p.got = Prefix + p.len, p.addr # UNONE
      PROVE  UdpInPlace(rc', p)
  <2>2. rc'.st = "IDLE" /\ rc'.id = UNONE /\ rc'.have = h
    BY <1>6, Zenon
  <2>3. p.got <= Prefix + p.len
    BY <1>2, <1>4, <1>6, SMT
  <2>4. "IDLE" # "PAYLOAD"
    OBVIOUS
  <2> QED BY <1>6, <2>2, <2>3, <2>4, Zenon DEF UdpInPlace
<1>7. CASE rc.st # "IDLE" /\ rc.left = 0
  <2>1. rc' = [st |-> "IDLE", id |-> UNONE, left |-> 0, have |-> 1]
    BY <1>5, <1>7, Zenon DEF Udp!IdleRecv
  <2>2. wire.addr # UNONE /\ wire.got = Prefix + wire.len
    <3>1. wire.got >= Prefix /\ rc.left = Prefix + wire.len - wire.got /\ wire.addr # UNONE
      BY <1>13, <1>7, Zenon DEF UdpInPlace
    <3> QED BY <1>2, <1>4, <1>7, <3>1, SMT
  <2>3. ~(wire.got < Prefix + wire.len)
    BY <1>2, <1>4, <2>2, SMT
  <2>4. p.addr \in Udp!Addrs /\ p.got = 1
    BY <2>3, Zenon DEF UdpNextPiece
  <2>5. 1 \in Nat /\ p.got < Prefix /\ p.addr # UNONE
    BY <1>2, <2>4, SMT
  <2> QED BY <1>6, <2>1, <2>4, <2>5, Zenon
<1>8. CASE rc.st = "IDLE"
  <2>1. rc' = Udp!ReceivePrefix(d)
    BY <1>5, <1>8, Zenon
  <2>2. rc.have = (IF wire.got < Prefix THEN wire.got ELSE 0) /\ (wire.got < Prefix \/ wire.got = Prefix + wire.len)
        /\ wire.got <= Prefix + wire.len /\ (wire.addr = UNONE => wire.got = 0)
    BY <1>13, <1>8, Zenon DEF UdpInPlace
  <2>3. p.got = rc.have + 1 /\ p.got <= Prefix /\ p.addr # UNONE
    <3>1. CASE wire.addr # UNONE /\ wire.got < Prefix + wire.len
      <4>1. p.addr = wire.addr /\ p.got = wire.got + 1
        BY <3>1, Zenon DEF UdpNextPiece
      <4> QED BY <1>2, <1>4, <2>2, <3>1, <4>1, SMT
    <3>2. CASE ~(wire.addr # UNONE /\ wire.got < Prefix + wire.len)
      <4>1. p.addr \in Udp!Addrs /\ p.got = 1
        BY <3>2, Zenon DEF UdpNextPiece
      <4>2. rc.have = 0
        BY <1>2, <1>4, <2>2, <3>2, SMT
      <4> QED BY <1>2, <4>1, <4>2, SMT
    <3> QED BY <3>1, <3>2
  <2>4. CASE rc.have + 1 < Prefix
    <3>1. rc' = [rc EXCEPT !.have = @ + 1]
      BY <2>1, <2>4, Zenon DEF Udp!ReceivePrefix
    <3>2. rc.have + 1 \in Nat
      BY <1>4, SMT
    <3>4. rc'.st = "IDLE" /\ rc'.have = rc.have + 1
      BY <1>1, <1>8, <2>2, <3>1, Zenon DEF UdpRecv
    <3>5. p.got < Prefix /\ p.got <= Prefix + p.len
      BY <1>2, <1>4, <2>3, <2>4, SMT
    <3>6. "IDLE" # "PAYLOAD"
      OBVIOUS
    <3> QED BY <2>3, <3>4, <3>5, <3>6, Zenon DEF UdpInPlace
  <2>5. CASE ~(rc.have + 1 < Prefix)
    <3> DEFINE c == Udp!ReadPrefix(d)
               t == IF c = UNONE THEN "DROPPING" ELSE "PAYLOAD"
    <3>1. rc' = [st |-> t, id |-> c, left |-> d.len, have |-> 0]
      BY <2>1, <2>5, Zenon DEF Udp!ReceivePrefix
    <3>2. p.got = Prefix
      BY <1>2, <1>4, <2>3, <2>5, SMT
    <3>3. p.addr \in Udp!Addrs
      BY <1>4, <2>3, Zenon
    <3>4. c = UNONE \/ (c = addrTo[p.addr] /\ c # UNONE /\ udps[c].on)
      BY <1>13, Zenon DEF Udp!ReadPrefix
    <3>5. c \in UdpConns \cup {UNONE} /\ (c # UNONE => c \in on /\ AddrOf[c] = p.addr)
      <4>1. addrTo[p.addr] \in UdpConns \cup {UNONE}
        BY <1>1, <3>3, Zenon
      <4>2. addrTo[p.addr] # UNONE => AddrOf[addrTo[p.addr]] = p.addr
        BY <1>1, <3>3, Zenon DEF UdpFound
      <4> HIDE DEF c
      <4> QED BY <3>4, <4>1, <4>2, Zenon DEF UdpOn
    <3>6. t \in {"DROPPING", "PAYLOAD"} /\ t # "IDLE" /\ (t = "PAYLOAD" => c # UNONE)
      BY Zenon
    <3> HIDE DEF c, t
    <3>7. rc' \in UdpRecv /\ rc'.st = t /\ rc'.id = c /\ rc'.left = p.len
      <4>1. 0 \in Nat
        OBVIOUS
      <4>2. t \in {"IDLE", "PAYLOAD", "DROPPING"}
        BY <3>6, Zenon
      <4> QED BY <1>4, <1>13, <3>1, <3>5, <4>1, <4>2, Zenon DEF UdpRecv
    <3>8. p.got >= Prefix /\ p.len = Prefix + p.len - p.got /\ p.got <= Prefix + p.len
      BY <1>2, <1>4, <3>2, SMT
    <3> QED BY <2>3, <3>5, <3>6, <3>7, <3>8, Zenon DEF UdpInPlace
  <2> QED BY <2>4, <2>5
<1>9. CASE rc.st # "IDLE" /\ rc.left # 0
  <2>1. rc' = Udp!ReceivePayload
    BY <1>5, <1>9, Zenon
  <2>2. wire.got >= Prefix /\ rc.left = Prefix + wire.len - wire.got /\ wire.addr # UNONE
        /\ (rc.st = "PAYLOAD" => AddrOf[rc.id] = wire.addr)
    BY <1>13, <1>9, Zenon DEF UdpInPlace
  <2>3. wire.got < Prefix + wire.len
    BY <1>2, <1>4, <1>9, <2>2, SMT
  <2>4. p.addr = wire.addr /\ p.len = wire.len /\ p.got = wire.got + 1
    BY <2>2, <2>3, Zenon DEF UdpNextPiece
  <2>5. CASE rc.left = 1
    <3>1. rc' = [st |-> "IDLE", id |-> UNONE, left |-> 0, have |-> 0]
      BY <2>1, <2>5, Zenon DEF Udp!ReceivePayload, Udp!IdleRecv
    <3>2. p.got = Prefix + p.len /\ ~(p.got < Prefix) /\ 0 \in Nat
      BY <1>2, <1>4, <2>2, <2>4, <2>5, SMT
    <3> QED BY <1>6, <2>2, <2>4, <3>1, <3>2, Zenon
  <2>6. CASE rc.left # 1
    <3>1. rc' = [rc EXCEPT !.left = @ - 1]
      BY <2>1, <2>6, Zenon DEF Udp!ReceivePayload
    <3>2. rc.left - 1 \in Nat
      BY <1>4, <1>9, SMT
    <3>3. rc' \in UdpRecv /\ rc'.st = rc.st /\ rc'.id = rc.id /\ rc'.left = rc.left - 1
      BY <1>1, <3>1, <3>2, Zenon DEF UdpRecv
    <3>4. p.got >= Prefix /\ rc.left - 1 = Prefix + p.len - p.got /\ p.got <= Prefix + p.len
      BY <1>2, <1>4, <2>2, <2>3, <2>4, SMT
    <3> QED BY <1>9, <2>2, <2>4, <3>3, <3>4, Zenon DEF UdpInPlace
  <2> QED BY <2>5, <2>6
<1> QED BY <1>7, <1>8, <1>9

LEMMA UdpEndpointSendsStep == ASSUME UdpOK, Udp!EndpointSends PROVE UdpOK'
<1>1. UdpTyped /\ UdpQueue(utasks, UdpOn(udps), uheld, addrTo) /\ UdpFound(addrTo)
  BY DEF UdpOK
<1>2. udps' = udps /\ addrTo' = addrTo /\ utasks' = utasks /\ uheld' = uheld
  BY Zenon DEF Udp!EndpointSends
<1>3. wire \in UdpWire
  BY <1>1 DEF UdpTyped
<1>4. wire' \in UdpWire /\ UdpNextPiece(wire, wire') /\ Udp!ProcessReadEvent(wire')
  <2>1. PICK p \in Udp!NextPiece : wire' = p /\ Udp!ProcessReadEvent(p)
    BY Zenon DEF Udp!EndpointSends
  <2>2. CASE wire.addr # UNONE /\ wire.got < Prefix + wire.len
    <3>1. p = [wire EXCEPT !.got = @ + 1]
      BY <2>1, <2>2, Zenon DEF Udp!NextPiece
    <3>2. wire.got \in Nat
      BY <1>3, Zenon DEF UdpWire
    <3>3. wire.got + 1 \in Nat
      BY <3>2, SMT
    <3>4. p \in UdpWire /\ p.addr = wire.addr /\ p.len = wire.len /\ p.got = wire.got + 1 /\ p.place = wire.place
      BY <1>3, <3>1, <3>3, Zenon DEF UdpWire
    <3> QED BY <2>1, <2>2, <3>4, Zenon DEF UdpNextPiece
  <2>3. CASE ~(wire.addr # UNONE /\ wire.got < Prefix + wire.len) /\ wire.place = "kept"
    <3>1. p \in [addr : Udp!Addrs, len : 0 .. MaxPayload, got : {1}, place : {"kept", "ending"}]
      BY <2>1, <2>3, Zenon DEF Udp!NextPiece
    <3>2. p \in UdpWire /\ p.got = 1 /\ p.addr \in Udp!Addrs
      BY <3>1, UpstreamsAssumption, SMT DEF UpstreamsAssumption, UdpWire
    <3> QED BY <2>1, <2>3, <3>2, Zenon DEF UdpNextPiece
  <2>4. CASE ~(wire.addr # UNONE /\ wire.got < Prefix + wire.len) /\ wire.place # "kept"
    <3>1. p = [addr |-> UNONE, len |-> 0, got |-> 0, place |-> "lost"]
      BY <2>1, <2>4, Zenon DEF Udp!NextPiece, Udp!NoPacket
    <3>2. p \in UdpWire /\ p.place # "kept"
      BY <3>1, SMT DEF UdpWire
    <3> QED BY <2>1, <3>2, Zenon DEF UdpNextPiece
  <2> QED BY <2>2, <2>3, <2>4
<1>5. rc' \in UdpRecv /\ UdpReceives(rc', wire', UdpOn(udps)) /\ (wire'.place = "kept" => ~misled')
  <2>1. PICK p \in UdpWire : p = wire'
    BY <1>4
  <2>2. UdpNextPiece(wire, p) /\ Udp!ProcessReadEvent(p)
    BY <1>4, <2>1
  <2>3. rc' \in UdpRecv /\ UdpReceives(rc', p, UdpOn(udps)) /\ (p.place = "kept" => ~misled')
    BY <2>2, UdpArrives, Zenon
  <2> QED BY <2>1, <2>3
<1>6. UdpTyped'
  BY <1>1, <1>2, <1>4, <1>5, Zenon DEF UdpTyped
<1> QED BY <1>1, <1>2, <1>5, <1>6 DEF UdpOK

LEMMA UdpStepOK == UdpOK /\ [Udp!Next]_Udp!udpVars => UdpOK'
<1> SUFFICES ASSUME UdpOK, [Udp!Next]_Udp!udpVars PROVE UdpOK'
  OBVIOUS
<1>1. UdpTyped
  BY DEF UdpOK
<1>2. ASSUME NEW c \in UdpConns, Udp!OpenConnection(c) \/ Udp!CloseConnectionAsync(c) \/ Udp!SetReadEnabled(c) PROVE UdpOK'
  BY <1>2, UdpOpenConnectionStep, UdpCloseConnectionAsyncStep, UdpSetReadEnabledStep
<1>3. ASSUME NEW c \in UdpConns, Udp!CloseConnection(c) PROVE UdpOK'
  <2>1. {c} \in SUBSET UdpConns /\ Udp!CleanConnections({c}) /\ UNCHANGED <<established, wire, misled>>
    BY <1>3, Zenon DEF Udp!CloseConnection
  <2> QED BY <2>1, UdpCleanStep, Zenon
<1>4. CASE Udp!CloseTask
  <2>1. Head(utasks) \in UdpTasks
    <3>1. utasks # <<>> /\ utasks \in Seq(UdpTasks)
      BY <1>1, <1>4, Zenon DEF UdpTyped, Udp!CloseTask
    <3> QED BY <3>1
  <2>2. {Head(utasks)[2]} \in SUBSET UdpConns
    BY <2>1, UdpPair, Zenon
  <2>3. Udp!CleanConnections({Head(utasks)[2]}) /\ UNCHANGED <<established, wire, misled>>
    BY <1>4, Zenon DEF Udp!CloseTask
  <2> QED BY <2>2, <2>3, UdpCleanStep, Zenon
<1>5. CASE Udp!TimerCallback
  <2>1. PICK S \in SUBSET {c \in UdpConns : udps[c].on} : Udp!CleanConnections(S)
    BY <1>5, Zenon DEF Udp!TimerCallback
  <2>2. S \in SUBSET UdpConns /\ UNCHANGED <<established, wire, misled>>
    BY <1>5, Zenon DEF Udp!TimerCallback
  <2> QED BY <2>1, <2>2, UdpCleanStep, Zenon
<1>6. CASE Udp!OpenTask \/ Udp!Close \/ Udp!EndpointSends
  BY <1>6, UdpOpenTaskStep, UdpCloseStep, UdpEndpointSendsStep
<1>7. CASE UNCHANGED Udp!udpVars
  <2>1. udps' = udps /\ addrTo' = addrTo /\ utasks' = utasks /\ rc' = rc /\ wire' = wire /\ uheld' = uheld /\ misled' = misled
    BY <1>7, Zenon DEF Udp!udpVars
  <2> QED BY <2>1, Zenon DEF UdpOK, UdpTyped
<1> QED BY <1>2, <1>3, <1>4, <1>5, <1>6, <1>7, Zenon DEF Udp!Next

LEMMA UdpOKInStep == UdpOK => UdpMuxInStep
<1> SUFFICES ASSUME UdpOK PROVE UdpMuxInStep
  OBVIOUS
<1>1. UdpReceives(rc, wire, UdpOn(udps)) /\ (wire.place = "kept" => ~misled) /\ utasks \in Seq(UdpTasks)
  BY DEF UdpOK, UdpTyped
<1>2. UdpAgree(utasks, Len(utasks), UdpOn(udps), uheld, addrTo)
  BY DEF UdpOK, UdpQueue
<1>3. \A c \in uheld : (\E i \in 1 .. Len(utasks) : utasks[i] = <<"open", c>>) \/ addrTo[AddrOf[c]] = c
  BY <1>2, Zenon DEF UdpAgree
<1>4. DOMAIN utasks = 1 .. Len(utasks)
  BY <1>1
<1>5. \A c \in uheld : (\E i \in DOMAIN utasks : utasks[i] = <<"open", c>>) \/ addrTo[AddrOf[c]] = c
  BY <1>3, <1>4
<1>6. rc.st = "PAYLOAD" => udps[rc.id].on
  BY <1>1, Zenon DEF UdpReceives, UdpOn
<1>7. wire.place = "kept" =>
        /\ rc.st = "IDLE" => rc.have = (IF wire.got < Prefix THEN wire.got ELSE 0)
        /\ rc.st # "IDLE" => wire.got >= Prefix /\ rc.left = Prefix + wire.len - wire.got
  BY <1>1, Zenon DEF UdpReceives, UdpInPlace
<1> QED BY <1>1, <1>5, <1>6, <1>7, Zenon DEF UdpMuxInStep, Udp!UdpMuxInStep

\* HttpUdpMultiplexer (http_udp_multiplexer.cpp): connections may be opened, closed at once or by a task, and
\* time out between any two pieces of the stream, and the multiplexer still knows where a packet ends and gives
\* it to the connection of its address or to none, until a packet has a length it does not accept; and in any case
\* it receives payload for connections that exist and finds each connection the tunnel holds.
THEOREM UdpMuxStaysInStep == Udp!Spec => []UdpMuxInStep
<1>1. UdpOK => UdpMuxInStep
  BY UdpOKInStep
<1> QED BY <1>1, UdpInitOK, UdpStepOK, PTL DEF Udp!Spec

-----------------------------------------------------------------------------
(* The routing rules: what the tests of match_tag decide is what the entry *)
(* of the highest rank says.                                               *)

\* The list of the groups' exclusions.
GroupList == ""

LEMMA ListsDiffer == GroupList # "!" /\ GroupList # "+" /\ GroupList # "^"
BY Zenon DEF GroupList

\* An entry of the tables.
FilterEntry(e) ==
    /\ e.list \in {GroupList, "!", "+", "^"}
    /\ \/ e.kind = "address"
       \/ /\ e.kind = "domain" /\ e.wildcard \in BOOLEAN /\ e.text \in Seq(Labels) /\ e.text # <<>>
          /\ e.wildcard \/ ~Filter!IsWww(e.text)

FilterOK ==
    /\ \A e \in entries : FilterEntry(e)
    /\ flow.st = "looking" => flow.tag \in Tags /\ flow.name \in NamesAt[flow.tag]

\* The end of a name, of n labels.
Ending(s, n) == SubSeq(s, Len(s) - n + 1, Len(s))

LEMMA NatMost ==
  ASSUME NEW S \in SUBSET Nat, S # {}, NEW b \in Nat, \A k \in S : k <= b
  PROVE  \E m \in S : \A k \in S : k <= m
<1> DEFINE T == {n \in Nat : \A k \in S : k <= n}
<1>1. T \in SUBSET Nat /\ T # {}
  OBVIOUS
<1>2. PICK m \in T : \A n \in T : ~(<<n, m>> \in OpToRel(<, Nat))
  BY <1>1, NatLessThanWellFounded, WFMin
<1>3. \A n \in T : ~(n < m)
  BY <1>2 DEF OpToRel
<1>4. m \in S
  <2> SUFFICES ASSUME m \notin S PROVE FALSE
    OBVIOUS
  <2>1. m \in Nat /\ \A k \in S : k \in Nat /\ k <= m /\ k # m
    BY <1>2
  <2>2. m - 1 \in Nat /\ m - 1 < m /\ \A k \in S : k <= m - 1
    <3>1. PICK j \in S : TRUE
      OBVIOUS
    <3>2. j \in Nat /\ j <= m /\ j # m
      BY <2>1, <3>1
    <3>3. m - 1 \in Nat /\ m - 1 < m
      BY <2>1, <3>2
    <3> QED BY <2>1, <3>3
  <2>3. m - 1 \in T
    BY <2>2
  <2> QED BY <1>3, <2>2, <2>3
<1> QED BY <1>2, <1>4

LEMMA EndingLength ==
  ASSUME NEW s \in Seq(Labels), NEW n \in 0 .. Len(s)
  PROVE  Ending(s, n) \in Seq(Labels) /\ Len(Ending(s, n)) = n /\ \A i \in 1 .. n : Ending(s, n)[i] = s[Len(s) - n + i]
BY SubSeqProperties DEF Ending

LEMMA EndingOfTail ==
  ASSUME NEW s \in Seq(Labels), s # <<>>, NEW n \in 0 .. (Len(s) - 1)
  PROVE  Tail(s) \in Seq(Labels) /\ Len(Tail(s)) = Len(s) - 1 /\ Ending(Tail(s), n) = Ending(s, n)
<1>1. Tail(s) \in Seq(Labels) /\ Len(Tail(s)) = Len(s) - 1 /\ \A i \in 1 .. Len(Tail(s)) : Tail(s)[i] = s[i + 1]
  BY HeadTailProperties
<1>2. /\ Ending(s, n) \in Seq(Labels) /\ Len(Ending(s, n)) = n
      /\ \A i \in 1 .. n : Ending(s, n)[i] = s[Len(s) - n + i]
  BY EndingLength
<1>3. /\ Ending(Tail(s), n) \in Seq(Labels) /\ Len(Ending(Tail(s), n)) = n
      /\ \A i \in 1 .. n : Ending(Tail(s), n)[i] = Tail(s)[Len(Tail(s)) - n + i]
  <2>1. n \in 0 .. Len(Tail(s))
    BY <1>1
  <2> QED BY <1>1, <2>1, EndingLength
<1>4. \A i \in 1 .. n : Tail(s)[Len(Tail(s)) - n + i] = s[Len(s) - n + i]
  BY <1>1
<1>5. \A i \in 1 .. n : Ending(Tail(s), n)[i] = Ending(s, n)[i]
  BY <1>2, <1>3, <1>4
<1> QED BY <1>1, <1>2, <1>3, <1>5, SeqEqual

LEMMA EndingAll ==
  ASSUME NEW s \in Seq(Labels)
  PROVE  Ending(s, Len(s)) = s
<1>1. Len(s) \in 0 .. Len(s)
  OBVIOUS
<1>2. /\ Ending(s, Len(s)) \in Seq(Labels) /\ Len(Ending(s, Len(s))) = Len(s)
      /\ \A i \in 1 .. Len(s) : Ending(s, Len(s))[i] = s[Len(s) - Len(s) + i]
  BY <1>1, EndingLength
<1>3. \A i \in 1 .. Len(s) : Ending(s, Len(s))[i] = s[i]
  BY <1>2
<1> QED BY <1>2, <1>3, SeqEqual

\* A domain that applies to a name, whatever the destination.
Names(e, name) ==
    IF e.wildcard THEN Filter!Below(name, e.text) ELSE name = e.text \/ name = <<"www">> \o e.text

\* The test of matched_domain_length for the last k labels.
Hits(e, name, k) ==
    /\ e.text = Ending(Filter!WithoutWww(name), k)
    /\ IF e.wildcard THEN k < Len(name) ELSE k = Len(name) \/ (Filter!IsWww(name) /\ k + 1 = Len(name))

LEMMA NameEnds ==
  ASSUME NEW name \in Seq(Labels)
  PROVE  LET seek == Filter!WithoutWww(name) IN
         /\ seek \in Seq(Labels) /\ Len(seek) \in Nat
         /\ Len(seek) = IF Filter!IsWww(name) THEN Len(name) - 1 ELSE Len(name)
         /\ \A k \in 0 .. Len(seek) : Ending(seek, k) = Ending(name, k)
<1>1. CASE Filter!IsWww(name)
  <2>1. Filter!WithoutWww(name) = Tail(name) /\ name # <<>> /\ Len(name) \in Nat
    BY <1>1 DEF Filter!WithoutWww, Filter!IsWww
  <2>2. Tail(name) \in Seq(Labels) /\ Len(Tail(name)) = Len(name) - 1
    BY <2>1, HeadTailProperties
  <2>3. ASSUME NEW k \in 0 .. Len(Tail(name)) PROVE Ending(Tail(name), k) = Ending(name, k)
    <3>1. k \in 0 .. (Len(name) - 1)
      BY <2>2
    <3> QED BY <2>1, <3>1, EndingOfTail
  <2>4. Len(Tail(name)) \in Nat
    BY <2>2
  <2> QED BY <1>1, <2>1, <2>2, <2>3, <2>4
<1>2. CASE ~Filter!IsWww(name)
  BY <1>2 DEF Filter!WithoutWww
<1> QED BY <1>1, <1>2

\* Cutting "www." off a name gives a domain exactly when the name is its www-subdomain.
LEMMA WwwCut ==
  ASSUME NEW name \in Seq(Labels), NEW text \in Seq(Labels), text # <<>>
  PROVE  (Filter!IsWww(name) /\ Tail(name) = text) <=> name = <<"www">> \o text
<1>1. ASSUME Filter!IsWww(name), Tail(name) = text PROVE name = <<"www">> \o text
  <2>1. Head(name) = "www" /\ name # <<>>
    BY <1>1 DEF Filter!IsWww
  <2>2. name = <<Head(name)>> \o Tail(name)
    BY <2>1
  <2> QED BY <1>1, <2>1, <2>2
<1>2. ASSUME name = <<"www">> \o text PROVE Filter!IsWww(name) /\ Tail(name) = text
  <2>1. Len(text) \in Nat \ {0}
    BY EmptySeq
  <2>2. Len(name) = Len(text) + 1 /\ Head(name) = "www" /\ Tail(name) = text
    BY <1>2
  <2> QED BY <2>1, <2>2 DEF Filter!IsWww
<1> QED BY <1>1, <1>2

LEMMA HitsAreNames ==
  ASSUME NEW name \in Seq(Labels), NEW e, FilterEntry(e), e.kind = "domain"
  PROVE  /\ \A k \in 1 .. Len(Filter!WithoutWww(name)) : Hits(e, name, k) => k = Len(e.text)
         /\ (\E k \in 1 .. Len(Filter!WithoutWww(name)) : Hits(e, name, k)) <=> Names(e, name)
<1> DEFINE seek == Filter!WithoutWww(name)
           n == Len(e.text)
<1>1. /\ seek \in Seq(Labels) /\ Len(seek) \in Nat /\ Len(name) \in Nat
      /\ Len(seek) = IF Filter!IsWww(name) THEN Len(name) - 1 ELSE Len(name)
      /\ \A k \in 0 .. Len(seek) : Ending(seek, k) = Ending(name, k)
  BY NameEnds
<1>2. /\ e.text \in Seq(Labels) /\ e.text # <<>> /\ e.wildcard \in BOOLEAN /\ (e.wildcard \/ ~Filter!IsWww(e.text))
  BY DEF FilterEntry
<1>3. n \in Nat \ {0}
  BY <1>2, EmptySeq
<1> HIDE DEF seek
<1>4. ASSUME NEW k \in 1 .. Len(seek), Hits(e, name, k) PROVE k = n
  <2>1. e.text = Ending(seek, k)
    BY <1>4 DEF Hits, seek
  <2>2. k \in 0 .. Len(seek)
    BY <1>1
  <2> QED BY <1>1, <2>1, <2>2, EndingLength
<1>5. Filter!IsWww(name) => seek = Tail(name)
  BY DEF seek, Filter!WithoutWww
<1>6. ~Filter!IsWww(name) => seek = name
  BY DEF seek, Filter!WithoutWww
<1>7. (Filter!IsWww(name) /\ Tail(name) = e.text) <=> name = <<"www">> \o e.text
  BY <1>2, WwwCut
<1>8. ASSUME NEW k \in 1 .. Len(seek), Hits(e, name, k) PROVE Names(e, name)
  <2>1. k = n /\ e.text = Ending(seek, n)
    BY <1>4, <1>8 DEF Hits, seek
  <2>2. n \in 0 .. Len(seek)
    BY <1>1, <2>1
  <2>3. CASE e.wildcard
    <3>1. n < Len(name) /\ e.text = Ending(name, n)
      BY <1>1, <1>8, <2>1, <2>2, <2>3 DEF Hits
    <3> QED BY <2>3, <3>1 DEF Names, Filter!Below, Ending
  <2>4. CASE ~e.wildcard
    <3>1. n = Len(name) \/ (Filter!IsWww(name) /\ n + 1 = Len(name))
      BY <1>8, <2>1, <2>4 DEF Hits
    <3>2. n = Len(seek)
      BY <1>1, <1>3, <2>2, <3>1
    <3>3. e.text = seek
      BY <1>1, <2>1, <3>2, EndingAll
    <3> QED BY <1>5, <1>6, <1>7, <2>4, <3>3 DEF Names
  <2> QED BY <2>3, <2>4
<1>9. ASSUME Names(e, name) PROVE \E k \in 1 .. Len(seek) : Hits(e, name, k)
  <2>1. CASE e.wildcard
    <3>1. n < Len(name) /\ Ending(name, n) = e.text
      BY <1>9, <2>1 DEF Names, Filter!Below, Ending
    <3>2. n \in 1 .. Len(seek) /\ n \in 0 .. Len(seek)
      BY <1>1, <1>3, <3>1
    <3>3. Ending(seek, n) = e.text
      BY <1>1, <3>1, <3>2
    <3> QED BY <2>1, <3>1, <3>2, <3>3 DEF Hits, seek
  <2>2. CASE ~e.wildcard
    <3>1. seek = e.text
      BY <1>2, <1>5, <1>6, <1>7, <1>9, <2>2 DEF Names
    <3>2. n \in 1 .. Len(seek) /\ n = Len(seek)
      BY <1>3, <3>1
    <3>3. n = Len(name) \/ (Filter!IsWww(name) /\ n + 1 = Len(name))
      BY <1>1, <3>2
    <3>4. Ending(seek, n) = e.text
      BY <1>1, <3>1, <3>2, EndingAll
    <3> QED BY <2>2, <3>2, <3>3, <3>4 DEF Hits, seek
  <2> QED BY <1>2, <2>1, <2>2
<1> QED BY <1>4, <1>8, <1>9 DEF seek

\* matched_domain_length is the number of labels of the longest domain of the list that applies.
LEMMA LongestDomain ==
  ASSUME FilterOK, NEW name \in Seq(Labels), NEW list
  PROVE  LET m == Filter!MatchedDomainLength(list, name) IN
         /\ m \in Nat
         /\ m > 0 => \E e \in Filter!Domains(list) : Names(e, name) /\ Len(e.text) = m
         /\ \A e \in Filter!Domains(list) : Names(e, name) => Len(e.text) <= m /\ m > 0
<1> DEFINE seek == Filter!WithoutWww(name)
           L == {k \in 1 .. Len(seek) : \E e \in Filter!Domains(list) : Hits(e, name, k)}
           m == Filter!MatchedDomainLength(list, name)
<1>1. m = IF L = {} THEN 0 ELSE CHOOSE k \in L : \A l \in L : l <= k
  BY DEF Filter!MatchedDomainLength, Hits, Ending
<1>2. ASSUME NEW e \in Filter!Domains(list) PROVE FilterEntry(e) /\ e.kind = "domain"
  BY <1>2 DEF Filter!Domains, FilterOK
<1>3. seek \in Seq(Labels) /\ Len(seek) \in Nat
  BY NameEnds
<1>4. ASSUME NEW k \in L PROVE k \in Nat /\ k > 0 /\ k <= Len(seek) /\ \E e \in Filter!Domains(list) : Names(e, name) /\ Len(e.text) = k
  <2>1. PICK e \in Filter!Domains(list) : Hits(e, name, k)
    BY <1>4
  <2>2. k \in 1 .. Len(seek)
    BY <1>4
  <2>3. k = Len(e.text) /\ Names(e, name)
    BY <1>2, <2>1, <2>2, HitsAreNames
  <2> QED BY <1>3, <2>2, <2>3
<1>5. ASSUME NEW e \in Filter!Domains(list), Names(e, name) PROVE Len(e.text) \in L
  <2>1. PICK k \in 1 .. Len(seek) : Hits(e, name, k)
    BY <1>2, <1>5, HitsAreNames
  <2>2. k = Len(e.text)
    BY <1>2, <2>1, HitsAreNames
  <2> QED BY <2>1, <2>2
<1> HIDE DEF L, m
<1>6. CASE L = {}
  BY <1>1, <1>5, <1>6 DEF m
<1>7. CASE L # {}
  <2>1. \E k \in L : \A l \in L : l <= k
    <3>1. L \in SUBSET Nat /\ \A k \in L : k <= Len(seek)
      BY <1>4
    <3> QED BY <1>3, <1>7, <3>1, NatMost
  <2>2. m \in L /\ \A l \in L : l <= m
    BY <1>1, <1>7, <2>1
  <2> QED BY <1>4, <1>5, <2>2 DEF m
<1> QED BY <1>6, <1>7

\* The entries that apply to a connection, and the first of them.
Applying(t, name) == {e \in entries : Filter!Applies(e, t, name)}
Top(e, t, name) == e \in Applying(t, name) /\ \A f \in Applying(t, name) : Filter!Rank(f) <= Filter!Rank(e)
Verdict(list) == IF list \in {GroupList, "+"} THEN "exclusion" ELSE "override"

\* Of a domain of the user the rank is above those of the addresses and the groups.
Ranked(e) ==
    /\ Filter!Rank(e) \in Nat
    /\ e.list = "^" /\ e.kind = "domain" => Len(e.text) \in Nat \ {0} /\ Filter!Rank(e) = 6 + 2 * Len(e.text)
    /\ e.list = "+" /\ e.kind = "domain" => Len(e.text) \in Nat \ {0} /\ Filter!Rank(e) = 5 + 2 * Len(e.text)
    /\ e.list = "^" /\ e.kind # "domain" => Filter!Rank(e) = 4
    /\ e.list = "+" /\ e.kind # "domain" => Filter!Rank(e) = 3
    /\ e.list = "!" => Filter!Rank(e) = 2
    /\ e.list = GroupList => Filter!Rank(e) = 1

LEMMA RankOf ==
  ASSUME NEW e, FilterEntry(e)
  PROVE  Ranked(e)
<1>1. e.list \in {GroupList, "!", "+", "^"}
  BY DEF FilterEntry
<1>2. CASE e.list \in {"+", "^"} /\ e.kind = "domain"
  <2>1. Len(e.text) \in Nat \ {0}
    BY <1>2, EmptySeq DEF FilterEntry
  <2>2. Filter!Rank(e) = 5 + 2 * Len(e.text) + (IF e.list = "^" THEN 1 ELSE 0)
    BY <1>2 DEF Filter!Rank
  <2>3. PICK n \in Nat : n = Len(e.text) /\ n # 0
    BY <2>1
  <2>4. CASE e.list = "^"
    <3>1. Filter!Rank(e) = 6 + 2 * n /\ Filter!Rank(e) \in Nat
      BY <2>2, <2>3, <2>4
    <3> QED BY <1>2, <2>1, <2>3, <2>4, <3>1, ListsDiffer DEF Ranked
  <2>5. CASE e.list = "+"
    <3>1. Filter!Rank(e) = 5 + 2 * n /\ Filter!Rank(e) \in Nat
      BY <2>2, <2>3, <2>5
    <3> QED BY <1>2, <2>1, <2>3, <2>5, <3>1, ListsDiffer DEF Ranked
  <2> QED BY <1>2, <2>4, <2>5
<1>3. CASE ~(e.list \in {"+", "^"} /\ e.kind = "domain")
  <2>1. Filter!Rank(e) = CASE e.list = "^" -> 4 [] e.list = "+" -> 3 [] e.list = "!" -> 2 [] OTHER -> 1
    BY <1>3 DEF Filter!Rank
  <2>2. Filter!Rank(e) \in Nat
    BY <2>1
  <2>3. (e.list = "^" => Filter!Rank(e) = 4) /\ (e.list = "+" => Filter!Rank(e) = 3)
    BY <2>1
  <2>4. (e.list = "!" => Filter!Rank(e) = 2) /\ (e.list = GroupList => Filter!Rank(e) = 1)
    BY <2>1, ListsDiffer
  <2> QED BY <1>3, <2>2, <2>3, <2>4, Zenon DEF Ranked
<1> QED BY <1>2, <1>3

\* Entries of the same rank say the same.
LEMMA SameRank ==
  ASSUME NEW e, NEW f, FilterEntry(e), FilterEntry(f), Filter!Rank(e) = Filter!Rank(f)
  PROVE  Verdict(e.list) = Verdict(f.list)
<1>1. Ranked(e) /\ Ranked(f) /\ e.list \in {GroupList, "!", "+", "^"} /\ f.list \in {GroupList, "!", "+", "^"}
  BY RankOf DEF FilterEntry
<1>2. PICK r : r = Filter!Rank(e)
  OBVIOUS
<1>3. ASSUME NEW g, Ranked(g), r = Filter!Rank(g), g.list \in {GroupList, "!", "+", "^"}
      PROVE  /\ g.list = "^" => r = 4 \/ \E n \in Nat \ {0} : r = 6 + 2 * n
             /\ g.list = "+" => r = 3 \/ \E n \in Nat \ {0} : r = 5 + 2 * n
             /\ g.list = "!" => r = 2
             /\ g.list = GroupList => r = 1
  BY <1>3, Zenon DEF Ranked
<1>4. PICK ex \in BOOLEAN : ex <=> r = 1 \/ r = 3 \/ \E n \in Nat \ {0} : r = 5 + 2 * n
  OBVIOUS
<1>5. (r = 4 => ~ex) /\ (r = 2 => ~ex) /\ (\A n \in Nat \ {0} : r = 6 + 2 * n => ~ex)
  <2>1. r = 4 \/ r = 2 => ~ex
    BY <1>4
  <2>2. ASSUME NEW n \in Nat \ {0}, r = 6 + 2 * n PROVE ~ex
    BY <1>4, <2>2
  <2> QED BY <2>1, <2>2
<1>6. ASSUME NEW g, Ranked(g), r = Filter!Rank(g), g.list \in {GroupList, "!", "+", "^"}
      PROVE  g.list \in {GroupList, "+"} <=> ex
  <2>1. CASE g.list = "^"
    BY <1>3, <1>5, <1>6, <2>1
  <2>2. CASE g.list = "!"
    BY <1>3, <1>5, <1>6, <2>2
  <2>3. CASE g.list = "+"
    BY <1>3, <1>4, <1>6, <2>3, Zenon
  <2>4. CASE g.list = GroupList
    BY <1>3, <1>4, <1>6, <2>4, Zenon
  <2> QED BY <1>6, <2>1, <2>2, <2>3, <2>4
<1>7. (e.list \in {GroupList, "+"} <=> ex) /\ (f.list \in {GroupList, "+"} <=> ex)
  BY <1>1, <1>2, <1>6
<1> QED BY <1>7 DEF Verdict

LEMMA PolicyOfTop ==
  ASSUME FilterOK, NEW t, NEW name, NEW e, Top(e, t, name)
  PROVE  Filter!Policy(t, name) = Verdict(e.list)
<1> DEFINE A == Applying(t, name)
           top == CHOOSE x \in A : \A f \in A : Filter!Rank(f) <= Filter!Rank(x)
<1>1. e \in A /\ \A f \in A : Filter!Rank(f) <= Filter!Rank(e)
  BY DEF Top
<1>2. Filter!Policy(t, name) = IF A = {} THEN "default" ELSE Verdict(top.list)
  BY Zenon DEF Filter!Policy, Applying, Verdict, GroupList
<1>3. \A x \in A : FilterEntry(x)
  BY DEF FilterOK, Applying
<1> HIDE DEF A
<1>4. top \in A /\ \A f \in A : Filter!Rank(f) <= Filter!Rank(top)
  BY <1>1
<1> HIDE DEF top
<1>5. Filter!Rank(top) \in Nat /\ Filter!Rank(e) \in Nat
  BY <1>1, <1>3, <1>4, RankOf DEF Ranked
<1>6. Filter!Rank(top) = Filter!Rank(e)
  BY <1>1, <1>4, <1>5
<1>7. Verdict(top.list) = Verdict(e.list)
  BY <1>1, <1>3, <1>4, <1>6, SameRank
<1> QED BY <1>1, <1>2, <1>7

\* Which entries apply: the addresses that cover the destination, the domains of the name.
LEMMA AppliesIff ==
  ASSUME FilterOK, NEW t, NEW name, NEW e \in entries
  PROVE  /\ FilterEntry(e) /\ (e.kind = "address" \/ e.kind = "domain")
         /\ e.kind = "domain" => (Filter!Applies(e, t, name) <=> Names(e, name)) /\ e \in Filter!Domains(e.list)
         /\ e.kind = "address" /\ Filter!Applies(e, t, name) => Filter!Covered(e.list, t)
<1>1. FilterEntry(e)
  BY DEF FilterOK
<1>2. e.kind = "address" \/ e.kind = "domain"
  BY <1>1 DEF FilterEntry
<1>3. e.kind = "domain" => (Filter!Applies(e, t, name) <=> Names(e, name))
  BY DEF Filter!Applies, Names
<1>4. e.kind = "domain" => e \in Filter!Domains(e.list)
  BY DEF Filter!Domains
<1>5. e.kind = "address" /\ Filter!Applies(e, t, name) => Filter!Covered(e.list, t)
  BY DEF Filter!Applies, Filter!Covered
<1> QED BY <1>1, <1>2, <1>3, <1>4, <1>5

LEMMA CoveredApplies ==
  ASSUME FilterOK, NEW t, NEW name, NEW list, Filter!Covered(list, t)
  PROVE  \E e \in Applying(t, name) : e.list = list /\ e.kind = "address"
BY DEF Filter!Covered, Applying, Filter!Applies

LEMMA NamedApplies ==
  ASSUME FilterOK, NEW t, NEW name, NEW list, NEW e \in Filter!Domains(list), Names(e, name)
  PROVE  e \in Applying(t, name) /\ e.list = list /\ e.kind = "domain"
BY DEF Filter!Domains, Applying, Filter!Applies, Names

\* What the name alone says: of the domains of the user the longest, and an exception of two equal ones.
LEMMA ExplicitDomain ==
  ASSUME FilterOK, NEW t, NEW name \in Seq(Labels)
  PROVE  /\ Filter!MatchExplicitDomain(name) # "none" => Filter!MatchExplicitDomain(name) = Filter!Policy(t, name)
         /\ Filter!MatchExplicitDomain(name) = "none" =>
              \A e \in Applying(t, name) : e.list \in {"+", "^"} => e.kind # "domain"
<1>1. PICK d : d = Filter!MatchedDomainLength("+", name)
  OBVIOUS
<1>2. PICK c : c = Filter!MatchedDomainLength("^", name)
  OBVIOUS
<1>3. /\ d \in Nat /\ (d > 0 => \E e \in Filter!Domains("+") : Names(e, name) /\ Len(e.text) = d)
      /\ \A e \in Filter!Domains("+") : Names(e, name) => Len(e.text) <= d /\ d > 0
  BY <1>1, LongestDomain
<1>4. /\ c \in Nat /\ (c > 0 => \E e \in Filter!Domains("^") : Names(e, name) /\ Len(e.text) = c)
      /\ \A e \in Filter!Domains("^") : Names(e, name) => Len(e.text) <= c /\ c > 0
  BY <1>2, LongestDomain
<1>5. Filter!MatchExplicitDomain(name) = IF d = 0 /\ c = 0 THEN "none" ELSE IF c >= d THEN "override" ELSE "exclusion"
  BY <1>1, <1>2 DEF Filter!MatchExplicitDomain
<1>6. ASSUME NEW f \in Applying(t, name)
      PROVE  /\ Ranked(f) /\ f.list \in {GroupList, "!", "+", "^"}
             /\ f.list = "+" /\ f.kind = "domain" => Len(f.text) <= d /\ d > 0
             /\ f.list = "^" /\ f.kind = "domain" => Len(f.text) <= c /\ c > 0
  <2>1. f \in entries /\ Filter!Applies(f, t, name)
    BY DEF Applying
  <2>2. FilterEntry(f) /\ (f.kind = "domain" => Names(f, name) /\ f \in Filter!Domains(f.list))
    BY <2>1, AppliesIff
  <2>3. Ranked(f) /\ f.list \in {GroupList, "!", "+", "^"}
    BY <2>2, RankOf DEF FilterEntry
  <2> QED BY <1>3, <1>4, <2>2, <2>3
<1>7. ASSUME NEW f \in Applying(t, name)
      PROVE  /\ Filter!Rank(f) \in Nat
             /\ \/ Filter!Rank(f) <= 4
                \/ d > 0 /\ Filter!Rank(f) <= 5 + 2 * d
                \/ c > 0 /\ Filter!Rank(f) <= 6 + 2 * c
  <2>1. Ranked(f) /\ f.list \in {GroupList, "!", "+", "^"}
    BY <1>6
  <2>2. CASE f.list = "+" /\ f.kind = "domain"
    <3>1. PICK n \in Nat : n = Len(f.text) /\ Filter!Rank(f) = 5 + 2 * n
      BY <2>1, <2>2 DEF Ranked
    <3>2. n <= d /\ d > 0
      BY <1>6, <2>2, <3>1
    <3> QED BY <1>3, <3>1, <3>2
  <2>3. CASE f.list = "^" /\ f.kind = "domain"
    <3>1. PICK n \in Nat : n = Len(f.text) /\ Filter!Rank(f) = 6 + 2 * n
      BY <2>1, <2>3 DEF Ranked
    <3>2. n <= c /\ c > 0
      BY <1>6, <2>3, <3>1
    <3> QED BY <1>4, <3>1, <3>2
  <2>4. CASE ~(f.list \in {"+", "^"} /\ f.kind = "domain")
    <3>1. Filter!Rank(f) = 1 \/ Filter!Rank(f) = 2 \/ Filter!Rank(f) = 3 \/ Filter!Rank(f) = 4
      BY <2>1, <2>4, Zenon DEF Ranked
    <3> QED BY <3>1
  <2> QED BY <2>1, <2>2, <2>3, <2>4
<1>8. CASE d = 0 /\ c = 0
  <2>1. Filter!MatchExplicitDomain(name) = "none"
    BY <1>5, <1>8
  <2>2. ~(d > 0) /\ ~(c > 0)
    BY <1>8
  <2>3. ASSUME NEW f \in Applying(t, name), f.list \in {"+", "^"} PROVE f.kind # "domain"
    BY <1>6, <2>2, <2>3, Zenon
  <2> QED BY <2>1, <2>3
<1>9. CASE ~(d = 0 /\ c = 0) /\ c >= d
  <2>1. PICK e \in Filter!Domains("^") : Names(e, name) /\ Len(e.text) = c
    BY <1>3, <1>4, <1>9
  <2>2. e \in Applying(t, name) /\ e.list = "^" /\ e.kind = "domain"
    BY <2>1, NamedApplies
  <2>3. Filter!Rank(e) = 6 + 2 * c
    BY <1>6, <2>1, <2>2 DEF Ranked
  <2>4. \A f \in Applying(t, name) : Filter!Rank(f) <= Filter!Rank(e)
    BY <1>3, <1>4, <1>7, <1>9, <2>3
  <2>5. Filter!Policy(t, name) = Verdict("^")
    BY <2>2, <2>4, PolicyOfTop DEF Top
  <2> QED BY <1>5, <1>9, <2>5, ListsDiffer DEF Verdict
<1>10. CASE ~(c >= d)
  <2>1. PICK e \in Filter!Domains("+") : Names(e, name) /\ Len(e.text) = d
    BY <1>3, <1>4, <1>10
  <2>2. e \in Applying(t, name) /\ e.list = "+" /\ e.kind = "domain"
    BY <2>1, NamedApplies
  <2>3. Filter!Rank(e) = 5 + 2 * d
    BY <1>6, <2>1, <2>2 DEF Ranked
  <2>4. \A f \in Applying(t, name) : Filter!Rank(f) <= Filter!Rank(e)
    BY <1>3, <1>4, <1>7, <1>10, <2>3
  <2>5. Filter!Policy(t, name) = Verdict("+")
    BY <2>2, <2>4, PolicyOfTop DEF Top
  <2>6. d # 0
    BY <1>3, <1>4, <1>10
  <2> QED BY <1>5, <1>10, <2>5, <2>6 DEF Verdict
<1> QED BY <1>8, <1>9, <1>10

\* The rest, when no domain of the user is about the name: the ranks of the lists.
LEMMA LowerRanks ==
  ASSUME FilterOK, NEW t, NEW name, NEW e \in Applying(t, name),
         \A f \in Applying(t, name) : f.list \in {"+", "^"} => f.kind # "domain",
         \/ e.list = "^"
         \/ e.list = "+" /\ \A f \in Applying(t, name) : f.list # "^"
         \/ e.list = "!" /\ \A f \in Applying(t, name) : f.list \notin {"^", "+"}
         \/ \A f \in Applying(t, name) : f.list = GroupList
  PROVE  Filter!Policy(t, name) = Verdict(e.list)
<1>1. \A f \in Applying(t, name) : FilterEntry(f)
  BY DEF Applying, FilterOK
<1>2. ASSUME NEW f \in Applying(t, name)
      PROVE  /\ f.list \in {GroupList, "!", "+", "^"}
             /\ f.list = "^" => Filter!Rank(f) = 4
             /\ f.list = "+" => Filter!Rank(f) = 3
             /\ f.list = "!" => Filter!Rank(f) = 2
             /\ f.list = GroupList => Filter!Rank(f) = 1
  <2>1. Ranked(f) /\ f.list \in {GroupList, "!", "+", "^"}
    BY <1>1, RankOf DEF FilterEntry
  <2> QED BY <2>1 DEF Ranked
<1>3. ASSUME NEW f \in Applying(t, name) PROVE Filter!Rank(f) <= Filter!Rank(e)
  <2>0. /\ f.list = GroupList \/ f.list = "!" \/ f.list = "+" \/ f.list = "^"
        /\ e.list = GroupList \/ e.list = "!" \/ e.list = "+" \/ e.list = "^"
    BY <1>2
  <2>1. CASE e.list = "^"
    <3>1. Filter!Rank(e) = 4
      BY <1>2, <2>1, Zenon
    <3>2. Filter!Rank(f) = 1 \/ Filter!Rank(f) = 2 \/ Filter!Rank(f) = 3 \/ Filter!Rank(f) = 4
      BY <1>2, <2>0, Zenon
    <3> QED BY <3>1, <3>2
  <2>2. CASE e.list = "+" /\ \A g \in Applying(t, name) : g.list # "^"
    <3>1. Filter!Rank(e) = 3
      BY <1>2, <2>2, Zenon
    <3>2. Filter!Rank(f) = 1 \/ Filter!Rank(f) = 2 \/ Filter!Rank(f) = 3
      BY <1>2, <2>0, <2>2, Zenon
    <3> QED BY <3>1, <3>2
  <2>3. CASE e.list = "!" /\ \A g \in Applying(t, name) : g.list \notin {"^", "+"}
    <3>1. Filter!Rank(e) = 2
      BY <1>2, <2>3, Zenon
    <3>2. Filter!Rank(f) = 1 \/ Filter!Rank(f) = 2
      BY <1>2, <2>0, <2>3, Zenon
    <3> QED BY <3>1, <3>2
  <2>4. CASE \A g \in Applying(t, name) : g.list = GroupList
    <3>1. Filter!Rank(e) = 1 /\ Filter!Rank(f) = 1
      BY <1>2, <2>4, Zenon
    <3> QED BY <3>1
  <2> QED BY <2>1, <2>2, <2>3, <2>4
<1> QED BY <1>3, PolicyOfTop DEF Top

\* match_tag with the right name is the policy.
LEMMA MatchKnown ==
  ASSUME FilterOK, NEW t, NEW name \in Seq(Labels), name # NoName
  PROVE  Filter!MatchTag(t, name) = Filter!Policy(t, name)
<1> DEFINE A == Applying(t, name)
           ex == Filter!MatchExplicitDomain(name)
           b == Filter!MatchedDomainLength("!", name)
           n == Filter!MatchedDomainLength(GroupList, name)
<1>1. Filter!MatchTag(t, name) =
        IF ex # "none" THEN ex
        ELSE IF Filter!Covered("^", t) THEN "override"
        ELSE IF ~Filter!Covered("+", t) /\ (Filter!Covered("!", t) \/ b > 0) THEN "override"
        ELSE IF Filter!Covered("+", t) \/ Filter!Covered(GroupList, t) THEN "exclusion"
        ELSE Filter!MatchDomain(name)
  BY Zenon DEF Filter!MatchTag, GroupList
<1>2. Filter!MatchDomain(name) = IF ex # "none" THEN ex ELSE IF b > 0 THEN "override" ELSE IF n > 0 THEN "exclusion" ELSE "default"
  BY Zenon DEF Filter!MatchDomain, GroupList
<1>3. ex # "none" => ex = Filter!Policy(t, name)
  BY ExplicitDomain
<1>4. ex = "none" => \A e \in A : e.list \in {"+", "^"} => e.kind # "domain"
  BY ExplicitDomain
<1>5. /\ b > 0 => \E e \in Filter!Domains("!") : Names(e, name)
      /\ \A e \in Filter!Domains("!") : Names(e, name) => b > 0
  BY LongestDomain
<1>6. /\ n > 0 => \E e \in Filter!Domains(GroupList) : Names(e, name)
      /\ \A e \in Filter!Domains(GroupList) : Names(e, name) => n > 0
  BY LongestDomain
<1>7. ASSUME NEW e \in A
      PROVE  /\ e.list \in {GroupList, "!", "+", "^"} /\ (e.kind = "address" \/ e.kind = "domain")
             /\ e.kind = "address" => Filter!Covered(e.list, t)
             /\ e.kind = "domain" /\ e.list = "!" => b > 0
             /\ e.kind = "domain" /\ e.list = GroupList => n > 0
  <2>1. e \in entries /\ Filter!Applies(e, t, name)
    BY DEF Applying
  <2>2. /\ FilterEntry(e) /\ (e.kind = "address" \/ e.kind = "domain")
        /\ e.kind = "domain" => Names(e, name) /\ e \in Filter!Domains(e.list)
        /\ e.kind = "address" => Filter!Covered(e.list, t)
    BY <2>1, AppliesIff
  <2>3. e.list \in {GroupList, "!", "+", "^"}
    BY <2>2 DEF FilterEntry
  <2> QED BY <1>5, <1>6, <2>2, <2>3, Zenon
<1>8. Filter!Covered("^", t) => \E e \in A : e.list = "^"
  BY CoveredApplies
<1>9. Filter!Covered("+", t) => \E e \in A : e.list = "+"
  BY CoveredApplies
<1>10. Filter!Covered("!", t) \/ b > 0 => \E e \in A : e.list = "!"
  BY <1>5, CoveredApplies, NamedApplies
<1>11. Filter!Covered(GroupList, t) \/ n > 0 => \E e \in A : e.list = GroupList
  BY <1>6, CoveredApplies, NamedApplies
<1> HIDE DEF A, ex, b, n
<1>12. CASE ex # "none"
  BY <1>1, <1>3, <1>12
<1>13. CASE ex = "none" /\ Filter!Covered("^", t)
  <2>1. PICK e \in A : e.list = "^"
    BY <1>8, <1>13
  <2>2. Filter!Policy(t, name) = Verdict(e.list)
    BY <1>4, <1>13, <2>1, LowerRanks DEF A
  <2> QED BY <1>1, <1>13, <2>1, <2>2, ListsDiffer DEF Verdict
<1>14. CASE ex = "none" /\ ~Filter!Covered("^", t)
  <2>1. \A f \in A : f.list # "^"
    BY <1>4, <1>7, <1>14, Zenon
  <2>2. CASE ~Filter!Covered("+", t)
    <3>1. \A f \in A : f.list # "^" /\ f.list # "+"
      BY <1>4, <1>7, <1>14, <2>1, <2>2, Zenon
    <3>2. CASE Filter!Covered("!", t) \/ b > 0
      <4>1. PICK e \in A : e.list = "!"
        BY <1>10, <3>2
      <4>2. Filter!Policy(t, name) = Verdict(e.list)
        BY <1>4, <1>14, <3>1, <4>1, LowerRanks DEF A
      <4> QED BY <1>1, <1>14, <2>2, <3>2, <4>1, <4>2, ListsDiffer DEF Verdict
    <3>3. CASE ~(Filter!Covered("!", t) \/ b > 0)
      <4>1. \A f \in A : f.list = GroupList
        BY <1>7, <3>1, <3>3, Zenon
      <4>2. CASE Filter!Covered(GroupList, t) \/ n > 0
        <5>1. PICK e \in A : e.list = GroupList
          BY <1>11, <4>2
        <5>2. Filter!Policy(t, name) = Verdict(e.list)
          BY <1>4, <1>14, <4>1, <5>1, LowerRanks DEF A
        <5> QED BY <1>1, <1>2, <1>14, <2>2, <3>3, <4>2, <5>1, <5>2 DEF Verdict
      <4>3. CASE ~(Filter!Covered(GroupList, t) \/ n > 0)
        <5>1. A = {}
          BY <1>7, <4>1, <4>3, Zenon
        <5>2. Filter!Policy(t, name) = "default"
          BY <5>1, Zenon DEF A, Applying, Filter!Policy
        <5> QED BY <1>1, <1>2, <1>14, <2>2, <3>3, <4>3, <5>2
      <4> QED BY <4>2, <4>3
    <3> QED BY <3>2, <3>3
  <2>3. CASE Filter!Covered("+", t)
    <3>1. PICK e \in A : e.list = "+"
      BY <1>9, <2>3
    <3>2. Filter!Policy(t, name) = Verdict(e.list)
      BY <1>4, <1>14, <2>1, <3>1, LowerRanks DEF A
    <3> QED BY <1>1, <1>14, <2>3, <3>1, <3>2 DEF Verdict
  <2> QED BY <2>2, <2>3
<1> QED BY <1>12, <1>13, <1>14

\* An address is excluded at once only when no domain could restore the default.
LEMMA MatchUnknown ==
  ASSUME FilterOK, NEW t, NEW name \in Seq(Labels), Filter!MatchTag(t, NoName) = "exclusion"
  PROVE  Filter!Policy(t, name) = "exclusion"
<1> DEFINE A == Applying(t, name)
<1>1. /\ ~Filter!Covered("^", t) /\ Filter!Domains("^") = {}
      /\ \/ Filter!Covered("+", t)
         \/ Filter!Covered(GroupList, t) /\ ~Filter!Covered("!", t) /\ Filter!Domains("!") = {}
  BY Zenon DEF Filter!MatchTag, GroupList
<1>2. ASSUME NEW e \in A
      PROVE  /\ FilterEntry(e) /\ e.list \in {GroupList, "!", "+", "^"} /\ (e.kind = "address" \/ e.kind = "domain")
             /\ e.kind = "address" => Filter!Covered(e.list, t)
             /\ e.kind = "domain" => e \in Filter!Domains(e.list) /\ Names(e, name)
  <2>1. e \in entries /\ Filter!Applies(e, t, name)
    BY DEF Applying
  <2>2. FilterEntry(e)
    BY <2>1, AppliesIff
  <2>3. e.list \in {GroupList, "!", "+", "^"}
    BY <2>2 DEF FilterEntry
  <2> QED BY <2>1, <2>2, <2>3, AppliesIff
<1>3. \A e \in A : e.list # "^"
  BY <1>1, <1>2, Zenon
<1>4. PICK x \in A : x.list = "+" \/ (x.list = GroupList /\ \A e \in A : e.list # "!")
  <2>1. CASE Filter!Covered("+", t)
    <3>1. \E e \in Applying(t, name) : e.list = "+" /\ e.kind = "address"
      BY <2>1, CoveredApplies
    <3> QED BY <3>1
  <2>2. CASE ~Filter!Covered("+", t)
    <3>1. PICK y \in A : y.list = GroupList
      BY <1>1, <2>2, CoveredApplies
    <3>2. \A e \in A : e.list # "!"
      BY <1>1, <1>2, <2>2, Zenon
    <3> QED BY <3>1, <3>2
  <2> QED BY <2>1, <2>2
<1>5. PICK e \in A : \A f \in A : Filter!Rank(f) <= Filter!Rank(e)
  <2> DEFINE R == {Filter!Rank(f) : f \in A}
  <2>1. Len(name) \in Nat
    OBVIOUS
  <2>2. ASSUME NEW f \in A PROVE Filter!Rank(f) \in Nat /\ Filter!Rank(f) <= 6 + 2 * Len(name)
    <3>1. Ranked(f)
      BY <1>2, RankOf
    <3>2. CASE f.list \in {"+", "^"} /\ f.kind = "domain"
      <4>1. Len(f.text) \in Nat /\ Len(f.text) <= Len(name)
        <5>1. PICK m : m = Filter!MatchedDomainLength(f.list, name)
          OBVIOUS
        <5>2. f.text \in Seq(Labels) /\ f.wildcard \in BOOLEAN
          BY <1>2, <3>2 DEF FilterEntry
        <5>3. Names(f, name)
          BY <1>2, <3>2
        <5>4. CASE f.wildcard
          BY <5>2, <5>3, <5>4 DEF Names, Filter!Below
        <5>5. CASE ~f.wildcard /\ name = f.text
          BY <5>2, <5>5
        <5>6. CASE ~f.wildcard /\ name = <<"www">> \o f.text
          BY <5>2, <5>6
        <5> QED BY <5>2, <5>3, <5>4, <5>5, <5>6 DEF Names
      <4>2. PICK k \in Nat : k = Len(f.text) /\ (Filter!Rank(f) = 5 + 2 * k \/ Filter!Rank(f) = 6 + 2 * k)
        BY <3>1, <3>2, <4>1 DEF Ranked
      <4> QED BY <2>1, <4>1, <4>2
    <3>3. CASE ~(f.list \in {"+", "^"} /\ f.kind = "domain")
      <4>1. Filter!Rank(f) = 1 \/ Filter!Rank(f) = 2 \/ Filter!Rank(f) = 3 \/ Filter!Rank(f) = 4
        BY <1>2, <3>1, <3>3 DEF Ranked
      <4> QED BY <2>1, <4>1
    <3> QED BY <3>2, <3>3
  <2>3. R \in SUBSET Nat /\ R # {} /\ 6 + 2 * Len(name) \in Nat /\ \A k \in R : k <= 6 + 2 * Len(name)
    BY <1>4, <2>1, <2>2
  <2>4. PICK m \in R : \A k \in R : k <= m
    BY <2>3, NatMost
  <2> QED BY <2>4
<1>6. Filter!Policy(t, name) = Verdict(e.list)
  BY <1>5, PolicyOfTop DEF Top
<1>7. e.list # "!"
  <2> SUFFICES ASSUME e.list = "!" PROVE FALSE
    OBVIOUS
  <2>1. x.list = "+"
    BY <1>4, <1>5
  <2>2. Filter!Rank(e) = 2
    BY <1>2, <1>5, RankOf DEF Ranked
  <2>3. Ranked(x)
    BY <1>2, <1>4, RankOf
  <2>4. CASE x.kind = "domain"
    <3>1. PICK k \in Nat : Filter!Rank(x) = 5 + 2 * k
      BY <2>1, <2>3, <2>4 DEF Ranked
    <3> QED BY <1>4, <1>5, <2>2, <3>1
  <2>5. CASE x.kind # "domain"
    <3>1. Filter!Rank(x) = 3
      BY <2>1, <2>3, <2>5 DEF Ranked
    <3> QED BY <1>4, <1>5, <2>2, <3>1
  <2> QED BY <2>4, <2>5
<1> QED BY <1>2, <1>3, <1>5, <1>6, <1>7 DEF Verdict

LEMMA FilterInitOK == Filter!Init => FilterOK
BY DEF Filter!Init, Filter!NoFlow, FilterOK

\* parse_entry of an entry that is not malformed.
LEMMA ParsedEntry ==
  ASSUME NEW e \in Entries, e.kind # "malformed"
  PROVE  FilterEntry(Filter!ParseEntry(e))
<1>1. \/ e.kind = "address" /\ e.list \in {GroupList, "!", "+", "^"}
      \/ e \in DomainEntry /\ (e.wildcard \/ ~Filter!IsWww(Filter!WithoutWww(e.text)))
  BY FilterAssumption, Zenon DEF FilterAssumption, GroupList
<1>2. CASE e.kind = "address" /\ e.list \in {GroupList, "!", "+", "^"}
  <2>1. Filter!ParseEntry(e) = e
    BY <1>2 DEF Filter!ParseEntry
  <2> QED BY <1>2, <2>1 DEF FilterEntry
<1>3. CASE e \in DomainEntry /\ (e.wildcard \/ ~Filter!IsWww(Filter!WithoutWww(e.text)))
  <2>1. /\ e \in [list : {GroupList, "!", "+", "^"}, kind : {"domain"}, text : Seq(Labels) \ {<<>>}, wildcard : BOOLEAN]
    BY <1>3, Zenon DEF DomainEntry, GroupList
  <2>2. e.kind = "domain" /\ e.list \in {GroupList, "!", "+", "^"} /\ e.text \in Seq(Labels) /\ e.text # <<>> /\ e.wildcard \in BOOLEAN
    BY <2>1
  <2>3. CASE e.wildcard
    <3>1. Filter!ParseEntry(e) = e
      BY <2>3 DEF Filter!ParseEntry
    <3> QED BY <2>2, <2>3, <3>1 DEF FilterEntry
  <2>4. CASE ~e.wildcard
    <3>1. Filter!ParseEntry(e) = [e EXCEPT !.text = Filter!WithoutWww(e.text)]
      BY <2>2, <2>4 DEF Filter!ParseEntry
    <3>2. PICK w : w = Filter!WithoutWww(e.text)
      OBVIOUS
    <3>3. w \in Seq(Labels) /\ w # <<>>
      <4>1. CASE Filter!IsWww(e.text)
        <5>1. w = Tail(e.text) /\ Len(e.text) > 1
          BY <3>2, <4>1 DEF Filter!WithoutWww, Filter!IsWww
        <5>2. Tail(e.text) \in Seq(Labels) /\ Len(Tail(e.text)) = Len(e.text) - 1 /\ Len(e.text) \in Nat
          BY <2>2, HeadTailProperties
        <5>3. Len(w) # 0
          BY <5>1, <5>2
        <5> QED BY <5>1, <5>2, <5>3, EmptySeq
      <4>2. CASE ~Filter!IsWww(e.text)
        BY <2>2, <3>2, <4>2 DEF Filter!WithoutWww
      <4> QED BY <4>1, <4>2
    <3>4. ~Filter!IsWww(w)
      BY <1>3, <2>4, <3>2
    <3>5. PICK f : f = [e EXCEPT !.text = w]
      OBVIOUS
    <3>6. f.list = e.list /\ f.kind = e.kind /\ f.text = w /\ f.wildcard = e.wildcard
      BY <2>1, <3>5, Zenon
    <3>7. FilterEntry(f)
      BY <2>2, <3>3, <3>4, <3>6 DEF FilterEntry
    <3> QED BY <3>1, <3>2, <3>5, <3>7
  <2> QED BY <2>2, <2>3, <2>4
<1> QED BY <1>1, <1>2, <1>3

LEMMA FilterStepOK == FilterOK /\ [Filter!Next]_Filter!filterVars => FilterOK'
<1> SUFFICES ASSUME FilterOK, [Filter!Next]_Filter!filterVars PROVE FilterOK'
  OBVIOUS
<1>1. CASE Filter!UpdateExclusions
  <2>1. flow' = flow
    BY <1>1, Zenon DEF Filter!UpdateExclusions
  <2>2. \A e \in entries : FilterEntry(e)
    BY DEF FilterOK
  <2>3. ASSUME NEW x \in entries' PROVE FilterEntry(x)
    <3>1. CASE \E e \in Entries : entries' = entries \cup (IF e.kind = "malformed" THEN {} ELSE {Filter!ParseEntry(e)})
      <4>1. PICK e \in Entries : entries' = entries \cup (IF e.kind = "malformed" THEN {} ELSE {Filter!ParseEntry(e)})
        BY <3>1
      <4>2. x \in entries \/ (e.kind # "malformed" /\ x = Filter!ParseEntry(e))
        BY <2>3, <4>1, Zenon
      <4> QED BY <2>2, <4>2, ParsedEntry, Zenon
    <3>2. CASE \E e \in entries : entries' = entries \ {e}
      BY <2>2, <2>3, <3>2, Zenon
    <3>3. CASE entries' = entries
      BY <2>2, <2>3, <3>3
    <3> QED BY <1>1, <3>1, <3>2, <3>3, Zenon DEF Filter!UpdateExclusions
  <2> QED BY <2>1, <2>3 DEF FilterOK
<1>2. ASSUME NEW t \in Tags, NEW name \in NamesAt[t], Filter!ConnectByAddress(t, name) PROVE FilterOK'
  <2>1. entries' = entries
    BY <1>2, Zenon DEF Filter!ConnectByAddress
  <2>2. \/ flow'.st = "routed"
        \/ flow'.tag = t /\ flow'.name = name
    BY <1>2, Zenon DEF Filter!ConnectByAddress, Filter!Routed
  <2> QED BY <2>1, <2>2, Zenon DEF FilterOK
<1>3. ASSUME NEW t \in Tags, NEW name \in NamesAt[t], Filter!ConnectByName(t, name) PROVE FilterOK'
  <2>1. entries' = entries
    BY <1>3, Zenon DEF Filter!ConnectByName
  <2>2. \E a : flow' = Filter!Routed(t, name, "given", a)
    BY <1>3, Zenon DEF Filter!ConnectByName
  <2>3. flow'.st = "routed"
    BY <2>2 DEF Filter!Routed
  <2> QED BY <2>1, <2>3, Zenon DEF FilterOK
<1>4. ASSUME NEW t \in Tags, NEW name \in NamesAt[t],
             Filter!DnsResponse(name, t.host) \/ Filter!TagForgotten(t) \/ Filter!SuspectForgotten(t.host)
      PROVE  FilterOK'
  BY <1>4, Zenon DEF FilterOK, Filter!DnsResponse, Filter!TagForgotten, Filter!SuspectForgotten
<1>5. ASSUME NEW t \in Tags, Filter!TagForgotten(t) \/ Filter!SuspectForgotten(t.host) PROVE FilterOK'
  BY <1>5, Zenon DEF FilterOK, Filter!TagForgotten, Filter!SuspectForgotten
<1>6. CASE Filter!DomainFound
  <2>1. entries' = entries
    BY <1>6, Zenon DEF Filter!DomainFound
  <2>2. \/ flow' = Filter!NoFlow
        \/ \E a : flow' = Filter!Routed(flow.tag, flow.name, "name", a)
    BY <1>6, SMT DEF Filter!DomainFound
  <2>3. flow'.st = "routed" \/ flow'.st = "none"
    BY <2>2 DEF Filter!Routed, Filter!NoFlow
  <2> QED BY <2>1, <2>3, Zenon DEF FilterOK
<1>7. CASE Filter!DomainNotFound
  <2>1. entries' = entries /\ flow'.st = "routed"
    BY <1>7, Zenon DEF Filter!DomainNotFound, Filter!Routed
  <2> QED BY <2>1, Zenon DEF FilterOK
<1>8. CASE Filter!LookupExceeded
  <2>1. entries' = entries /\ flow' = [flow EXCEPT !.suspect = FALSE] /\ flow.st = "looking"
    BY <1>8, Zenon DEF Filter!LookupExceeded
  <2>2. flow'.tag = flow.tag /\ flow'.name = flow.name
    BY <2>1
  <2> QED BY <2>1, <2>2, Zenon DEF FilterOK
<1>9. CASE UNCHANGED Filter!filterVars
  BY <1>9, Zenon DEF FilterOK, Filter!filterVars
<1> QED BY <1>1, <1>2, <1>3, <1>4, <1>5, <1>6, <1>7, <1>8, <1>9, Zenon DEF Filter!Next

\* What a step that routes the connection may do.
FollowsRules ==
    /\ Filter!Decided("name") => flow'.action = Filter!ActionFor(Filter!Policy(flow'.tag, flow'.name))
    /\ Filter!Decided("memory") /\ resolved[flow'.tag] = flow'.name =>
         flow'.action = Filter!ActionFor(Filter!Policy(flow'.tag, flow'.name))
    /\ Filter!Decided("exclusion") => Filter!Policy(flow'.tag, flow'.name) = "exclusion"

LEMMA RoutedFields ==
  ASSUME NEW t, NEW name, NEW by, NEW action, NEW f, f = Filter!Routed(t, name, by, action)
  PROVE  f.st = "routed" /\ f.tag = t /\ f.name = name /\ f.by = by /\ f.action = action
BY DEF Filter!Routed

\* A step that routes in another way than the three, or not at all, is not constrained.
LEMMA OtherwiseFollows ==
  ASSUME flow'.st # "routed" \/ flow'.by \notin {"name", "memory", "exclusion"}
  PROVE  FollowsRules
BY Zenon DEF FollowsRules, Filter!Decided

LEMMA FilterFollows == FilterOK /\ Filter!Next => FollowsRules
<1> SUFFICES ASSUME FilterOK, Filter!Next PROVE FollowsRules
  OBVIOUS
<1>0. CASE flow' = flow
  BY <1>0, Zenon DEF FollowsRules, Filter!Decided
<1>1. ASSUME NEW t \in Tags, NEW name \in NamesAt[t], Filter!ConnectByAddress(t, name) PROVE FollowsRules
  <2>1. name \in Seq(Labels) /\ name # NoName
    BY FilterAssumption, Zenon DEF FilterAssumption
  <2>2. PICK status : status = Filter!MatchTag(t, resolved[t])
    OBVIOUS
  <2>3. PICK known \in BOOLEAN : known <=> resolved[t] # NoName
    OBVIOUS
  <2>4. flow' = CASE status \in {"exclusion", "override"} ->
                      Filter!Routed(t, name, IF known THEN "memory" ELSE status, Filter!ActionFor(status))
                 [] status = "suspect" /\ t.port \notin ScannablePorts ->
                      Filter!Routed(t, name, "suspicion", "redirect")
                 [] OTHER -> [st |-> "looking", tag |-> t, name |-> name, suspect |-> status = "suspect"]
    BY <1>1, <2>2, <2>3 DEF Filter!ConnectByAddress
  <2>5. CASE status \in {"exclusion", "override"} /\ known
    <3>1. flow' = Filter!Routed(t, name, "memory", Filter!ActionFor(status))
      BY <2>4, <2>5
    <3>2. flow'.tag = t /\ flow'.name = name /\ flow'.by = "memory" /\ flow'.action = Filter!ActionFor(status)
      BY <3>1, RoutedFields
    <3>3. resolved[t] = name => status = Filter!Policy(t, name)
      BY <2>1, <2>2, MatchKnown
    <3> QED BY <3>2, <3>3, Zenon DEF FollowsRules, Filter!Decided
  <2>6. CASE status = "exclusion" /\ ~known
    <3>1. flow' = Filter!Routed(t, name, "exclusion", Filter!ActionFor(status))
      BY <2>4, <2>6
    <3>2. flow'.tag = t /\ flow'.name = name /\ flow'.by = "exclusion"
      BY <3>1, RoutedFields
    <3>3. Filter!MatchTag(t, NoName) = "exclusion"
      BY <2>2, <2>3, <2>6
    <3>4. Filter!Policy(t, name) = "exclusion"
      BY <2>1, <3>3, MatchUnknown
    <3> QED BY <3>2, <3>4, Zenon DEF FollowsRules, Filter!Decided
  <2>7. CASE status = "override" /\ ~known
    <3>1. flow' = Filter!Routed(t, name, "override", Filter!ActionFor(status))
      BY <2>4, <2>7
    <3>2. flow'.by = "override"
      BY <3>1, RoutedFields
    <3> QED BY <3>2, OtherwiseFollows, Zenon
  <2>8. CASE status \notin {"exclusion", "override"}
    <3>1. flow' = Filter!Routed(t, name, "suspicion", "redirect") \/ flow' = [st |-> "looking", tag |-> t, name |-> name, suspect |-> status = "suspect"]
      BY <2>4, <2>8
    <3>2. flow'.by = "suspicion" \/ flow'.st = "looking"
      BY <3>1, RoutedFields
    <3> QED BY <3>2, OtherwiseFollows, Zenon
  <2> QED BY <2>3, <2>5, <2>6, <2>7, <2>8
<1>2. ASSUME NEW t \in Tags, NEW name \in NamesAt[t], Filter!ConnectByName(t, name) PROVE FollowsRules
  <2>1. PICK a : flow' = Filter!Routed(t, name, "given", a)
    BY <1>2, Zenon DEF Filter!ConnectByName
  <2>2. flow'.by = "given"
    BY <2>1, RoutedFields
  <2> QED BY <2>2, OtherwiseFollows, Zenon
<1>3. CASE Filter!DomainFound
  <2>1. flow.tag \in Tags /\ flow.name \in NamesAt[flow.tag]
    BY <1>3, Zenon DEF Filter!DomainFound, FilterOK
  <2>2. flow.name \in Seq(Labels) /\ flow.name # NoName
    BY <2>1, FilterAssumption, Zenon DEF FilterAssumption
  <2>3. Filter!MatchTag(flow.tag, flow.name) = Filter!Policy(flow.tag, flow.name)
    BY <2>2, MatchKnown
  <2>4. \/ flow' = Filter!NoFlow
        \/ flow' = Filter!Routed(flow.tag, flow.name, "name", Filter!ActionFor(Filter!MatchTag(flow.tag, flow.name)))
    BY <1>3, SMT DEF Filter!DomainFound
  <2>5. CASE flow' = Filter!NoFlow
    <3>1. flow'.st = "none"
      BY <2>5 DEF Filter!NoFlow
    <3> QED BY <3>1, OtherwiseFollows, Zenon
  <2>6. CASE flow' = Filter!Routed(flow.tag, flow.name, "name", Filter!ActionFor(Filter!MatchTag(flow.tag, flow.name)))
    <3>1. /\ flow'.tag = flow.tag /\ flow'.name = flow.name /\ flow'.by = "name"
          /\ flow'.action = Filter!ActionFor(Filter!Policy(flow.tag, flow.name))
      BY <2>3, <2>6, RoutedFields
    <3> QED BY <3>1, Zenon DEF FollowsRules, Filter!Decided
  <2> QED BY <2>4, <2>5, <2>6
<1>4. CASE Filter!DomainNotFound
  <2>1. flow' = Filter!Routed(flow.tag, flow.name, "suspicion", "redirect") \/ flow' = Filter!Routed(flow.tag, flow.name, "default", Filter!VpnModeToAction)
    BY <1>4 DEF Filter!DomainNotFound
  <2>2. flow'.by = "suspicion" \/ flow'.by = "default"
    BY <2>1, RoutedFields
  <2> QED BY <2>2, OtherwiseFollows, Zenon
<1>5. CASE Filter!LookupExceeded
  <2>1. flow' = [flow EXCEPT !.suspect = FALSE] /\ flow.st = "looking"
    BY <1>5, Zenon DEF Filter!LookupExceeded
  <2>2. flow'.st = "looking"
    BY <2>1
  <2> QED BY <2>2, OtherwiseFollows, Zenon
<1>6. \/ flow' = flow
      \/ Filter!DomainFound \/ Filter!DomainNotFound \/ Filter!LookupExceeded
      \/ \E t \in Tags : \E name \in NamesAt[t] : Filter!ConnectByAddress(t, name) \/ Filter!ConnectByName(t, name)
  BY Zenon DEF Filter!Next, Filter!UpdateExclusions, Filter!DnsResponse, Filter!TagForgotten, Filter!SuspectForgotten
<1> QED BY <1>0, <1>1, <1>2, <1>3, <1>4, <1>5, <1>6, Zenon

\* DomainFilter (domain_filter.cpp) and the routes of the tunnel: whatever lists are set, names learnt and
\* suspicions raised before, a connection whose name is found or was remembered rightly goes where the entry
\* of the highest rank says, and none is excluded by its address while its name could restore the default.
THEOREM RulesAreFollowed == Filter!Spec => RoutesFollowRules
<1>1. FilterOK /\ [Filter!Next]_Filter!filterVars => [FollowsRules]_Filter!filterVars
  BY FilterFollows, Zenon
<1>2. Filter!Spec => [][FollowsRules]_Filter!filterVars
  BY <1>1, FilterInitOK, FilterStepOK, PTL DEF Filter!Spec
<1>3. [][FollowsRules]_Filter!filterVars <=> RoutesFollowRules
  BY PTL DEF RoutesFollowRules, Filter!RoutesFollowRules, FollowsRules
<1> QED BY <1>2, <1>3, PTL

-----------------------------------------------------------------------------
(* The parts together.                                                     *)

\* The specification that the runs check has the specification of each part: a step of it is a step of
\* one part that leaves the others as they are.
LEMMA PartsImplemented ==
  UpstreamsSpec => Conn!Spec /\ Buffer!Spec /\ H2!Spec /\ H3!Spec /\ Mux!Spec /\ Udp!Spec /\ Filter!Spec
<1>1. UpstreamsInit => Conn!Init /\ Buffer!Init /\ H2!Init /\ H3!Init /\ Mux!Init /\ Udp!Init /\ Filter!Init
  BY Zenon DEF UpstreamsInit
<1>2. [UpstreamsNext]_<<part, upstreamVars, keptVars>> => [Conn!Next]_Conn!connectorVars
  BY Zenon DEF UpstreamsNext, upstreamVars, keptVars, connectorVars, Conn!connectorVars
<1>3. [UpstreamsNext]_<<part, upstreamVars, keptVars>> => [Buffer!Next]_Buffer!bufferVars
  BY Zenon DEF UpstreamsNext, upstreamVars, keptVars, bufferVars, Buffer!bufferVars
<1>4. [UpstreamsNext]_<<part, upstreamVars, keptVars>> => [H2!Next]_H2!h2Vars
  BY Zenon DEF UpstreamsNext, upstreamVars, keptVars, h2Vars, H2!h2Vars
<1>5. [UpstreamsNext]_<<part, upstreamVars, keptVars>> => [H3!Next]_H3!h3Vars
  BY Zenon DEF UpstreamsNext, upstreamVars, keptVars, h3Vars, H3!h3Vars
<1>6. [UpstreamsNext]_<<part, upstreamVars, keptVars>> => [Mux!Next]_Mux!muxVars
  BY Zenon DEF UpstreamsNext, upstreamVars, keptVars, muxVars, Mux!muxVars
<1>7. [UpstreamsNext]_<<part, upstreamVars, keptVars>> => [Udp!Next]_Udp!udpVars
  BY Zenon DEF UpstreamsNext, upstreamVars, keptVars, udpVars, Udp!udpVars
<1>8. [UpstreamsNext]_<<part, upstreamVars, keptVars>> => [Filter!Next]_Filter!filterVars
  BY Zenon DEF UpstreamsNext, upstreamVars, keptVars, filterVars, Filter!filterVars
<1> QED
  BY <1>1, <1>2, <1>3, <1>4, <1>5, <1>6, <1>7, <1>8, PTL
  DEF UpstreamsSpec, Conn!Spec, Buffer!Spec, H2!Spec, H3!Spec, Mux!Spec, Udp!Spec, Filter!Spec

\* The seven properties hold of the specification of all the parts.
THEOREM UpstreamsServe ==
  UpstreamsSpec => /\ [](ConnectorSettles /\ BufferInOrder /\ H2Served /\ H3Served /\ MuxInStep /\ UdpMuxInStep)
                   /\ RoutesFollowRules
<1>1. UpstreamsSpec => [](ConnectorSettles /\ BufferInOrder /\ H2Served /\ H3Served /\ MuxInStep /\ UdpMuxInStep)
  BY PartsImplemented, ConnectorsReport, BuffersInOrder, H2Serves, H3Serves, MuxStaysInStep, UdpMuxStaysInStep, PTL
<1>2. UpstreamsSpec => RoutesFollowRules
  BY PartsImplemented, RulesAreFollowed, PTL
<1> QED BY <1>1, <1>2, PTL
=============================================================================
