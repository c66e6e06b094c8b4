----------------------------- MODULE WindowsProofs -----------------------------
(***************************************************************************)
(* What surrounds the core on Windows, for every value of the constants:   *)
(* the receive path, the removal of old filters, the tokens of the tunnels,*)
(* the owners of a client and the pipe of the service. For each the        *)
(* inductive invariant, what the steps do to it, and the property that the *)
(* run checks.                                                             *)
(***************************************************************************)
EXTENDS Windows, Integers, Sequences, FiniteSetTheorems, SequenceTheorems, WellFoundedInduction, TLAPS

-----------------------------------------------------------------------------
(* The receive path: RecvPump.                                             *)

\* The types of the ring, the receive thread and the listener.
PumpTyped ==
    /\ ring \in [count : Nat, event : BOOLEAN, arrived : Nat, open : BOOLEAN]
    /\ recv \in {"off", "wait", "call", "joined"}
    /\ pump \in [st : {"new", "on", "off"}, queue : Nat,
                 task : {"none", "submitted", "drain", "process", "finish"},
                 owned : BOOLEAN, signaled : BOOLEAN, done : Nat]

\* The strengthening. Before the listener starts nothing takes the event of the ring; the task id is
\* held exactly while the task waits or runs; and a packet that arrives after the drain shows in the
\* event, in the call that follows it, or in the flag that FinishTask looks at.
PumpConsistent ==
    /\ PumpTyped
    /\ pump.st = "new" => /\ recv = "off" /\ pump.queue = 0 /\ ~pump.owned
                          /\ ring.count > 0 => ring.event
    /\ pump.st = "off" => recv = "joined"
    /\ pump.owned <=> pump.task # "none"
    /\ pump.st = "on" =>
          /\ ring.count > 0 => ring.event \/ recv = "call" \/ pump.owned
          /\ pump.queue > 0 => pump.owned
          /\ ring.count > 0 /\ pump.task \in {"process", "finish"} =>
                ring.event \/ recv = "call" \/ pump.signaled

\* The beginning is consistent.
LEMMA PumpBegins == PumpInit => PumpConsistent
  BY DEF PumpInit, PumpConsistent, PumpTyped

\* Every step keeps the strengthening, whichever thread makes it.
LEMMA PumpKeeps ==
  ASSUME PumpConsistent, [PumpNext]_pumpVars
  PROVE  PumpConsistent'
<1> USE DEF PumpConsistent
<1>1. PumpTyped'
  <2> USE DEF PumpTyped
  <2>1. CASE PacketArrives
    <3>1. ring.count + 1 \in Nat /\ ring.arrived + 1 \in Nat
      OBVIOUS
    <3> QED
      BY <2>1, <3>1 DEF PacketArrives
  <2>2. CASE StartRecvPackets
    BY <2>2 DEF StartRecvPackets
  <2>3. CASE ReceiveThread
    BY <2>3 DEF ReceiveThread
  <2>4. CASE RecvPacketsHandler
    BY <2>4 DEF RecvPacketsHandler
  <2>5. CASE DrainRing
    <3>1. pump.queue + 1 \in Nat /\ (ring.count > 0 => ring.count - 1 \in Nat)
      OBVIOUS
    <3>2. CASE ring.count > 0
      BY <2>5, <3>1, <3>2 DEF DrainRing
    <3>3. CASE ~(ring.count > 0)
      BY <2>5, <3>3 DEF DrainRing
    <3> QED
      BY <3>2, <3>3
  <2>6. CASE ProcessBatch
    <3> DEFINE count == IF pump.queue < BatchSize THEN pump.queue ELSE BatchSize
    <3>1. pump.queue - count \in Nat /\ pump.done + count \in Nat
      BY BatchAssumption
    <3>2. /\ pump' = [pump EXCEPT !.queue = @ - count, !.done = @ + count, !.task = "finish"]
          /\ UNCHANGED <<ring, recv>>
      BY <2>6 DEF ProcessBatch
    <3> HIDE DEF count
    <3> QED
      BY <3>1, <3>2
  <2>7. CASE FinishTask
    BY <2>7 DEF FinishTask, TaskAgain
  <2>8. CASE StopRecvPackets
    BY <2>8 DEF StopRecvPackets
  <2>9. CASE CloseSession
    BY <2>9 DEF CloseSession
  <2>10. CASE UNCHANGED pumpVars
    BY <2>10 DEF pumpVars
  <2> QED
    BY <2>1, <2>2, <2>3, <2>4, <2>5, <2>6, <2>7, <2>8, <2>9, <2>10 DEF PumpNext
<1>2. CASE PacketArrives
  BY <1>1, <1>2 DEF PacketArrives, PumpTyped
<1>3. CASE StartRecvPackets
  BY <1>1, <1>3 DEF StartRecvPackets, PumpTyped
<1>4. CASE ReceiveThread
  BY <1>1, <1>4 DEF ReceiveThread, PumpTyped
<1>5. CASE RecvPacketsHandler
  BY <1>1, <1>5 DEF RecvPacketsHandler, PumpTyped
<1>6. CASE DrainRing
  BY <1>1, <1>6 DEF DrainRing, PumpTyped
<1>7. CASE ProcessBatch
  BY <1>1, <1>7 DEF ProcessBatch, PumpTyped
<1>8. CASE FinishTask
  BY <1>1, <1>8 DEF FinishTask, TaskAgain, PumpTyped
<1>9. CASE StopRecvPackets
  BY <1>1, <1>9 DEF StopRecvPackets, PumpTyped
<1>10. CASE CloseSession
  BY <1>1, <1>10 DEF CloseSession, PumpTyped
<1>11. CASE UNCHANGED pumpVars
  BY <1>11 DEF pumpVars, PumpTyped
<1> QED
  BY <1>2, <1>3, <1>4, <1>5, <1>6, <1>7, <1>8, <1>9, <1>10, <1>11 DEF PumpNext

\* No packet is stranded: however the receive thread's event and call fall between the steps of
\* recv_packets_task, what is in the ring or the queue has something on its way to it.
THEOREM PumpDrivenHolds == PumpSpec => []PumpDriven
<1>1. PumpConsistent => PumpDriven
  BY DEF PumpConsistent, PumpDriven
<1> QED
  BY PumpBegins, PumpKeeps, <1>1, PTL DEF PumpSpec

-----------------------------------------------------------------------------
(* The removal of old filters: NetworkGuard.                               *)

\* No block of ours is left.
NoBlocks == \A o \in GuardObjects : o.blocking => ~Owned(o)

\* The types of the variables.
GuardTyped ==
    /\ wfp \in [GuardObjects -> {"none", "ours", "other"}]
    /\ guard \in [pc : {"idle", "blocks", "rest", "done"}, todo : SUBSET GuardObjects,
                  kind : {"filter", "sublayer", "provider"}, ok : BOOLEAN, success : BOOLEAN, armed : BOOLEAN]

\* The strengthening: the first loop has only blocks before it; the second begins once no block of ours
\* is left and, unless a call fails, keeps everything of ours on its list, from which a kind is gone
\* before the next one's turn.
GuardConsistent ==
    /\ GuardTyped
    /\ \A r \in removed : r.owner = "ours"
    /\ (\E r \in removed : ~r.object.blocking) => NoBlocks
    /\ guard.pc \in {"idle", "blocks"} => guard.kind = "filter"
    /\ guard.pc = "blocks" => \A o \in guard.todo : o.blocking
    /\ guard.pc = "rest" =>
          /\ NoBlocks
          /\ guard.ok => \A o \in GuardObjects : Owned(o) => o \in guard.todo
          /\ guard.kind = "sublayer" => \A o \in guard.todo : o.kind # "filter"
          /\ guard.kind = "provider" => \A o \in guard.todo : o.kind = "provider"
    /\ guard.pc = "done" /\ ~guard.armed => NoBlocks
    /\ guard.pc = "done" /\ guard.success /\ guard.kind = "provider" => \A o \in GuardObjects : ~Owned(o)

\* The beginning is consistent.
LEMMA GuardBegins == GuardInit => GuardConsistent
  BY DEF GuardInit, GuardConsistent, GuardTyped

\* A snapshot holds objects of ours, and all of them when it is complete.
LEMMA SnapshotHolds ==
  ASSUME NEW s \in Snapshots
  PROVE  /\ s.complete \in BOOLEAN
         /\ s.objects \subseteq GuardObjects
         /\ \A o \in s.objects : Owned(o)
         /\ s.complete => s.objects = {o \in GuardObjects : Owned(o)}
<1> DEFINE ours == {o \in GuardObjects : Owned(o)}
<1>1. ours \subseteq GuardObjects /\ \A o \in ours : Owned(o)
  OBVIOUS
<1>2. s = [complete |-> TRUE, objects |-> ours] \/ s \in [complete : {FALSE}, objects : SUBSET ours]
  BY DEF Snapshots
<1> HIDE DEF ours
<1>3. CASE s = [complete |-> TRUE, objects |-> ours]
  BY <1>1, <1>3 DEF ours
<1>4. CASE s \in [complete : {FALSE}, objects : SUBSET ours]
  <2>1. s.complete = FALSE /\ s.objects \subseteq ours
    BY <1>4
  <2> QED
    BY <1>1, <2>1
<1> QED
  BY <1>2, <1>3, <1>4

\* A complete snapshot without a block means that no block of ours is there.
LEMMA SnapshotClears ==
  ASSUME NEW s \in Snapshots, s.complete, ~HasOwnedBlock(s.objects)
  PROVE  NoBlocks
  BY ObjectsAssumption, SnapshotHolds DEF HasOwnedBlock, NoBlocks

\* Nothing that is not ours becomes ours.
LEMMA NothingBecomesOurs ==
  ASSUME GuardTyped, [GuardNext]_guardVars
  PROVE  \A o \in GuardObjects : Owned(o)' => Owned(o)
  BY DEF GuardTyped, Owned, GuardNext, guardVars, Status, Release, RemoveOne, Remove, ConfirmBlocks,
         NextKind, Terminate, RunAgain, OthersChange

\* Every step keeps the types.
LEMMA GuardTypes ==
  ASSUME GuardTyped, [GuardNext]_guardVars
  PROVE  GuardTyped'
<1> USE DEF GuardTyped
<1>1. CASE Status
  BY <1>1, SnapshotHolds DEF Status, HasOwnedBlock
<1>2. CASE Release
  <2>1. PICK s \in Snapshots : guard' = [guard EXCEPT !.pc = "blocks", !.ok = s.complete,
                                                     !.todo = {o \in s.objects : HasOwnedBlock({o})}]
    BY <1>2 DEF Release
  <2> QED
    BY <1>2, <2>1, SnapshotHolds DEF Release
<1>3. CASE RemoveOne
  BY <1>3, ZenonT(30) DEF RemoveOne, Remove
<1>4. CASE ConfirmBlocks
  <2>1. PICK s \in Snapshots :
          guard' = IF Confirmed(s) THEN [guard EXCEPT !.pc = "rest", !.todo = s.objects \ {o \in s.objects : HasOwnedBlock({o})}]
                   ELSE [guard EXCEPT !.pc = "done", !.success = FALSE, !.armed = ~s.complete \/ HasOwnedBlock(s.objects)]
    BY <1>4 DEF ConfirmBlocks
  <2>2. CASE Confirmed(s)
    BY <1>4, <2>1, <2>2, SnapshotHolds DEF ConfirmBlocks
  <2>3. CASE ~Confirmed(s)
    BY <1>4, <2>1, <2>3, SnapshotHolds DEF ConfirmBlocks, HasOwnedBlock
  <2> QED
    BY <2>2, <2>3
<1>5. CASE NextKind
  BY <1>5, SnapshotHolds DEF NextKind, HasOwnedBlock
<1>6. CASE Terminate
  BY <1>6 DEF Terminate
<1>7. CASE RunAgain
  BY <1>7 DEF RunAgain
<1>8. CASE OthersChange
  BY <1>8 DEF OthersChange
<1>9. CASE UNCHANGED guardVars
  BY <1>9 DEF guardVars
<1> QED
  BY <1>1, <1>2, <1>3, <1>4, <1>5, <1>6, <1>7, <1>8, <1>9 DEF GuardNext

\* Every step keeps the strengthening, whatever fails.
LEMMA GuardKeeps ==
  ASSUME GuardConsistent, [GuardNext]_guardVars
  PROVE  GuardConsistent'
<1>1. GuardTyped'
  BY GuardTypes DEF GuardConsistent
<1>2. \A o \in GuardObjects : Owned(o)' => Owned(o)
  BY NothingBecomesOurs DEF GuardConsistent
<1>3. NoBlocks => NoBlocks'
  BY <1>2 DEF NoBlocks
<1> USE DEF GuardConsistent
<1>4. CASE Status
  <2>1. PICK s \in Snapshots : guard' = [guard EXCEPT !.pc = "done", !.success = s.complete,
                                                     !.armed = ~s.complete \/ HasOwnedBlock(s.objects)]
    BY <1>4 DEF Status
  <2>2. guard'.pc = "done" /\ guard'.kind = "filter" /\ (guard'.armed <=> ~s.complete \/ HasOwnedBlock(s.objects))
    BY <1>4, <2>1 DEF Status, GuardTyped
  <2>3. ~guard'.armed => NoBlocks
    BY <2>2, SnapshotHolds, SnapshotClears
  <2> QED
    BY <1>1, <1>3, <1>4, <2>2, <2>3 DEF Status
<1>5. CASE Release
  <2>1. PICK s \in Snapshots : guard' = [guard EXCEPT !.pc = "blocks", !.ok = s.complete,
                                                     !.todo = {o \in s.objects : HasOwnedBlock({o})}]
    BY <1>5 DEF Release
  <2>2. guard'.pc = "blocks" /\ guard'.kind = "filter" /\ \A o \in guard'.todo : o.blocking
    BY <1>5, <2>1 DEF Release, GuardTyped, HasOwnedBlock
  <2> QED
    BY <1>1, <1>3, <1>5, <2>2 DEF Release
<1>6. CASE RemoveOne
  <2>1. PICK o \in guard.todo : (guard.pc = "rest" => o.kind = guard.kind) /\ Remove(o)
    BY <1>6 DEF RemoveOne
  <2>2. /\ guard'.pc = guard.pc /\ guard'.kind = guard.kind /\ guard'.todo = guard.todo \ {o}
        /\ guard'.ok => guard.ok
        /\ guard.pc \in {"blocks", "rest"}
    BY <1>6, <2>1 DEF RemoveOne, Remove, GuardTyped
  <2>3. guard'.ok => ~Owned(o)'
    BY <2>1, <2>2 DEF Remove, GuardTyped, Owned
  <2>4. /\ \A r \in removed' : r \in removed \/ r = [object |-> o, owner |-> "ours"]
        /\ o.blocking \/ guard.pc = "rest"
    BY <2>1, <2>2 DEF Remove, Owned
  <2>5. \A r \in removed' : r.owner = "ours"
    BY <2>4
  <2>6. (\E r \in removed' : ~r.object.blocking) => NoBlocks'
    BY <1>3, <2>4
  <2>7. guard'.pc = "rest" /\ guard'.ok => \A p \in GuardObjects : Owned(p)' => p \in guard'.todo
    BY <1>2, <2>2, <2>3
  <2> QED
    BY <1>1, <1>3, <2>2, <2>5, <2>6, <2>7
<1>7. CASE ConfirmBlocks
  <2>1. PICK s \in Snapshots :
          guard' = IF Confirmed(s) THEN [guard EXCEPT !.pc = "rest", !.todo = s.objects \ {o \in s.objects : HasOwnedBlock({o})}]
                   ELSE [guard EXCEPT !.pc = "done", !.success = FALSE, !.armed = ~s.complete \/ HasOwnedBlock(s.objects)]
    BY <1>7 DEF ConfirmBlocks
  <2>2. CASE Confirmed(s)
    <3>1. guard'.pc = "rest" /\ guard'.kind = "filter" /\ guard'.todo = s.objects \ {o \in s.objects : HasOwnedBlock({o})}
      BY <1>7, <2>1, <2>2 DEF ConfirmBlocks, GuardTyped
    <3>2. NoBlocks
      BY <2>2, SnapshotClears DEF Confirmed
    <3>3. \A o \in GuardObjects : Owned(o) => o \in guard'.todo
      BY <2>2, <3>1, SnapshotHolds DEF Confirmed, HasOwnedBlock
    <3> QED
      BY <1>1, <1>2, <1>3, <1>7, <3>1, <3>2, <3>3 DEF ConfirmBlocks
  <2>3. CASE ~Confirmed(s)
    <3>1. guard'.pc = "done" /\ ~guard'.success /\ (guard'.armed <=> ~s.complete \/ HasOwnedBlock(s.objects))
      BY <2>1, <2>3 DEF GuardTyped
    <3>2. ~guard'.armed => NoBlocks
      BY <3>1, SnapshotHolds, SnapshotClears
    <3> QED
      BY <1>1, <1>3, <1>7, <3>1, <3>2 DEF ConfirmBlocks
  <2> QED
    BY <2>2, <2>3
<1>8. CASE NextKind
  <2>1. CASE guard.kind = "filter" /\ guard' = [guard EXCEPT !.kind = "sublayer"]
    <3>1. /\ guard'.pc = "rest" /\ guard'.kind = "sublayer" /\ guard'.todo = guard.todo /\ guard'.ok = guard.ok
          /\ \A o \in guard'.todo : o.kind # "filter"
      BY <1>8, <2>1 DEF NextKind, GuardTyped
    <3> QED
      BY <1>1, <1>2, <1>3, <1>8, <3>1 DEF NextKind
  <2>2. CASE guard.kind = "sublayer" /\ guard' = [guard EXCEPT !.kind = "provider"]
    <3>1. /\ guard'.pc = "rest" /\ guard'.kind = "provider" /\ guard'.todo = guard.todo /\ guard'.ok = guard.ok
          /\ guard.todo \subseteq GuardObjects
          /\ \A o \in guard.todo : o.kind # "filter" /\ o.kind # "sublayer"
      BY <1>8, <2>2 DEF NextKind, GuardTyped
    <3>2. \A o \in guard'.todo : o.kind = "provider"
      BY <3>1, ObjectsAssumption
    <3> QED
      BY <1>1, <1>2, <1>3, <1>8, <3>1, <3>2 DEF NextKind
  <2>3. CASE guard.kind = "provider"
    <3>1. PICK s \in Snapshots :
            LET armed == ~s.complete \/ HasOwnedBlock(s.objects)
            IN  guard' = [guard EXCEPT !.pc = "done", !.armed = armed, !.success = guard.ok /\ s.complete /\ ~armed]
      BY <1>8, <2>3 DEF NextKind
    <3>2. guard'.pc = "done" /\ (guard'.success => guard.ok)
      BY <3>1 DEF GuardTyped
    <3>3. guard.ok => \A o \in GuardObjects : ~Owned(o)
      BY <1>8, <2>3 DEF NextKind
    <3> QED
      BY <1>1, <1>2, <1>3, <1>8, <3>2, <3>3 DEF NextKind
  <2> QED
    BY <1>8, <2>1, <2>2, <2>3 DEF NextKind
<1>9. CASE Terminate
  BY <1>1, <1>3, <1>9 DEF Terminate, GuardTyped
<1>10. CASE RunAgain
  BY <1>1, <1>3, <1>10 DEF RunAgain, GuardTyped
<1>11. CASE OthersChange
  BY <1>1, <1>2, <1>3, <1>11 DEF OthersChange
<1>12. CASE UNCHANGED guardVars
  BY <1>1, <1>2, <1>3, <1>12 DEF guardVars
<1> QED
  BY <1>4, <1>5, <1>6, <1>7, <1>8, <1>9, <1>10, <1>11, <1>12 DEF GuardNext

\* Wherever a cleanup fails, is cut short or is repeated, once it has removed anything but a block no
\* block of ours is left, it removes only what is ours, and its reports are true.
THEOREM CleanupNeverRestrictsHolds == GuardSpec => []CleanupNeverRestricts
<1>1. GuardConsistent => CleanupNeverRestricts
  BY DEF GuardConsistent, CleanupNeverRestricts, NoBlocks
<1> QED
  BY GuardBegins, GuardKeeps, <1>1, PTL DEF GuardSpec

-----------------------------------------------------------------------------
(* The tunnels and their tokens: WinTunnel.                                *)

Tokens == 1 .. TokenMod - 1

\* The steps of an object before it is marked active, while it holds its token, and all of them.
Unmarked == {"none", "session", "interface", "mark", "deinit"}
Marked == {"dns", "restrict", "dnsroutes", "ipv6", "routes", "block", "up"}
Steps == Unmarked \cup Marked \cup {"failed", "closed"}

\* The objects.
Objects == [st : Steps, adapter : BOOLEAN, session : BOOLEAN, token : 0 .. TokenMod - 1, dns : BOOLEAN,
            fw : SUBSET {"dns", "ipv6", "untunneled"}, routed : SUBSET {"dns", "v4", "v6"}]

\* The types of the objects and of the network manager's table.
WinTyped ==
    /\ tunnel \in [Tunnels -> Objects]
    /\ tokens \subseteq Tokens
    /\ nextToken \in Nat

\* A token that an object holds is in the table and held by no other object, and every entry of the
\* table is held.
TokensHeld ==
    /\ \A t \in Tunnels : tunnel[t].token # 0 =>
          /\ tunnel[t].token \in tokens
          /\ \A u \in Tunnels : tunnel[u].token = tunnel[t].token => u = t
    /\ \A k \in tokens : \E t \in Tunnels : tunnel[t].token = k

\* Routes exist only between MarkTunnelActive and ClearTunnelActive.
Sound(rec) ==
    /\ rec.routed # {} => rec.token # 0
    /\ rec.st \in Unmarked => rec.token = 0 /\ rec.routed = {}
    /\ rec.st \in Marked => rec.token # 0
    /\ rec.st = "closed" => rec.routed = {}

RoutesMarked == \A t \in Tunnels : Sound(tunnel[t])

SocketSafe == ~(wsock.result = "unbound" /\ wsock.captured)

\* The strengthening.
WinConsistent == WinTyped /\ TokensHeld /\ RoutesMarked /\ SocketSafe

\* The beginning is consistent.
LEMMA WinBegins ==
  ASSUME Init
  PROVE  WinConsistent
<1>1. 0 \in 0 .. TokenMod - 1
  BY FS_CardinalityType, TokensAssumption
<1>2. \A t \in Tunnels : tunnel[t] = NoTunnel
  BY DEF Init
<1>3. WinTyped
  BY <1>1 DEF Init, NoTunnel, WinTyped, Objects, Steps, Unmarked
<1>4. TokensHeld /\ RoutesMarked
  BY <1>2 DEF Init, NoTunnel, TokensHeld, RoutesMarked, Sound, Marked
<1>5. SocketSafe
  BY DEF Init, SocketSafe
<1> QED
  BY <1>3, <1>4, <1>5 DEF WinConsistent

\* A set of naturals that is not empty has a least element.
LEMMA LeastNatural ==
  ASSUME NEW S, S \subseteq Nat, S # {}
  PROVE  \E x \in S : \A y \in S : x <= y
<1>1. PICK x \in S : \A y \in S : ~(<<y, x>> \in OpToRel(<, Nat))
  BY NatLessThanWellFounded, WFMin
<1>2. \A y \in S : y < x => <<y, x>> \in OpToRel(<, Nat)
  BY DEF OpToRel
<1>3. \A y \in S : ~(y < x)
  BY <1>1, <1>2, Zenon
<1>4. \A y \in S : x <= y
  BY <1>3
<1> QED
  BY <1>4

\* A tunnel without a token finds one: there are more of them than other tunnels.
LEMMA TokenFree ==
  ASSUME WinTyped, TokensHeld, NEW t \in Tunnels, tunnel[t].token = 0
  PROVE  FreeTokens # {}
<1> SUFFICES ASSUME FreeTokens = {} PROVE FALSE
  OBVIOUS
<1> DEFINE others == Tunnels \ {t}
           holder == [k \in Tokens |-> CHOOSE u \in others : tunnel[u].token = k]
<1>1. Tokens \subseteq tokens
  BY TokensAssumption DEF FreeTokens, Tokens
<1>2. \A k \in Tokens : \E u \in others : tunnel[u].token = k
  BY <1>1 DEF TokensHeld, Tokens
<1>3. \A k \in Tokens : holder[k] \in others /\ tunnel[holder[k]].token = k
  BY <1>2
<1>4. holder \in [Tokens -> others]
  BY <1>3
<1> HIDE DEF holder
<1>5. IsFiniteSet(others) /\ Cardinality(others) = Cardinality(Tunnels) - 1
  BY FS_RemoveElement, TokensAssumption
<1>6. Cardinality(Tunnels) \in Nat
  BY FS_CardinalityType, TokensAssumption
<1>7. IsFiniteSet(Tokens) /\ Cardinality(Tokens) = TokenMod - 1
  <2>1. 1 \in Int /\ TokenMod - 1 \in Int /\ TokenMod - 1 >= 0
    BY <1>6, TokensAssumption
  <2>2. IsFiniteSet(1 .. TokenMod - 1) /\ Cardinality(1 .. TokenMod - 1) = IF 1 > TokenMod - 1 THEN 0 ELSE TokenMod - 1 - 1 + 1
    BY <2>1, FS_Interval
  <2> QED
    BY <2>1, <2>2 DEF Tokens
<1>8. Cardinality(others) < Cardinality(Tokens)
  BY <1>5, <1>6, <1>7, TokensAssumption
<1> HIDE DEF others
<1>9. \E x, y \in Tokens : x # y /\ holder[x] = holder[y]
  BY <1>4, <1>5, <1>7, <1>8, FS_PigeonHole
<1> QED
  BY <1>3, <1>9

\* The token that a tunnel acquires is valid and nobody's.
LEMMA AcquiredIsFree ==
  ASSUME WinTyped, TokensHeld, NEW t \in Tunnels, tunnel[t].token = 0
  PROVE  AcquiredToken \in Tokens /\ AcquiredToken \notin tokens
<1> DEFINE Distance(k) == (k + TokenMod - nextToken) % TokenMod
           distances == {Distance(k) : k \in FreeTokens}
<1>1. FreeTokens # {}
  BY TokenFree
<1>2. TokenMod \in Nat /\ TokenMod > 0
  BY FS_CardinalityType, TokensAssumption
<1>3. FreeTokens \subseteq Nat
  BY <1>2 DEF FreeTokens
<1>4. \A k \in FreeTokens : Distance(k) \in Nat
  BY <1>2, <1>3 DEF WinTyped
<1>5. distances \subseteq Nat /\ distances # {}
  BY <1>1, <1>4
<1>6. PICK d \in distances : \A e \in distances : d <= e
  BY <1>5, LeastNatural
<1>7. \E k \in FreeTokens : \A j \in FreeTokens : Distance(k) <= Distance(j)
  BY <1>6
<1>8. AcquiredToken \in FreeTokens
  BY <1>7 DEF AcquiredToken
<1> QED
  BY <1>2, <1>8 DEF FreeTokens, Tokens

\* A step of one object that leaves the table alone keeps the strengthening when the object keeps its
\* token and has routes only with it.
LEMMA QuietStep ==
  ASSUME WinConsistent, NEW t \in Tunnels, NEW rec \in Objects, Then(t, rec), Settled,
         rec.token = tunnel[t].token, Sound(rec)
  PROVE  WinConsistent'
<1>1. /\ tunnel' \in [Tunnels -> Objects]
      /\ \A u \in Tunnels : tunnel'[u] = IF u = t THEN rec ELSE tunnel[u]
  BY DEF WinConsistent, WinTyped, Then
<1>2. \A u \in Tunnels : tunnel'[u].token = tunnel[u].token
  BY <1>1
<1>3. tokens' = tokens /\ nextToken' = nextToken /\ wsock' = wsock
  BY DEF Settled
<1>4. WinTyped'
  BY <1>1, <1>3 DEF WinConsistent, WinTyped
<1>5. TokensHeld'
  BY <1>2, <1>3 DEF WinConsistent, TokensHeld
<1>6. RoutesMarked'
  BY <1>1 DEF WinConsistent, RoutesMarked
<1>7. SocketSafe'
  BY <1>3 DEF WinConsistent, SocketSafe
<1> QED
  BY <1>4, <1>5, <1>6, <1>7 DEF WinConsistent

\* A failing step of init leaves the object as it is, with what it has set up so far.
LEMMA FailingStep ==
  ASSUME WinConsistent, NEW t \in Tunnels, NEW more \in SUBSET {"dns", "v4", "v6"},
         more # {} => tunnel[t].token # 0,
         Then(t, [tunnel[t] EXCEPT !.st = "failed", !.routed = @ \cup more]), Settled
  PROVE  WinConsistent'
<1> DEFINE rec == [tunnel[t] EXCEPT !.st = "failed", !.routed = @ \cup more]
<1>1. tunnel[t] \in Objects /\ Sound(tunnel[t])
  BY DEF WinConsistent, WinTyped, RoutesMarked
<1>2. /\ rec \in Objects /\ rec.token = tunnel[t].token
      /\ rec.st = "failed" /\ rec.routed = tunnel[t].routed \cup more
  BY <1>1 DEF Objects, Steps
<1>3. Sound(rec)
  BY <1>1, <1>2 DEF Sound, Unmarked, Marked
<1> QED
  BY <1>2, <1>3, QuietStep

\* Fails(t) is such a step without new routes.
LEMMA FailsStep ==
  ASSUME WinConsistent, NEW t \in Tunnels, Fails(t), Settled
  PROVE  WinConsistent'
<1> DEFINE rec == [tunnel[t] EXCEPT !.st = "failed"]
<1>1. tunnel[t] \in Objects /\ Sound(tunnel[t])
  BY DEF WinConsistent, WinTyped, RoutesMarked
<1>2. rec \in Objects /\ rec.token = tunnel[t].token /\ rec.st = "failed" /\ rec.routed = tunnel[t].routed
  BY <1>1 DEF Objects, Steps
<1>3. Sound(rec)
  BY <1>1, <1>2 DEF Sound, Unmarked, Marked
<1> QED
  BY <1>2, <1>3, QuietStep DEF Fails

\* A step of a tunnel that is marked active leads to another one, whatever it sets up.
LEMMA MarkedStep ==
  ASSUME WinConsistent, NEW t \in Tunnels, NEW rec \in Objects, Then(t, rec), Settled,
         rec.token = tunnel[t].token, rec.st \in Marked, tunnel[t].st \in Marked
  PROVE  WinConsistent'
<1>1. rec.token # 0
  BY DEF WinConsistent, RoutesMarked, Sound
<1>2. Sound(rec)
  BY <1>1 DEF Sound, Marked, Unmarked
<1> QED
  BY <1>2, QuietStep

\* The steps of init before the mark.
LEMMA EarlySteps ==
  ASSUME WinConsistent, NEW t \in Tunnels, 0 \in 0 .. TokenMod - 1,
         CreateAdapter(t) \/ CreateSession(t) \/ SetupInterface(t)
  PROVE  WinConsistent'
<1>1. tunnel[t] \in Objects /\ Sound(tunnel[t])
  BY DEF WinConsistent, WinTyped, RoutesMarked
<1>2. CASE CreateAdapter(t)
  <2>1. PICK rec \in {[NoTunnel EXCEPT !.st = "session", !.adapter = TRUE], [NoTunnel EXCEPT !.st = "failed"]} : Then(t, rec)
    BY <1>2 DEF CreateAdapter
  <2>2. rec \in Objects /\ rec.token = 0 /\ rec.routed = {} /\ rec.st \in {"session", "failed"}
    BY <2>1 DEF NoTunnel, Objects, Steps, Unmarked
  <2>3. tunnel[t].token = 0
    BY <1>1, <1>2 DEF CreateAdapter, At, Sound, Unmarked
  <2>4. Sound(rec)
    BY <2>2 DEF Sound, Unmarked, Marked
  <2> QED
    BY <1>2, <2>1, <2>2, <2>3, <2>4, QuietStep DEF CreateAdapter
<1>3. CASE CreateSession(t) /\ ~Fails(t)
  <2> DEFINE rec == [tunnel[t] EXCEPT !.st = "interface", !.session = TRUE]
  <2>1. Then(t, rec) /\ Settled /\ tunnel[t].st = "session"
    BY <1>3 DEF CreateSession, At
  <2>2. rec \in Objects /\ rec.token = tunnel[t].token /\ rec.routed = tunnel[t].routed /\ rec.st = "interface"
    BY <1>1 DEF Objects, Steps, Unmarked
  <2>3. Sound(rec)
    BY <1>1, <2>1, <2>2 DEF Sound, Unmarked, Marked
  <2> QED
    BY <2>1, <2>2, <2>3, QuietStep
<1>4. CASE SetupInterface(t) /\ ~Fails(t)
  <2> DEFINE rec == [tunnel[t] EXCEPT !.st = "mark"]
  <2>1. Then(t, rec) /\ Settled /\ tunnel[t].st = "interface"
    BY <1>4 DEF SetupInterface, At
  <2>2. rec \in Objects /\ rec.token = tunnel[t].token /\ rec.routed = tunnel[t].routed /\ rec.st = "mark"
    BY <1>1 DEF Objects, Steps, Unmarked
  <2>3. Sound(rec)
    BY <1>1, <2>1, <2>2 DEF Sound, Unmarked, Marked
  <2> QED
    BY <2>1, <2>2, <2>3, QuietStep
<1>5. CASE Fails(t) /\ (CreateSession(t) \/ SetupInterface(t))
  BY <1>5, FailsStep DEF CreateSession, SetupInterface
<1> QED
  BY <1>2, <1>3, <1>4, <1>5

\* The tunnel is marked active: its token is new.
LEMMA MarkStep ==
  ASSUME WinConsistent, NEW t \in Tunnels, MarkTunnelActive(t)
  PROVE  WinConsistent'
<1> DEFINE k == AcquiredToken
           rec == [tunnel[t] EXCEPT !.st = "dns", !.token = k]
<1>1. tunnel[t] \in Objects /\ tunnel[t].token = 0 /\ tunnel[t].st = "mark"
  BY DEF WinConsistent, WinTyped, RoutesMarked, Sound, MarkTunnelActive, At, Unmarked
<1>2. k \in Tokens /\ k \notin tokens
  BY <1>1, AcquiredIsFree DEF WinConsistent
<1>3. /\ tunnel' = [tunnel EXCEPT ![t] = rec]
      /\ tokens' = tokens \cup {k} /\ nextToken' = (k + 1) % TokenMod /\ wsock' = wsock
  BY DEF MarkTunnelActive, Then
<1> HIDE DEF k
<1>4. k \in Nat /\ k # 0 /\ k \in 0 .. TokenMod - 1 /\ TokenMod \in Nat /\ TokenMod > 0
  BY <1>2, FS_CardinalityType, TokensAssumption DEF Tokens
<1>5. rec \in Objects /\ rec.token = k /\ rec.st = "dns"
  BY <1>1, <1>4 DEF Objects, Steps, Marked
<1>6. Sound(rec)
  BY <1>4, <1>5 DEF Sound, Unmarked, Marked
<1> HIDE DEF rec
<1>7. /\ tunnel' \in [Tunnels -> Objects]
      /\ \A u \in Tunnels : tunnel'[u] = IF u = t THEN rec ELSE tunnel[u]
  BY <1>3, <1>5 DEF WinConsistent, WinTyped
<1>8. (k + 1) % TokenMod \in Nat
  BY <1>4
<1>9. WinTyped'
  BY <1>2, <1>3, <1>7, <1>8 DEF WinConsistent, WinTyped
<1>10. TokensHeld'
  <2>1. \A u \in Tunnels : u # t => tunnel'[u].token = tunnel[u].token /\ (tunnel[u].token # 0 => tunnel[u].token # k)
    BY <1>2, <1>7 DEF WinConsistent, TokensHeld
  <2>2. tunnel'[t].token = k
    BY <1>5, <1>7
  <2>3. \A u \in Tunnels : tunnel'[u].token # 0 =>
          /\ tunnel'[u].token \in tokens'
          /\ \A v \in Tunnels : tunnel'[v].token = tunnel'[u].token => v = u
    BY <1>3, <1>4, <2>1, <2>2 DEF WinConsistent, TokensHeld
  <2>4. \A j \in tokens' : \E u \in Tunnels : tunnel'[u].token = j
    <3> SUFFICES ASSUME NEW j \in tokens' PROVE \E u \in Tunnels : tunnel'[u].token = j
      OBVIOUS
    <3>1. CASE j = k
      BY <2>2, <3>1
    <3>2. CASE j \in tokens
      <4>1. PICK u \in Tunnels : tunnel[u].token = j
        BY <3>2 DEF WinConsistent, TokensHeld
      <4>2. j # 0
        BY <3>2 DEF WinConsistent, WinTyped, Tokens
      <4> QED
        BY <1>1, <2>1, <4>1, <4>2
    <3> QED
      BY <1>3, <3>1, <3>2
  <2> QED
    BY <2>3, <2>4 DEF TokensHeld
<1>11. RoutesMarked'
  BY <1>6, <1>7 DEF WinConsistent, RoutesMarked
<1>12. SocketSafe'
  BY <1>3 DEF WinConsistent, SocketSafe
<1> QED
  BY <1>9, <1>10, <1>11, <1>12 DEF WinConsistent

\* The steps of init after the mark.
LEMMA LateSteps ==
  ASSUME WinConsistent, NEW t \in Tunnels,
         \/ SetDnsServers(t) \/ RestrictDns(t) \/ AddDnsRoutes(t) \/ BlockIpv6(t) \/ SetupRoutes(t)
         \/ BlockUntunneled(t)
  PROVE  WinConsistent'
<1>1. tunnel[t] \in Objects /\ Sound(tunnel[t])
  BY DEF WinConsistent, WinTyped, RoutesMarked
<1>2. Settled /\ tunnel[t].st \in Marked
  BY DEF SetDnsServers, RestrictDns, AddDnsRoutes, BlockIpv6, SetupRoutes, BlockUntunneled, At, Marked
<1>3. tunnel[t].token # 0
  BY <1>1, <1>2 DEF Sound
<1>4. CASE Fails(t)
  BY <1>2, <1>4, FailsStep
<1>5. CASE SetDnsServers(t) /\ ~Fails(t)
  <2> DEFINE rec == [tunnel[t] EXCEPT !.st = "restrict", !.dns = TRUE]
  <2>1. rec \in Objects /\ rec.token = tunnel[t].token /\ rec.st \in Marked
    BY <1>1 DEF Objects, Steps, Marked
  <2> QED
    BY <1>2, <1>5, <2>1, MarkedStep DEF SetDnsServers
<1>6. CASE RestrictDns(t) /\ ~Fails(t)
  <2> DEFINE rec == [tunnel[t] EXCEPT !.st = "dnsroutes", !.fw = @ \cup {"dns"}]
  <2>1. rec \in Objects /\ rec.token = tunnel[t].token /\ rec.st \in Marked
    BY <1>1 DEF Objects, Steps, Marked
  <2> QED
    BY <1>2, <1>6, <2>1, MarkedStep DEF RestrictDns
<1>7. CASE AddDnsRoutes(t)
  <2>1. CASE Then(t, [tunnel[t] EXCEPT !.st = "ipv6", !.routed = @ \cup {"dns"}])
    <3> DEFINE rec == [tunnel[t] EXCEPT !.st = "ipv6", !.routed = @ \cup {"dns"}]
    <3>1. rec \in Objects /\ rec.token = tunnel[t].token /\ rec.st \in Marked
      BY <1>1 DEF Objects, Steps, Marked
    <3> QED
      BY <1>2, <2>1, <3>1, MarkedStep
  <2>2. CASE \E added \in SUBSET {"dns"} : Then(t, [tunnel[t] EXCEPT !.st = "failed", !.routed = @ \cup added])
    <3>1. PICK added \in SUBSET {"dns"} : Then(t, [tunnel[t] EXCEPT !.st = "failed", !.routed = @ \cup added])
      BY <2>2
    <3>2. added \in SUBSET {"dns", "v4", "v6"}
      OBVIOUS
    <3> QED
      BY <1>2, <1>3, <3>1, <3>2, FailingStep
  <2> QED
    BY <1>7, <2>1, <2>2 DEF AddDnsRoutes
<1>8. CASE BlockIpv6(t) /\ ~Fails(t)
  <2>1. PICK block \in SUBSET {"ipv6"} : Then(t, [tunnel[t] EXCEPT !.st = "routes", !.fw = @ \cup block])
    BY <1>8 DEF BlockIpv6
  <2> DEFINE rec == [tunnel[t] EXCEPT !.st = "routes", !.fw = @ \cup block]
  <2>2. rec \in Objects /\ rec.token = tunnel[t].token /\ rec.st \in Marked
    BY <1>1 DEF Objects, Steps, Marked
  <2> QED
    BY <1>2, <2>1, <2>2, MarkedStep
<1>9. CASE SetupRoutes(t)
  <2>1. CASE Then(t, [tunnel[t] EXCEPT !.st = "block", !.routed = @ \cup {"v4", "v6"}])
    <3> DEFINE rec == [tunnel[t] EXCEPT !.st = "block", !.routed = @ \cup {"v4", "v6"}]
    <3>1. rec \in Objects /\ rec.token = tunnel[t].token /\ rec.st \in Marked
      BY <1>1 DEF Objects, Steps, Marked
    <3> QED
      BY <1>2, <2>1, <3>1, MarkedStep
  <2>2. CASE \E added \in {{}, {"v4"}, {"v4", "v6"}} :
                Then(t, [tunnel[t] EXCEPT !.st = "failed", !.routed = @ \cup added])
    <3>1. PICK added \in {{}, {"v4"}, {"v4", "v6"}} :
                Then(t, [tunnel[t] EXCEPT !.st = "failed", !.routed = @ \cup added])
      BY <2>2
    <3>2. added \in SUBSET {"dns", "v4", "v6"}
      OBVIOUS
    <3> QED
      BY <1>2, <1>3, <3>1, <3>2, FailingStep
  <2> QED
    BY <1>9, <2>1, <2>2 DEF SetupRoutes
<1>10. CASE BlockUntunneled(t) /\ ~Fails(t)
  <2>1. PICK block \in SUBSET {"untunneled"} : Then(t, [tunnel[t] EXCEPT !.st = "up", !.fw = @ \cup block])
    BY <1>10 DEF BlockUntunneled
  <2> DEFINE rec == [tunnel[t] EXCEPT !.st = "up", !.fw = @ \cup block]
  <2>2. rec \in Objects /\ rec.token = tunnel[t].token /\ rec.st \in Marked
    BY <1>1 DEF Objects, Steps, Marked
  <2> QED
    BY <1>2, <2>1, <2>2, MarkedStep
<1> QED
  BY <1>4, <1>5, <1>6, <1>7, <1>8, <1>9, <1>10

\* The end of a tunnel: the routes go before the token, which nobody else holds.
LEMMA EndSteps ==
  ASSUME WinConsistent, NEW t \in Tunnels, 0 \in 0 .. TokenMod - 1,
         CloseWintun(t) \/ ClearTunnelActive(t) \/ Destroy(t)
  PROVE  WinConsistent'
<1>1. tunnel[t] \in Objects /\ Sound(tunnel[t])
  BY DEF WinConsistent, WinTyped, RoutesMarked
<1>2. CASE CloseWintun(t)
  <2> DEFINE rec == [tunnel[t] EXCEPT !.st = "closed", !.adapter = FALSE, !.session = FALSE, !.dns = FALSE, !.routed = {}]
  <2>1. rec \in Objects /\ rec.token = tunnel[t].token /\ rec.st = "closed" /\ rec.routed = {}
    BY <1>1 DEF Objects, Steps
  <2>2. Sound(rec)
    BY <2>1 DEF Sound, Unmarked, Marked
  <2> QED
    BY <1>2, <2>1, <2>2, QuietStep DEF CloseWintun
<1>3. CASE ClearTunnelActive(t)
  <2> DEFINE rec == [tunnel[t] EXCEPT !.st = "deinit", !.token = 0]
  <2>1. /\ tunnel[t].st = "closed"
        /\ tunnel' = [tunnel EXCEPT ![t] = rec]
        /\ tokens' = tokens \ {tunnel[t].token} /\ nextToken' = nextToken /\ wsock' = wsock
    BY <1>3 DEF ClearTunnelActive, ReleasedTokens, Then, At
  <2>2. rec \in Objects /\ rec.token = 0 /\ rec.st = "deinit" /\ rec.routed = {}
    BY <1>1, <2>1 DEF Objects, Steps, Unmarked, Sound
  <2>3. Sound(rec)
    BY <2>2 DEF Sound, Unmarked, Marked
  <2> HIDE DEF rec
  <2>4. /\ tunnel' \in [Tunnels -> Objects]
        /\ \A u \in Tunnels : tunnel'[u] = IF u = t THEN rec ELSE tunnel[u]
    BY <2>1, <2>2 DEF WinConsistent, WinTyped
  <2>5. WinTyped'
    BY <2>1, <2>4 DEF WinConsistent, WinTyped
  <2>6. TokensHeld'
    <3>1. /\ tunnel'[t].token = 0
          /\ \A u \in Tunnels : u # t => tunnel'[u].token = tunnel[u].token
      BY <2>2, <2>4
    <3>2. \A u \in Tunnels : tunnel'[u].token # 0 =>
            /\ tunnel'[u].token \in tokens'
            /\ \A v \in Tunnels : tunnel'[v].token = tunnel'[u].token => v = u
      BY <2>1, <3>1 DEF WinConsistent, TokensHeld
    <3>3. \A j \in tokens' : \E u \in Tunnels : tunnel'[u].token = j
      BY <2>1, <3>1 DEF WinConsistent, TokensHeld
    <3> QED
      BY <3>2, <3>3 DEF TokensHeld
  <2>7. RoutesMarked'
    BY <2>3, <2>4 DEF WinConsistent, RoutesMarked
  <2>8. SocketSafe'
    BY <2>1 DEF WinConsistent, SocketSafe
  <2> QED
    BY <2>5, <2>6, <2>7, <2>8 DEF WinConsistent
<1>4. CASE Destroy(t)
  <2>1. NoTunnel \in Objects /\ NoTunnel.token = 0 /\ Sound(NoTunnel)
    BY DEF NoTunnel, Objects, Steps, Sound, Unmarked, Marked
  <2>2. tunnel[t].token = 0
    BY <1>1, <1>4 DEF Destroy, At, Sound, Unmarked
  <2> QED
    BY <1>4, <2>1, <2>2, QuietStep DEF Destroy
<1> QED
  BY <1>2, <1>3, <1>4

\* A socket that stays unbound finds no tunnel active, and so no route into one.
LEMMA ProtectStep ==
  ASSUME WinConsistent, ProtectSocket
  PROVE  WinConsistent'
<1>1. Captures => tokens # {}
  BY DEF Captures, WinConsistent, TokensHeld, RoutesMarked, Sound
<1>2. wsock'.result = "unbound" => ~TunnelActive
  BY DEF ProtectSocket
<1>3. wsock'.captured <=> Captures
  BY DEF ProtectSocket, Captures
<1>4. SocketSafe'
  BY <1>1, <1>2, <1>3 DEF SocketSafe, TunnelActive
<1> QED
  BY <1>4 DEF ProtectSocket, WinConsistent, WinTyped, TokensHeld, RoutesMarked

\* Every step keeps the strengthening, whichever tunnel makes it.
LEMMA WinKeeps ==
  ASSUME WinConsistent, [Next]_winVars
  PROVE  WinConsistent'
<1>1. 0 \in 0 .. TokenMod - 1
  BY FS_CardinalityType, TokensAssumption
<1>2. CASE SetOutboundInterface
  BY <1>2 DEF SetOutboundInterface, WinConsistent, WinTyped, TokensHeld, RoutesMarked, SocketSafe
<1>3. CASE UNCHANGED winVars
  BY <1>3 DEF winVars, WinConsistent, WinTyped, TokensHeld, RoutesMarked, SocketSafe
<1> QED
  BY <1>1, <1>2, <1>3, EarlySteps, MarkStep, LateSteps, EndSteps, ProtectStep DEF Next

\* No socket of the endpoint's connection is left unbound while a route leads into any tunnel, and no
\* token outlives its tunnel, for any number of tunnels below the range of the counter.
THEOREM UnboundNeverCapturedHolds == Spec => []UnboundNeverCaptured
<1>1. WinConsistent => UnboundNeverCaptured
  BY DEF WinConsistent, SocketSafe, TokensHeld, UnboundNeverCaptured
<1> QED
  BY WinBegins, WinKeeps, <1>1, PTL DEF Spec

-----------------------------------------------------------------------------
(* The owners of a client: ClientApp.                                      *)

\* Where the thread of the owner is: before there is a Vpn, with one, while it disconnects, and after.
BeforeOpen == {"idle", "monitor", "dns", "open"}
WithVpn == {"connect", "listener", "listen", "run", "drowsy", "asleep", "disconnect"}
AppPlaces == BeforeOpen \cup WithVpn \cup {"stop", "drain", "close", "deinit", "unmonitor", "end"}

AppThread ==
    [owner : Owners, pc : AppPlaces, n : Nat, keep : BOOLEAN, old : Nat, failed : BOOLEAN,
     status : {"stopped", "start_pending", "running", "stop_pending"}]
TheClient ==
    [st : {"none", "made"}, vpn : Nat, loop : {"off", "starting", "on"}, tasks : Seq(Nat), running : BOOLEAN,
     tunnel : BOOLEAN, undrained : BOOLEAN]
TheCore == [open : SUBSET Nat, loop : BOOLEAN, listening : BOOLEAN, requests : Nat]

\* What the place pc of an owner says of the Vpn it opened as number n, of the one it is about to close,
\* of the pointer that the client has, and of the tasks of the extra loop, which hold that Vpn until it is
\* drained; only a thread of the Vpn that runs (loop) adds to them.
Phase(pc, easy, n, old, vpn, open, loop, tun, tasks, undrained) ==
    /\ pc \in BeforeOpen => open = {} /\ ~loop /\ ~tun /\ tasks = <<>>
    /\ pc \in WithVpn \/ (pc = "unmonitor" /\ ~easy) => open = {n} /\ vpn = n /\ tasks \in Seq({0, n})
    /\ pc \in {"stop", "drain"} => open = {n} /\ old = n /\ vpn = 0 /\ tasks \in Seq({0, n})
    /\ pc \in {"drain", "close"} => ~loop
    /\ pc = "close" => open = {n} /\ old = n /\ (undrained \/ tasks = <<>>)
    /\ pc \in {"deinit", "end"} \/ (pc = "unmonitor" /\ easy) => open = {} /\ ~loop /\ (undrained \/ tasks = <<>>)
    /\ pc = "end" \/ (pc = "unmonitor" /\ easy) => ~tun

PhaseOf(a, k, o) == Phase(a.pc, a.owner = "easy", a.n, a.old, k.vpn, o.open, o.loop, k.tunnel, k.tasks, k.undrained)

ClientOK ==
    /\ app \in AppThread /\ cli \in TheClient /\ core \in TheCore
    /\ cli.running => cli.tasks # <<>>
    /\ app.pc # "idle" => app.n # 0
    /\ PhaseOf(app, cli, core)

LEMMA NewClientFields ==
  LET N == Client!NoClient IN
  N \in TheClient /\ N.vpn = 0 /\ N.tasks = <<>> /\ N.running = FALSE /\ N.tunnel = FALSE /\ N.undrained = FALSE
<1>1. 0 \in Nat /\ <<>> \in Seq(Nat)
  BY SMT
<1> QED BY <1>1, Zenon DEF Client!NoClient, TheClient

\* A step of the owner alone from one place to another, of which its phase says the same.
LEMMA ClientMoves ==
  ASSUME ClientOK, NEW p \in AppPlaces, p # "idle", app.pc # "idle", app' \in AppThread, app'.pc = p,
         app'.owner = app.owner, app'.n = app.n, app'.old = app.old, cli' = cli, core' = core,
         Phase(p, app.owner = "easy", app.n, app.old, cli.vpn, core.open, core.loop, cli.tunnel, cli.tasks, cli.undrained)
  PROVE  ClientOK'
<1>1. PhaseOf(app', cli', core')
  BY Zenon DEF PhaseOf
<1> QED BY <1>1, Zenon DEF ClientOK

LEMMA AppGoesFields ==
  ASSUME app \in AppThread, NEW from, NEW to \in AppPlaces, Client!AppGoes(from, to) \/ Client!AppFails(from, to)
  PROVE  /\ app' \in AppThread /\ app'.pc = to /\ app.pc = from /\ app'.owner = app.owner /\ app'.n = app.n
         /\ app'.old = app.old
<1>1. CASE Client!AppGoes(from, to)
  BY <1>1, Zenon DEF Client!AppGoes, AppThread
<1>2. CASE Client!AppFails(from, to)
  BY <1>2, Zenon DEF Client!AppFails, AppThread
<1> QED BY <1>1, <1>2, Zenon

\* Between places with a Vpn, and between places without one, nothing changes.
LEMMA SamePhase ==
  ASSUME NEW p, NEW q, NEW easy \in BOOLEAN, NEW n, NEW old, NEW vpn, NEW open, NEW loop, NEW tun, NEW tasks, NEW und,
         Phase(p, easy, n, old, vpn, open, loop, tun, tasks, und),
         \/ p \in BeforeOpen /\ q \in BeforeOpen \cup {"end"}
         \/ (p \in WithVpn \/ (p = "unmonitor" /\ ~easy)) /\ (q \in WithVpn \/ (q = "unmonitor" /\ ~easy))
         \/ p = "unmonitor" /\ easy /\ q = "end"
  PROVE  Phase(q, easy, n, old, vpn, open, loop, tun, tasks, und)
BY SMT DEF Phase, BeforeOpen, WithVpn

LEMMA ClientQuietSteps ==
  ASSUME ClientOK,
         \/ Client!StartMonitor \/ Client!SetSystemDns \/ Client!ConnectToServer \/ Client!CheckKeepRunning
         \/ Client!FallAsleep \/ Client!EasyStop \/ Client!StopMonitor
  PROVE  ClientOK'
<1> DEFINE easy == app.owner = "easy"
           Moves(p, q) == Client!AppGoes(p, q) \/ Client!AppFails(p, q)
<1>1. /\ cli' = cli /\ core' = core
      /\ \/ Moves("monitor", "open") \/ Moves("monitor", "dns") \/ Moves("monitor", "end")
         \/ Moves("dns", "open") \/ Moves("dns", "end") \/ Moves("connect", "listener") \/ Moves("connect", "disconnect")
         \/ ~easy /\ (Moves("run", "drowsy") \/ Moves("run", "unmonitor"))
         \/ Moves("drowsy", "asleep") \/ Moves("run", "disconnect")
         \/ easy /\ Moves("unmonitor", "end")
         \/ ~easy /\ Moves("unmonitor", "disconnect")
  BY Zenon DEF Client!StartMonitor, Client!SetSystemDns, Client!ConnectToServer, Client!CheckKeepRunning,
     Client!FallAsleep, Client!EasyStop, Client!StopMonitor
<1>2. PICK p \in AppPlaces, q \in AppPlaces :
         /\ Moves(p, q) /\ p # "idle" /\ q # "idle"
         /\ \/ p \in BeforeOpen /\ q \in BeforeOpen \cup {"end"}
            \/ (p \in WithVpn \/ (p = "unmonitor" /\ ~easy)) /\ (q \in WithVpn \/ (q = "unmonitor" /\ ~easy))
            \/ p = "unmonitor" /\ easy /\ q = "end"
  <2> HIDE DEF Moves, easy
  <2> QED BY <1>1, SMT DEF AppPlaces, BeforeOpen, WithVpn
<1>3. /\ app' \in AppThread /\ app'.pc = q /\ app.pc = p /\ app'.owner = app.owner /\ app'.n = app.n
      /\ app'.old = app.old
  BY <1>2, AppGoesFields, Zenon DEF ClientOK
<1>4. Phase(p, easy, app.n, app.old, cli.vpn, core.open, core.loop, cli.tunnel, cli.tasks, cli.undrained)
  BY <1>3, Zenon DEF ClientOK, PhaseOf
<1>5. Phase(q, easy, app.n, app.old, cli.vpn, core.open, core.loop, cli.tunnel, cli.tasks, cli.undrained)
  <2>1. easy \in BOOLEAN
    BY Zenon
  <2> HIDE DEF easy
  <2> QED BY <1>2, <1>4, <2>1, SamePhase, ZenonT(30)
<1> QED BY <1>1, <1>2, <1>3, <1>5, ClientMoves, Zenon

\* What it takes to be in a place.
LEMMA PhaseBefore ==
  ASSUME NEW p \in BeforeOpen, NEW easy \in BOOLEAN, NEW n, NEW old, NEW vpn, NEW open, NEW loop, NEW tun, NEW tasks, NEW und,
         open = {}, ~loop, ~tun, tasks = <<>>
  PROVE  Phase(p, easy, n, old, vpn, open, loop, tun, tasks, und)
BY SMT DEF Phase, BeforeOpen, WithVpn

LEMMA PhaseWith ==
  ASSUME NEW p \in WithVpn, NEW easy \in BOOLEAN, NEW n, NEW old, NEW vpn, NEW open, NEW loop, NEW tun, NEW tasks, NEW und,
         open = {n}, vpn = n, tasks \in Seq({0, n})
  PROVE  Phase(p, easy, n, old, vpn, open, loop, tun, tasks, und)
BY SMT DEF Phase, BeforeOpen, WithVpn

LEMMA PhaseStop ==
  ASSUME NEW easy \in BOOLEAN, NEW n, NEW old, NEW vpn, NEW open, NEW loop, NEW tun, NEW tasks, NEW und,
         open = {n}, old = n, vpn = 0, tasks \in Seq({0, n})
  PROVE  Phase("stop", easy, n, old, vpn, open, loop, tun, tasks, und)
BY SMT DEF Phase, BeforeOpen, WithVpn

LEMMA PhaseDrain ==
  ASSUME NEW easy \in BOOLEAN, NEW n, NEW old, NEW vpn, NEW open, NEW loop, NEW tun, NEW tasks, NEW und,
         open = {n}, old = n, vpn = 0, tasks \in Seq({0, n}), ~loop
  PROVE  Phase("drain", easy, n, old, vpn, open, loop, tun, tasks, und)
BY SMT DEF Phase, BeforeOpen, WithVpn

LEMMA PhaseClose ==
  ASSUME NEW easy \in BOOLEAN, NEW n, NEW old, NEW vpn, NEW open, NEW loop, NEW tun, NEW tasks, NEW und,
         open = {n}, old = n, ~loop, und \/ tasks = <<>>
  PROVE  Phase("close", easy, n, old, vpn, open, loop, tun, tasks, und)
BY SMT DEF Phase, BeforeOpen, WithVpn

LEMMA PhaseDeinit ==
  ASSUME NEW easy \in BOOLEAN, NEW n, NEW old, NEW vpn, NEW open, NEW loop, NEW tun, NEW tasks, NEW und,
         open = {}, ~loop, und \/ tasks = <<>>
  PROVE  Phase("deinit", easy, n, old, vpn, open, loop, tun, tasks, und)
BY SMT DEF Phase, BeforeOpen, WithVpn

LEMMA PhaseOver ==
  ASSUME NEW p, NEW easy \in BOOLEAN, p = "end" \/ (p = "unmonitor" /\ easy), NEW n, NEW old, NEW vpn, NEW open, NEW loop, NEW tun, NEW tasks, NEW und,
         open = {}, ~loop, ~tun, und \/ tasks = <<>>
  PROVE  Phase(p, easy, n, old, vpn, open, loop, tun, tasks, und)
BY SMT DEF Phase, BeforeOpen, WithVpn

LEMMA ClientFields ==
  ASSUME ClientOK
  PROVE  /\ (app.owner = "easy") \in BOOLEAN /\ core.loop \in BOOLEAN /\ cli.tunnel \in BOOLEAN
         /\ cli.undrained \in BOOLEAN /\ cli.running \in BOOLEAN /\ cli.tasks \in Seq(Nat)
         /\ app.n \in Nat /\ app.old \in Nat /\ cli.vpn \in Nat /\ core.open \in SUBSET Nat
         /\ app \in AppThread /\ cli \in TheClient /\ core \in TheCore
         /\ Phase(app.pc, app.owner = "easy", app.n, app.old, cli.vpn, core.open, core.loop, cli.tunnel, cli.tasks,
                  cli.undrained)
BY Zenon DEF ClientOK, AppThread, TheClient, TheCore, PhaseOf

LEMMA ClientStep ==
  ASSUME app' \in AppThread, cli' \in TheClient, core' \in TheCore, cli'.running => cli'.tasks # <<>>,
         app'.pc # "idle" => app'.n # 0,
         Phase(app'.pc, app'.owner = "easy", app'.n, app'.old, cli'.vpn, core'.open, core'.loop, cli'.tunnel,
               cli'.tasks, cli'.undrained)
  PROVE  ClientOK'
BY Zenon DEF ClientOK, PhaseOf

LEMMA ClientMakes ==
  ASSUME ClientOK, Client!MakeClient
  PROVE  ClientOK'
<1> DEFINE s == IF app.owner = "service" THEN "start_pending" ELSE app.status
           m == app.n + 1
<1>1. /\ app' = [app EXCEPT !.pc = "monitor", !.n = m, !.keep = TRUE, !.failed = FALSE, !.status = s]
      /\ cli' = [Client!NoClient EXCEPT !.st = "made", !.loop = "starting"]
      /\ core' = core /\ app.pc = "idle"
  BY Zenon DEF Client!MakeClient
<1>2. m \in Nat /\ m # 0
  <2>1. \A a \in Nat : a + 1 \in Nat /\ a + 1 # 0
    BY SMT
  <2> QED BY <2>1, ClientFields, Zenon
<1>3. s \in {"stopped", "start_pending", "running", "stop_pending"} /\ "monitor" \in AppPlaces
  BY ClientFields, Zenon DEF AppThread, AppPlaces, BeforeOpen
<1> HIDE DEF s, m
<1>4. app' \in AppThread /\ app'.pc = "monitor" /\ app'.n = m
  BY <1>1, <1>2, <1>3, ClientFields, Zenon DEF AppThread
<1>5. /\ cli' \in TheClient /\ cli'.tasks = <<>> /\ cli'.running = FALSE /\ cli'.tunnel = FALSE /\ cli'.undrained = FALSE
  BY <1>1, NewClientFields, Zenon DEF TheClient
<1>6. "idle" \in BeforeOpen /\ "monitor" \in BeforeOpen
  BY Zenon DEF BeforeOpen
<1>7. core.open = {} /\ ~core.loop
  BY <1>1, <1>6, ClientFields, Zenon DEF Phase
<1>8. Phase("monitor", app'.owner = "easy", m, app'.old, cli'.vpn, {}, core.loop, FALSE, <<>>, FALSE)
  <2>1. (app'.owner = "easy") \in BOOLEAN
    BY Zenon
  <2> QED BY <1>6, <1>7, <2>1, PhaseBefore, Zenon
<1> QED BY <1>1, <1>2, <1>4, <1>5, <1>7, <1>8, ClientFields, ClientStep, Zenon

LEMMA ClientOpens ==
  ASSUME ClientOK, Client!VpnOpen
  PROVE  ClientOK'
<1> DEFINE easy == app.owner = "easy"
<1>1. "open" \in BeforeOpen /\ "connect" \in WithVpn /\ {"connect", "end"} \subseteq AppPlaces
  BY Zenon DEF BeforeOpen, WithVpn, AppPlaces
<1>2. CASE Client!AppFails("open", "end") /\ UNCHANGED <<cli, core>>
  <2>1. /\ app' \in AppThread /\ app'.pc = "end" /\ app.pc = "open" /\ app'.owner = app.owner /\ app'.n = app.n
        /\ app'.old = app.old
    BY <1>1, <1>2, AppGoesFields, ClientFields, Zenon
  <2>2. Phase("end", easy, app.n, app.old, cli.vpn, core.open, core.loop, cli.tunnel, cli.tasks, cli.undrained)
    <3>1. core.open = {} /\ ~core.loop /\ ~cli.tunnel /\ cli.tasks = <<>> /\ easy \in BOOLEAN
      BY <1>1, <2>1, ClientFields, Zenon DEF Phase
    <3> HIDE DEF easy
    <3> QED BY <3>1, PhaseOver, Zenon
  <2>3. "end" # "idle" /\ "open" # "idle"
    BY SMT
  <2> QED BY <1>1, <1>2, <2>1, <2>2, <2>3, ClientMoves, Zenon
<1>3. CASE /\ Client!AppGoes("open", "connect")
           /\ cli' = [cli EXCEPT !.vpn = app.n]
           /\ core' = [open |-> core.open \cup {app.n}, loop |-> TRUE, listening |-> FALSE, requests |-> 0]
  <2>1. /\ app' \in AppThread /\ app'.pc = "connect" /\ app.pc = "open" /\ app'.owner = app.owner /\ app'.n = app.n
        /\ app'.old = app.old
    BY <1>1, <1>3, AppGoesFields, ClientFields, Zenon
  <2>2. core.open = {} /\ cli.tasks = <<>>
    BY <1>1, <2>1, ClientFields, Zenon DEF Phase
  <2>3. /\ cli' \in TheClient /\ cli'.vpn = app.n /\ cli'.tasks = cli.tasks /\ cli'.running = cli.running
        /\ cli'.tunnel = cli.tunnel /\ cli'.undrained = cli.undrained
    BY <1>3, ClientFields, Zenon DEF TheClient
  <2>4. core' \in TheCore /\ core'.open = {app.n} /\ core'.loop = TRUE
    <3>1. 0 \in Nat
      BY SMT
    <3>2. core.open \cup {app.n} = {app.n} /\ {app.n} \in SUBSET Nat
      BY <2>2, ClientFields, Zenon
    <3> QED BY <1>3, <3>1, <3>2, Zenon DEF TheCore
  <2>5. <<>> \in Seq({0, app.n})
    BY SMT
  <2>6. Phase("connect", easy, app.n, app.old, app.n, {app.n}, TRUE, cli.tunnel, <<>>, cli.undrained)
    BY <1>1, <2>5, ClientFields, PhaseWith, Zenon
  <2>7. app.n # 0 /\ (cli.running => cli.tasks # <<>>)
    <3>1. "open" # "idle"
      BY SMT
    <3> QED BY <2>1, <3>1, Zenon DEF ClientOK
  <2> QED BY <2>1, <2>2, <2>3, <2>4, <2>6, <2>7, ClientStep, Zenon
<1> QED BY <1>2, <1>3, Zenon DEF Client!VpnOpen

\* A step that changes only what the phase does not speak of.
LEMMA ClientAside ==
  ASSUME ClientOK, app' \in AppThread, cli' \in TheClient, core' \in TheCore,
         app'.pc = app.pc \/ (app.pc \in WithVpn /\ app'.pc \in WithVpn),
         app'.owner = app.owner, app'.n = app.n, app'.old = app.old,
         cli'.vpn = cli.vpn, cli'.tunnel = cli.tunnel \/ (app.pc \in WithVpn /\ app'.pc \in WithVpn),
         cli'.tasks = cli.tasks, cli'.undrained = cli.undrained,
         cli'.running = cli.running \/ cli.tasks # <<>>, core'.open = core.open, core'.loop = core.loop
  PROVE  ClientOK'
<1>1. "idle" \notin WithVpn
  BY SMT DEF WithVpn
<1>2. app'.pc # "idle" => app'.n # 0
  BY <1>1, Zenon DEF ClientOK
<1>3. cli'.tunnel \in BOOLEAN
  BY Zenon DEF TheClient
<1>4. cli'.running => cli'.tasks # <<>>
  BY Zenon DEF ClientOK
<1>5. CASE app.pc \in WithVpn /\ app'.pc \in WithVpn
  <2>1. core.open = {app.n} /\ cli.vpn = app.n /\ cli.tasks \in Seq({0, app.n})
    BY <1>5, ClientFields, Zenon DEF Phase
  <2>2. Phase(app'.pc, app'.owner = "easy", app'.n, app'.old, cli'.vpn, core'.open, core'.loop, cli'.tunnel,
              cli'.tasks, cli'.undrained)
    <3>1. (app'.owner = "easy") \in BOOLEAN
      BY Zenon
    <3> QED BY <1>5, <2>1, <3>1, PhaseWith, Zenon
  <2> QED BY <1>2, <1>4, <2>2, ClientStep, Zenon
<1>6. CASE app'.pc = app.pc /\ cli'.tunnel = cli.tunnel
  BY <1>2, <1>4, <1>6, ClientFields, ClientStep, Zenon
<1> QED BY <1>5, <1>6, Zenon

LEMMA ClientAsideSteps ==
  ASSUME ClientOK,
         \/ Client!ExtraLoopRuns \/ Client!MakeListener \/ Client!Listen \/ Client!StopRequest
         \/ Client!TaskBegins \/ Client!MonitorNotifies \/ Client!MonitorReturns
  PROVE  ClientOK'
<1>0. /\ app \in AppThread /\ cli \in TheClient /\ core \in TheCore
      /\ {"listener", "listen", "run", "disconnect", "asleep"} \subseteq WithVpn /\ WithVpn \subseteq AppPlaces
  BY ClientFields, Zenon DEF WithVpn, AppPlaces
<1>1. CASE Client!ExtraLoopRuns
  <2>1. cli' = [cli EXCEPT !.loop = "on"] /\ app' = app /\ core' = core
    BY <1>1, Zenon DEF Client!ExtraLoopRuns
  <2>2. /\ cli' \in TheClient /\ cli'.vpn = cli.vpn /\ cli'.tasks = cli.tasks /\ cli'.running = cli.running
        /\ cli'.tunnel = cli.tunnel /\ cli'.undrained = cli.undrained
    BY <1>0, <2>1, Zenon DEF TheClient
  <2> QED BY <1>0, <2>1, <2>2, ClientAside, Zenon
<1>2. CASE Client!MakeListener
  <2>1. /\ cli' \in {cli, [cli EXCEPT !.tunnel = TRUE]} /\ core' = core
        /\ \/ Client!AppGoes("listener", "listen") \/ Client!AppFails("listener", "listen")
           \/ Client!AppGoes("listener", "disconnect") \/ Client!AppFails("listener", "disconnect")
    BY <1>2, Zenon DEF Client!MakeListener
  <2>2. /\ cli' \in TheClient /\ cli'.vpn = cli.vpn /\ cli'.tasks = cli.tasks /\ cli'.running = cli.running
        /\ cli'.undrained = cli.undrained
    BY <1>0, <2>1, Zenon DEF TheClient
  <2>3. PICK q \in {"listen", "disconnect"} : Client!AppGoes("listener", q) \/ Client!AppFails("listener", q)
    BY <2>1, Zenon
  <2>4. /\ app' \in AppThread /\ app'.pc = q /\ app.pc = "listener" /\ app'.owner = app.owner /\ app'.n = app.n
        /\ app'.old = app.old /\ q \in WithVpn /\ "listener" \in WithVpn
    BY <1>0, <2>3, AppGoesFields, Zenon
  <2> QED BY <1>0, <2>1, <2>2, <2>4, ClientAside, Zenon
<1>3. CASE Client!Listen
  <2>1. PICK q \in {"run", "disconnect"} :
          /\ app' \in AppThread /\ app'.pc = q /\ app.pc = "listen" /\ app'.owner = app.owner /\ app'.n = app.n
          /\ app'.old = app.old
    <3>1. CASE Client!AppFails("listen", "disconnect")
      BY <1>0, <3>1, AppGoesFields, Zenon
    <3>2. CASE app.pc = "listen" /\ app' = [app EXCEPT !.pc = "run",
                                            !.status = IF app.owner = "service" THEN "running" ELSE @]
      <4> DEFINE s == IF app.owner = "service" THEN "running" ELSE app.status
      <4>1. s \in {"stopped", "start_pending", "running", "stop_pending"}
        BY <1>0, Zenon DEF AppThread
      <4>2. app' = [app EXCEPT !.pc = "run", !.status = s]
        BY <3>2, Zenon
      <4> HIDE DEF s
      <4> QED BY <1>0, <3>2, <4>1, <4>2, Zenon DEF AppThread
    <3> QED BY <1>3, <3>1, <3>2, Zenon DEF Client!Listen
  <2>2. cli' = cli /\ (core' = core \/ core' = [core EXCEPT !.listening = TRUE])
    BY <1>3, Zenon DEF Client!Listen
  <2>3. core' \in TheCore /\ core'.open = core.open /\ core'.loop = core.loop
    BY <1>0, <2>2, Zenon DEF TheCore
  <2>4. app.pc \in WithVpn /\ app'.pc \in WithVpn
    BY <1>0, <2>1, Zenon
  <2> QED BY <1>0, <2>1, <2>2, <2>3, <2>4, ClientAside, Zenon
<1>4. CASE Client!StopRequest
  <2> DEFINE p == IF app.pc = "asleep" THEN "run" ELSE app.pc
             s == IF app.status = "running" THEN "stop_pending" ELSE app.status
  <2>1. app' = [app EXCEPT !.keep = FALSE, !.pc = p, !.status = s] /\ cli' = cli /\ core' = core
    BY <1>4, Zenon DEF Client!StopRequest
  <2>2. /\ p \in AppPlaces /\ s \in {"stopped", "start_pending", "running", "stop_pending"}
        /\ p = app.pc \/ (app.pc \in WithVpn /\ p \in WithVpn)
    BY <1>0, Zenon DEF AppThread
  <2> HIDE DEF p, s
  <2>3. /\ app' \in AppThread /\ app'.pc = p /\ app'.owner = app.owner /\ app'.n = app.n /\ app'.old = app.old
    BY <1>0, <2>1, <2>2, Zenon DEF AppThread
  <2> QED BY <1>0, <2>1, <2>2, <2>3, ClientAside, Zenon
<1>5. CASE Client!TaskBegins
  <2>1. cli' = [cli EXCEPT !.running = TRUE] /\ app' = app /\ core' = core /\ cli.tasks # <<>>
    BY <1>5, Zenon DEF Client!TaskBegins
  <2>2. /\ cli' \in TheClient /\ cli'.vpn = cli.vpn /\ cli'.tasks = cli.tasks
        /\ cli'.tunnel = cli.tunnel /\ cli'.undrained = cli.undrained
    BY <1>0, <2>1, Zenon DEF TheClient
  <2> QED BY <1>0, <2>1, <2>2, ClientAside, Zenon
<1>6. CASE Client!MonitorNotifies \/ Client!MonitorReturns
  BY <1>0, <1>6, ClientAside, Zenon DEF Client!MonitorNotifies, Client!MonitorReturns
<1> QED BY <1>1, <1>2, <1>3, <1>4, <1>5, <1>6, Zenon

\* Tasks come while the thread of the Vpn runs, and go while there are some.
LEMMA PhaseTasks ==
  ASSUME NEW p \in AppPlaces, NEW easy \in BOOLEAN, NEW n, NEW old, NEW vpn, NEW open, NEW loop, NEW tun, NEW tasks, NEW und,
         NEW more, Phase(p, easy, n, old, vpn, open, loop, tun, tasks, und),
         tasks \in Seq({0, n}) => more \in Seq({0, n}), loop \/ tasks # <<>>
  PROVE  Phase(p, easy, n, old, vpn, open, loop, tun, more, und)
BY SMT DEF Phase, AppPlaces, BeforeOpen, WithVpn

LEMMA ClientTaskSteps ==
  ASSUME ClientOK, Client!ConnectRequest \/ Client!TaskEnds
  PROVE  ClientOK'
<1> DEFINE easy == app.owner = "easy"
           t == cli.tasks
<1>1. /\ app \in AppThread /\ cli \in TheClient /\ core \in TheCore /\ app.pc \in AppPlaces /\ easy \in BOOLEAN
      /\ t \in Seq(Nat) /\ cli.vpn \in Nat
      /\ Phase(app.pc, easy, app.n, app.old, cli.vpn, core.open, core.loop, cli.tunnel, t, cli.undrained)
  BY ClientFields, Zenon DEF AppThread
<1>2. CASE Client!ConnectRequest
  <2> DEFINE m == Append(t, cli.vpn)
             r == core.requests + 1
  <2>1. /\ core.loop /\ core' = [core EXCEPT !.requests = r] /\ cli' = [cli EXCEPT !.tasks = m] /\ app' = app
    BY <1>2, Zenon DEF Client!ConnectRequest
  <2>2. r \in Nat
    <3>1. core.requests \in Nat
      BY <1>1, Zenon DEF TheCore
    <3> QED BY <3>1, SMT
  <2>3. m \in Seq(Nat) /\ m # <<>>
    <3> HIDE DEF t
    <3> QED BY <1>1, SMT
  <2>4. t \in Seq({0, app.n}) => m \in Seq({0, app.n})
    <3>1. cli.vpn \in {0, app.n}
      <4>1. CASE app.pc \in BeforeOpen
        BY <1>1, <2>1, <4>1, Zenon DEF Phase
      <4>2. CASE app.pc \in WithVpn
        BY <1>1, <4>2, Zenon DEF Phase
      <4>3. CASE app.pc \in AppPlaces \ (BeforeOpen \cup WithVpn)
        <5> HIDE DEF easy, t
        <5> QED BY <1>1, <2>1, <4>3, SMT DEF Phase, AppPlaces, BeforeOpen, WithVpn
      <4> QED BY <1>1, <4>1, <4>2, <4>3, Zenon
    <3> HIDE DEF t
    <3> QED BY <3>1, SMT
  <2> HIDE DEF m, r
  <2>5. /\ cli' \in TheClient /\ cli'.tasks = m /\ cli'.vpn = cli.vpn /\ cli'.running = cli.running
        /\ cli'.tunnel = cli.tunnel /\ cli'.undrained = cli.undrained
    BY <1>1, <2>1, <2>3, Zenon DEF TheClient
  <2>6. core' \in TheCore /\ core'.open = core.open /\ core'.loop = core.loop
    BY <1>1, <2>1, <2>2, Zenon DEF TheCore
  <2>7. Phase(app.pc, easy, app.n, app.old, cli.vpn, core.open, core.loop, cli.tunnel, m, cli.undrained)
    <3> HIDE DEF easy, t
    <3> QED BY <1>1, <2>1, <2>4, PhaseTasks, Zenon
  <2>8. app.pc # "idle" => app.n # 0
    BY Zenon DEF ClientOK
  <2> QED BY <1>1, <2>1, <2>3, <2>5, <2>6, <2>7, <2>8, ClientStep, Zenon
<1>3. CASE Client!TaskEnds
  <2> DEFINE m == Tail(t)
  <2>1. cli.running /\ cli' = [cli EXCEPT !.running = FALSE, !.tasks = m] /\ app' = app /\ core' = core
    BY <1>3, Zenon DEF Client!TaskEnds
  <2>2. t # <<>>
    BY <2>1, Zenon DEF ClientOK
  <2>3. m \in Seq(Nat) /\ (t \in Seq({0, app.n}) => m \in Seq({0, app.n}))
    <3> HIDE DEF t
    <3> QED BY <1>1, <2>2, SMT
  <2> HIDE DEF m
  <2>4. /\ cli' \in TheClient /\ cli'.tasks = m /\ cli'.vpn = cli.vpn /\ cli'.running = FALSE
        /\ cli'.tunnel = cli.tunnel /\ cli'.undrained = cli.undrained
    BY <1>1, <2>1, <2>3, Zenon DEF TheClient
  <2>5. Phase(app.pc, easy, app.n, app.old, cli.vpn, core.open, core.loop, cli.tunnel, m, cli.undrained)
    <3> HIDE DEF easy, t
    <3> QED BY <1>1, <2>2, <2>3, PhaseTasks, Zenon
  <2>6. app.pc # "idle" => app.n # 0
    BY Zenon DEF ClientOK
  <2> QED BY <1>1, <2>1, <2>4, <2>5, <2>6, ClientStep, Zenon
<1> QED BY <1>2, <1>3, Zenon

LEMMA ClientDisconnects ==
  ASSUME ClientOK, \/ Client!TakeVpn \/ Client!VpnStop \/ Client!DrainExtraLoop \/ Client!VpnClose
                   \/ Client!DeinitTunnel \/ Client!DestroyClient
  PROVE  ClientOK'
<1> DEFINE easy == app.owner = "easy"
<1>1. /\ app \in AppThread /\ cli \in TheClient /\ core \in TheCore /\ easy \in BOOLEAN
      /\ Phase(app.pc, easy, app.n, app.old, cli.vpn, core.open, core.loop, cli.tunnel, cli.tasks, cli.undrained)
  BY ClientFields, Zenon
<1>2. /\ cli.running => cli.tasks # <<>>
      /\ app.pc # "idle" => app.n # 0
  BY Zenon DEF ClientOK
<1>3. /\ "disconnect" \in WithVpn /\ {"stop", "drain", "close", "deinit", "unmonitor", "end", "idle"} \subseteq AppPlaces
      /\ "idle" \in BeforeOpen
  BY Zenon DEF WithVpn, AppPlaces, BeforeOpen
<1>4. /\ "disconnect" # "idle" /\ "stop" # "idle" /\ "drain" # "idle" /\ "close" # "idle" /\ "deinit" # "idle"
      /\ "end" # "idle" /\ "unmonitor" # "idle" /\ "drain" \in {"stop", "drain"} /\ "stop" \in {"stop", "drain"}
      /\ "drain" \in {"drain", "close"} /\ "close" \in {"drain", "close"}
      /\ "deinit" \in {"deinit", "end"} /\ "end" \in {"deinit", "end"}
  BY SMT
<1>5. CASE Client!TakeVpn
  <2>1. /\ app.pc = "disconnect" /\ cli' = [cli EXCEPT !.vpn = 0] /\ core' = core
        /\ app' = [app EXCEPT !.pc = IF cli.vpn = 0 THEN "deinit" ELSE "stop", !.old = cli.vpn]
    BY <1>5, Zenon DEF Client!TakeVpn
  <2>2. core.open = {app.n} /\ cli.vpn = app.n /\ cli.tasks \in Seq({0, app.n})
    BY <1>1, <1>3, <2>1, Zenon DEF Phase
  <2>3. app' = [app EXCEPT !.pc = "stop", !.old = cli.vpn] /\ cli.vpn \in Nat /\ 0 \in Nat
    <3>1. 0 \in Nat
      BY SMT
    <3> QED BY <1>1, <1>2, <1>4, <2>1, <2>2, <3>1, Zenon DEF TheClient
  <2>4. app' \in AppThread /\ app'.pc = "stop" /\ app'.n = app.n /\ app'.old = app.n /\ app'.owner = app.owner
    BY <1>1, <1>3, <2>2, <2>3, Zenon DEF AppThread
  <2>5. /\ cli' \in TheClient /\ cli'.tasks = cli.tasks /\ cli'.vpn = 0 /\ cli'.running = cli.running
        /\ cli'.tunnel = cli.tunnel /\ cli'.undrained = cli.undrained
    BY <1>1, <2>1, <2>3, Zenon DEF TheClient
  <2>6. Phase("stop", easy, app.n, app.n, 0, core.open, core.loop, cli.tunnel, cli.tasks, cli.undrained)
    <3> HIDE DEF easy
    <3> QED BY <1>1, <2>2, PhaseStop, Zenon
  <2>7. app.n # 0
    BY <1>2, <1>4, <2>1, Zenon
  <2> QED BY <1>1, <1>2, <2>1, <2>4, <2>5, <2>6, <2>7, ClientStep, Zenon
<1>6. CASE Client!VpnStop
  <2>1. Client!AppGoes("stop", "drain") /\ core' = [core EXCEPT !.loop = FALSE] /\ cli' = cli
    BY <1>6, Zenon DEF Client!VpnStop
  <2>2. /\ app' \in AppThread /\ app'.pc = "drain" /\ app.pc = "stop" /\ app'.owner = app.owner /\ app'.n = app.n
        /\ app'.old = app.old
    BY <1>1, <1>3, <2>1, AppGoesFields, Zenon
  <2>3. core.open = {app.n} /\ app.old = app.n /\ cli.vpn = 0 /\ cli.tasks \in Seq({0, app.n})
    BY <1>1, <1>4, <2>2, Zenon DEF Phase
  <2>4. core' \in TheCore /\ core'.open = core.open /\ core'.loop = FALSE
    BY <1>1, <2>1, Zenon DEF TheCore
  <2>5. Phase("drain", easy, app.n, app.old, cli.vpn, core.open, FALSE, cli.tunnel, cli.tasks, cli.undrained)
    <3> HIDE DEF easy
    <3> QED BY <1>1, <2>3, PhaseDrain, Zenon
  <2>6. app.n # 0
    BY <1>2, <1>4, <2>2, Zenon
  <2> QED BY <1>1, <1>2, <2>1, <2>2, <2>4, <2>5, <2>6, ClientStep, Zenon
<1>7. CASE Client!DrainExtraLoop
  <2> DEFINE u == cli.loop # "on"
  <2>1. Client!AppGoes("drain", "close") /\ core' = core /\ cli' = [cli EXCEPT !.undrained = u]
    BY <1>7, Zenon DEF Client!DrainExtraLoop
  <2>2. /\ app' \in AppThread /\ app'.pc = "close" /\ app.pc = "drain" /\ app'.owner = app.owner /\ app'.n = app.n
        /\ app'.old = app.old
    BY <1>1, <1>3, <2>1, AppGoesFields, Zenon
  <2>3. core.open = {app.n} /\ app.old = app.n /\ ~core.loop
    BY <1>1, <1>4, <2>2, Zenon DEF Phase
  <2>4. u \/ cli.tasks = <<>>
    BY <1>7, Zenon DEF Client!DrainExtraLoop, Client!Drained
  <2>5. u \in BOOLEAN
    BY Zenon
  <2> HIDE DEF u
  <2>6. /\ cli' \in TheClient /\ cli'.tasks = cli.tasks /\ cli'.vpn = cli.vpn /\ cli'.running = cli.running
        /\ cli'.tunnel = cli.tunnel /\ cli'.undrained = u
    BY <1>1, <2>1, <2>5, Zenon DEF TheClient
  <2>7. Phase("close", easy, app.n, app.old, cli.vpn, core.open, core.loop, cli.tunnel, cli.tasks, u)
    <3> HIDE DEF easy
    <3> QED BY <1>1, <2>3, <2>4, PhaseClose, Zenon
  <2>8. app.n # 0
    BY <1>2, <1>4, <2>2, Zenon
  <2> QED BY <1>1, <1>2, <2>1, <2>2, <2>6, <2>7, <2>8, ClientStep, Zenon
<1>8. CASE Client!VpnClose
  <2> DEFINE s == core.open \ {app.old}
  <2>1. Client!AppGoes("close", "deinit") /\ core' = [core EXCEPT !.open = s] /\ cli' = cli
    BY <1>8, Zenon DEF Client!VpnClose
  <2>2. /\ app' \in AppThread /\ app'.pc = "deinit" /\ app.pc = "close" /\ app'.owner = app.owner /\ app'.n = app.n
        /\ app'.old = app.old
    BY <1>1, <1>3, <2>1, AppGoesFields, Zenon
  <2>3. core.open = {app.n} /\ app.old = app.n /\ ~core.loop /\ (cli.undrained \/ cli.tasks = <<>>)
    BY <1>1, <1>4, <2>2, Zenon DEF Phase
  <2>4. s = {} /\ s \in SUBSET Nat
    BY <2>3, Zenon
  <2> HIDE DEF s
  <2>5. core' \in TheCore /\ core'.open = s /\ core'.loop = core.loop
    BY <1>1, <2>1, <2>4, Zenon DEF TheCore
  <2>6. Phase("deinit", easy, app.n, app.old, cli.vpn, s, core.loop, cli.tunnel, cli.tasks, cli.undrained)
    <3> HIDE DEF easy
    <3> QED BY <1>1, <2>3, <2>4, PhaseDeinit, Zenon
  <2>7. app.n # 0
    BY <1>2, <1>4, <2>2, Zenon
  <2> QED BY <1>1, <1>2, <2>1, <2>2, <2>5, <2>6, <2>7, ClientStep, Zenon
<1>9. CASE Client!DeinitTunnel
  <2>1. PICK q \in {"unmonitor", "end"} : Client!AppGoes("deinit", q) /\ (q = "end" \/ (q = "unmonitor" /\ easy))
    BY <1>9, Zenon DEF Client!DeinitTunnel
  <2>2. cli' = [cli EXCEPT !.tunnel = FALSE] /\ core' = core
    BY <1>9, Zenon DEF Client!DeinitTunnel
  <2>3. /\ app' \in AppThread /\ app'.pc = q /\ app.pc = "deinit" /\ app'.owner = app.owner /\ app'.n = app.n
        /\ app'.old = app.old
    BY <1>1, <1>3, <2>1, AppGoesFields, Zenon
  <2>4. core.open = {} /\ ~core.loop /\ (cli.undrained \/ cli.tasks = <<>>)
    BY <1>1, <1>4, <2>3, Zenon DEF Phase
  <2>5. /\ cli' \in TheClient /\ cli'.tasks = cli.tasks /\ cli'.vpn = cli.vpn /\ cli'.running = cli.running
        /\ cli'.tunnel = FALSE /\ cli'.undrained = cli.undrained
    BY <1>1, <2>2, Zenon DEF TheClient
  <2>6. Phase(q, easy, app.n, app.old, cli.vpn, core.open, core.loop, FALSE, cli.tasks, cli.undrained)
    <3> HIDE DEF easy
    <3> QED BY <1>1, <2>1, <2>4, PhaseOver, Zenon
  <2>7. app.n # 0
    BY <1>2, <1>4, <2>3, Zenon
  <2> QED BY <1>1, <1>2, <2>2, <2>3, <2>5, <2>6, <2>7, ClientStep, Zenon
<1>10. CASE Client!DestroyClient
  <2>1. /\ app.pc = "end" /\ app' = [app EXCEPT !.pc = "idle", !.status = "stopped"]
        /\ cli' = Client!NoClient /\ core' = core
    BY <1>10, Zenon DEF Client!DestroyClient
  <2>2. app' \in AppThread /\ app'.pc = "idle" /\ app'.owner = app.owner /\ app'.n = app.n /\ app'.old = app.old
    BY <1>1, <1>3, <2>1, Zenon DEF AppThread
  <2>3. core.open = {} /\ ~core.loop
    BY <1>1, <1>4, <2>1, Zenon DEF Phase
  <2>4. Phase("idle", easy, app.n, app.old, cli'.vpn, core.open, core.loop, FALSE, <<>>, FALSE)
    <3> HIDE DEF easy
    <3> QED BY <1>1, <1>3, <2>3, PhaseBefore, Zenon
  <2> QED BY <1>1, <2>1, <2>2, <2>4, NewClientFields, ClientStep, Zenon
<1> QED BY <1>5, <1>6, <1>7, <1>8, <1>9, <1>10, Zenon

LEMMA ClientInitOK == Client!Init => ClientOK
<1> SUFFICES ASSUME Client!Init PROVE ClientOK
  OBVIOUS
<1>1. 0 \in Nat
  BY SMT
<1>2. "idle" \in AppPlaces /\ "idle" \in BeforeOpen
  BY Zenon DEF AppPlaces, BeforeOpen
<1>3. app \in AppThread /\ app.pc = "idle"
  BY <1>1, <1>2, Zenon DEF Client!Init, AppThread
<1>4. cli = Client!NoClient /\ core \in TheCore /\ core.open = {} /\ core.loop = FALSE
  BY <1>1, Zenon DEF Client!Init, TheCore
<1>5. Phase("idle", app.owner = "easy", app.n, app.old, cli.vpn, {}, FALSE, FALSE, <<>>, FALSE)
  <2>1. (app.owner = "easy") \in BOOLEAN
    BY Zenon
  <2> QED BY <1>2, <2>1, PhaseBefore, Zenon
<1> QED BY <1>3, <1>4, <1>5, NewClientFields, Zenon DEF ClientOK, PhaseOf

\* No task of the extra loop holds a Vpn that is closed, and an owner that is done has left no Vpn open,
\* for any number of clients and requests and every owner (TrustTunnelClient::disconnect).
THEOREM TasksHoldLiveVpn == Client!Spec => []TaskVpnAlive
<1>1. ClientOK /\ [Client!Next]_Client!appVars => ClientOK'
  <2>1. ASSUME ClientOK, UNCHANGED Client!appVars PROVE ClientOK'
    BY <2>1, Zenon DEF Client!appVars, ClientOK, PhaseOf
  <2>2. ASSUME ClientOK, Client!Next PROVE ClientOK'
    BY <2>2, ClientMakes, ClientQuietSteps, ClientOpens, ClientAsideSteps, ClientTaskSteps, ClientDisconnects,
       Zenon DEF Client!Next
  <2> QED BY <2>1, <2>2, Zenon
<1>2. ClientOK => TaskVpnAlive
  <2> SUFFICES ASSUME ClientOK
               PROVE  /\ cli.undrained \/ \A i \in 1 .. Len(cli.tasks) : cli.tasks[i] \in core.open \cup {0}
                      /\ app.pc = "idle" => core.open = {}
    BY Zenon DEF TaskVpnAlive, Client!TaskVpnAlive
  <2> DEFINE easy == app.owner = "easy"
  <2>1. /\ easy \in BOOLEAN /\ app.pc \in AppPlaces
        /\ Phase(app.pc, easy, app.n, app.old, cli.vpn, core.open, core.loop, cli.tunnel, cli.tasks, cli.undrained)
    BY ClientFields, Zenon DEF AppThread
  <2>2. app.pc = "idle" => core.open = {}
    BY <2>1, Zenon DEF Phase, BeforeOpen
  <2>3. \/ cli.undrained \/ cli.tasks = <<>>
        \/ cli.tasks \in Seq({0, app.n}) /\ core.open = {app.n}
    <3> HIDE DEF easy
    <3> QED BY <2>1, SMT DEF Phase, AppPlaces, BeforeOpen, WithVpn
  <2>4. ASSUME cli.tasks \in Seq({0, app.n}), core.open = {app.n}
        PROVE  \A i \in 1 .. Len(cli.tasks) : cli.tasks[i] \in core.open \cup {0}
    BY <2>4, SMT
  <2>5. ASSUME cli.tasks = <<>>
        PROVE  \A i \in 1 .. Len(cli.tasks) : cli.tasks[i] \in core.open \cup {0}
    BY <2>5, SMT
  <2> QED BY <2>2, <2>3, <2>4, <2>5, Zenon
<1> QED BY <1>1, <1>2, ClientInitOK, PTL DEF Client!Spec

-----------------------------------------------------------------------------
(* The service's pipe: EasyPipe.                                           *)

PipeMessages == [sess : Nat, no : Nat]
PipePieces == [m : PipeMessages, piece : {1, 2}]
PipePlaces == {"off", "connect", "wait", "read", "input", "pump", "disconnect", "clear", "reset", "ended"}

\* The types of the loop, the kernel's side of the pipe and the service.
TheServer ==
    [pc : PipePlaces, conn : BOOLEAN, rp : BOOLEAN, wp : BOOLEAN, io : BOOLEAN, we : BOOLEAN, wake : BOOLEAN,
     pend : Seq(PipeMessages), infl : Seq(PipePieces), buf : Seq(Nat), ret : {"read", "pump"}, misframed : BOOLEAN]
TheLink ==
    [client : {"none", "open", "closed"}, sess : Nat, out : Nat, read : Nat, got : Seq(PipePieces), next : Nat]
TheService == [proc : {"stopped", "running"}, stop : BOOLEAN, vpn : BOOLEAN, sender : {"idle", "pushed"}]

\* A client is being served, or the loop has not yet cleaned up after it.
Serving(pc, conn) == conn \/ pc \in {"clear", "reset"}

\* Where the loop may be with and without a client; nothing of one client is left when the next one comes.
PipeStage(pc, conn, rp, wp, io, we, client, out, read) ==
    /\ pc \in {"input", "disconnect"} => conn
    /\ pc \in {"off", "connect", "clear", "reset"} => ~conn
    /\ Serving(pc, conn) => client # "none"
    /\ ~Serving(pc, conn) => read = 0 /\ ~rp /\ ~wp /\ ~we /\ (io => client # "none")
    /\ client = "none" => out = 0
    /\ read <= out

\* Pieces are whole messages in order, but for the last one's second piece; all of one session.
Framing(got, sess, next) ==
    \A i \in 1 .. Len(got) :
        /\ got[i].m.sess = sess /\ got[i].m.no \in Nat /\ got[i].m.no < next
        /\ got[i].piece = 2 - (i % 2)
        /\ i > 1 => IF i % 2 = 0 THEN got[i].m = got[i - 1].m ELSE got[i].m.no > got[i - 1].m.no

\* What is in flight goes on where the client's pieces end, and what is pending comes after both.
InFlight(serving, got, infl, sess, next) ==
    /\ ~serving => infl = <<>>
    /\ Len(infl) <= 2
    /\ Len(infl) = 2 => /\ infl[1].piece = 1 /\ infl[2].piece = 2 /\ infl[1].m = infl[2].m
                        /\ infl[1].m.sess = sess /\ infl[1].m.no \in Nat /\ infl[1].m.no < next
                        /\ Len(got) % 2 = 0
                        /\ got # <<>> => infl[1].m.no > got[Len(got)].m.no
    /\ Len(infl) = 1 => Len(got) % 2 = 1 /\ infl[1].m = got[Len(got)].m /\ infl[1].piece = 2
    /\ serving /\ infl = <<>> => Len(got) % 2 = 0

\* x is a message that was sent after those.
SentAfter(x, got, infl, sess, next) ==
    /\ x.sess = sess /\ x.no \in Nat /\ x.no < next
    /\ infl # <<>> => x.no > infl[1].m.no
    /\ got # <<>> => x.no > got[Len(got)].m.no

PipePending(serving, got, infl, pend, sess, next) ==
    /\ ~serving => pend = <<>>
    /\ \A i \in 1 .. Len(pend) : SentAfter(pend[i], got, infl, sess, next)
    /\ \A i, j \in 1 .. Len(pend) : i < j => pend[i].no < pend[j].no

PipeQueues(serving, got, infl, pend, sess, next) ==
    /\ Framing(got, sess, next)
    /\ InFlight(serving, got, infl, sess, next)
    /\ PipePending(serving, got, infl, pend, sess, next)

\* The buffer holds the last pieces that were read, from the beginning of a message.
PipeInput(serving, buf, read) ==
    /\ ~serving => buf = <<>>
    /\ Len(buf) <= read
    /\ (read - Len(buf)) % 2 = 0
    /\ \A i \in 1 .. Len(buf) : buf[i] = read - Len(buf) + i

\* loop() does not come to wait on work.
PipeBusy(pc, conn, ret, rp, wp, wake, idle, sender) ==
    /\ pc = "wait" /\ conn => (rp \/ wake) /\ (idle \/ wp \/ wake \/ sender = "pushed")
    /\ pc = "pump" /\ conn => rp \/ wake
    /\ pc = "input" /\ ret = "pump" => rp \/ wake

PipeServing == Serving(sv.pc, sv.conn)
PipeTyped == sv \in TheServer /\ link \in TheLink /\ svc \in TheService
PipeStaged ==
    /\ PipeStage(sv.pc, sv.conn, sv.rp, sv.wp, sv.io, sv.we, link.client, link.out, link.read)
    /\ PipeServing \/ link.client = "none" \/ link.got = <<>>
    /\ sv.pc = "reset" => sv.pend = <<>>
PipeQueued == PipeQueues(PipeServing, link.got, sv.infl, sv.pend, link.sess, link.next)
PipeRead == PipeInput(PipeServing, sv.buf, link.read) /\ ~sv.misframed
PipeAwake == PipeBusy(sv.pc, sv.conn, sv.ret, sv.rp, sv.wp, sv.wake, sv.pend = <<>> /\ sv.infl = <<>>, svc.sender)

\* The service has a loop exactly while it runs, and nothing is left of it when it is stopped.
PipeRuns ==
    /\ svc.proc = "stopped" <=> sv.pc = "off"
    /\ svc.proc = "stopped" => ~svc.vpn /\ link.client = "none"
    /\ ctl = "stopped" => svc.proc = "stopped"

PipeOK == PipeTyped /\ PipeStaged /\ PipeQueued /\ PipeRead /\ PipeAwake /\ PipeRuns

\* The last piece that was delivered, and the first one in flight, have numbers that were given out.
LEMMA QueueLast ==
  ASSUME NEW got \in Seq(PipePieces), NEW infl \in Seq(PipePieces), NEW pend, NEW sess, NEW next \in Nat,
         NEW serving \in BOOLEAN, PipeQueues(serving, got, infl, pend, sess, next)
  PROVE  /\ infl # <<>> => infl[1].m.no \in Nat /\ infl[1].m.no < next /\ infl[1].m.sess = sess
         /\ got # <<>> => got[Len(got)].m.no \in Nat /\ got[Len(got)].m.no < next
         /\ PipeQueues(serving, got, infl, pend, sess, next)
<1>1. got # <<>> => /\ got[Len(got)].m.no \in Nat /\ got[Len(got)].m.no < next /\ got[Len(got)].m.sess = sess
  BY SMT DEF PipeQueues, Framing
<1>2. CASE infl = <<>>
  BY <1>1, <1>2, Zenon
<1>3. CASE Len(infl) = 1
  <2>1. infl[1].m = got[Len(got)].m /\ got # <<>>
    BY <1>3, SMT DEF PipeQueues, InFlight
  <2> QED BY <1>1, <2>1, Zenon
<1>4. CASE Len(infl) = 2
  BY <1>1, <1>4, Zenon DEF PipeQueues, InFlight
<1>5. infl = <<>> \/ Len(infl) = 1 \/ Len(infl) = 2
  <2>1. Len(infl) <= 2
    BY Zenon DEF PipeQueues, InFlight
  <2>2. infl # <<>> => Len(infl) \in Nat \ {0}
    BY EmptySeq, Zenon
  <2>3. \A l \in Nat \ {0} : l <= 2 => l = 1 \/ l = 2
    BY SMT
  <2> QED BY <2>1, <2>2, <2>3, Zenon
<1> QED BY <1>2, <1>3, <1>4, <1>5, Zenon

\* A message joins the queue, whose oldest one may go for it.
LEMMA QueuePush ==
  ASSUME NEW got \in Seq(PipePieces), NEW infl \in Seq(PipePieces), NEW pend \in Seq(PipeMessages), NEW sess \in Nat,
         NEW next \in Nat, NEW m \in PipeMessages, m.sess = sess, m.no = next,
         PipeQueues(TRUE, got, infl, pend, sess, next)
  PROVE  /\ PipeQueues(TRUE, got, infl, Append(pend, m), sess, next + 1)
         /\ pend # <<>> => PipeQueues(TRUE, got, infl, Append(Tail(pend), m), sess, next + 1)
<1>1. Framing(got, sess, next + 1) /\ InFlight(TRUE, got, infl, sess, next + 1)
  BY SMT DEF PipeQueues, Framing, InFlight
<1>2. /\ infl # <<>> => infl[1].m.no \in Nat /\ infl[1].m.no < next
      /\ got # <<>> => got[Len(got)].m.no \in Nat /\ got[Len(got)].m.no < next
  BY QueueLast, Zenon
<1>5. \A i \in 1 .. Len(pend) : SentAfter(pend[i], got, infl, sess, next)
  BY Zenon DEF PipeQueues, PipePending
<1>6. /\ SentAfter(m, got, infl, sess, next + 1)
      /\ \A x : SentAfter(x, got, infl, sess, next) => SentAfter(x, got, infl, sess, next + 1)
  BY <1>2, SMT DEF SentAfter
<1>3. PipePending(TRUE, got, infl, Append(pend, m), sess, next + 1)
  <2> DEFINE q == Append(pend, m)
  <2>1. /\ Len(q) = Len(pend) + 1 /\ q[Len(pend) + 1] = m /\ \A i \in 1 .. Len(pend) + 1 - 1 : q[i] = pend[i]
        /\ Len(pend) \in Nat /\ Len(pend) + 1 \in Nat
    BY SMT
  <2> HIDE DEF q
  <2>2. \A i \in 1 .. Len(q) : q[i] = m \/ \E j \in 1 .. Len(pend) : q[i] = pend[j]
    BY <2>1, SMT
  <2>3. \A i \in 1 .. Len(q) : SentAfter(q[i], got, infl, sess, next + 1)
    BY <1>5, <1>6, <2>2, Zenon
  <2>4. ASSUME NEW i \in 1 .. Len(q), NEW j \in 1 .. Len(q), i < j PROVE q[i].no < q[j].no
    <3>1. CASE j = Len(pend) + 1
      <4>1. i \in 1 .. Len(pend) + 1 - 1
        BY <2>1, <2>4, <3>1, SMT
      <4>2. q[i] = pend[i] /\ i \in 1 .. Len(pend)
        BY <2>1, <4>1, SMT
      <4>3. q[i].no < next
        BY <1>5, <4>2, Zenon DEF SentAfter
      <4> QED BY <2>1, <3>1, <4>3, Zenon
    <3>2. CASE j # Len(pend) + 1
      <4>1. i \in 1 .. Len(pend) + 1 - 1 /\ j \in 1 .. Len(pend) + 1 - 1
        BY <2>1, <2>4, <3>2, SMTT(30)
      <4>2. /\ q[i] = pend[i] /\ i \in 1 .. Len(pend)
            /\ q[j] = pend[j] /\ j \in 1 .. Len(pend) 
            /\ i < j
        BY <2>1, <2>4, <4>1, SMT
      <4> QED BY <4>2, Zenon DEF PipeQueues, PipePending
    <3> QED BY <3>1, <3>2, Zenon
  <2> QED BY <2>3, <2>4, Zenon DEF PipePending, q
<1>4. ASSUME pend # <<>> PROVE PipePending(TRUE, got, infl, Append(Tail(pend), m), sess, next + 1)
  <2> DEFINE q == Append(Tail(pend), m)
  <2>1. /\ Len(q) = Len(pend) /\ q[Len(pend)] = m /\ \A i \in 1 .. Len(pend) - 1 : q[i] = pend[i + 1]
        /\ Len(pend) \in Nat /\ Len(pend) \in Nat
    BY <1>4, SMT
  <2> HIDE DEF q
  <2>2. \A i \in 1 .. Len(q) : q[i] = m \/ \E j \in 1 .. Len(pend) : q[i] = pend[j]
    BY <2>1, SMTT(30)
  <2>3. \A i \in 1 .. Len(q) : SentAfter(q[i], got, infl, sess, next + 1)
    BY <1>5, <1>6, <2>2, Zenon
  <2>4. ASSUME NEW i \in 1 .. Len(q), NEW j \in 1 .. Len(q), i < j PROVE q[i].no < q[j].no
    <3>1. CASE j = Len(pend)
      <4>1. i \in 1 .. Len(pend) - 1
        BY <2>1, <2>4, <3>1, SMT
      <4>2. q[i] = pend[i + 1] /\ i + 1 \in 1 .. Len(pend)
        BY <2>1, <4>1, SMT
      <4>3. q[i].no < next
        BY <1>5, <4>2, Zenon DEF SentAfter
      <4> QED BY <2>1, <3>1, <4>3, Zenon
    <3>2. CASE j # Len(pend)
      <4>1. i \in 1 .. Len(pend) - 1 /\ j \in 1 .. Len(pend) - 1
        BY <2>1, <2>4, <3>2, SMT
      <4>2. /\ q[i] = pend[i + 1] /\ i + 1 \in 1 .. Len(pend)
            /\ q[j] = pend[j + 1] /\ j + 1 \in 1 .. Len(pend) 
            /\ i + 1 < j + 1
        BY <2>1, <2>4, <4>1, SMT
      <4> QED BY <4>2, Zenon DEF PipeQueues, PipePending
    <3> QED BY <3>1, <3>2, Zenon
  <2> QED BY <2>3, <2>4, Zenon DEF PipePending, q
<1> QED BY <1>1, <1>3, <1>4, Zenon DEF PipeQueues

\* A number is used up without a message.
LEMMA QueueSkip ==
  ASSUME NEW got \in Seq(PipePieces), NEW infl \in Seq(PipePieces), NEW pend \in Seq(PipeMessages), NEW sess \in Nat,
         NEW next \in Nat, NEW serving \in BOOLEAN, PipeQueues(serving, got, infl, pend, sess, next)
  PROVE  PipeQueues(serving, got, infl, pend, sess, next + 1)
<1>1. Framing(got, sess, next + 1) /\ InFlight(serving, got, infl, sess, next + 1)
  BY SMT DEF PipeQueues, Framing, InFlight
<1>2. \A x : SentAfter(x, got, infl, sess, next) => SentAfter(x, got, infl, sess, next + 1)
  BY QueueLast, SMT DEF SentAfter
<1> QED BY <1>1, <1>2, Zenon DEF PipeQueues, PipePending


\* The first pending message goes in flight.
LEMMA QueueTake ==
  ASSUME NEW got \in Seq(PipePieces), NEW pend \in Seq(PipeMessages), NEW sess \in Nat, NEW next \in Nat, pend # <<>>,
         PipeQueues(TRUE, got, <<>>, pend, sess, next)
  PROVE  PipeQueues(TRUE, got, <<[m |-> Head(pend), piece |-> 1], [m |-> Head(pend), piece |-> 2]>>, Tail(pend), sess, next)
<1> DEFINE m == Head(pend)
           infl == <<[m |-> m, piece |-> 1], [m |-> m, piece |-> 2]>>
<1>1. m = pend[1] /\ Len(pend) \in Nat /\ 1 \in 1 .. Len(pend)
  BY SMT
<1>2. SentAfter(m, got, <<>>, sess, next)
  BY <1>1, Zenon DEF PipeQueues, PipePending
<1>3. Framing(got, sess, next) /\ Len(got) % 2 = 0
  BY Zenon DEF PipeQueues, InFlight
<1>4. Len(infl) = 2 /\ infl[1] = [m |-> m, piece |-> 1] /\ infl[2] = [m |-> m, piece |-> 2] /\ infl # <<>>
  <2> HIDE DEF m
  <2> QED BY SMT
<1>5. PipePending(TRUE, got, infl, Tail(pend), sess, next)
  <2> DEFINE q == Tail(pend)
  <2>1. /\ Len(q) = Len(pend) - 1 /\ \A i \in 1 .. Len(q) : q[i] = pend[i + 1]
    BY SMT
  <2>2. infl[1].m = m
    BY <1>4, Zenon
  <2> HIDE DEF m, infl, q
  <2>3. ASSUME NEW i \in 1 .. Len(q) PROVE SentAfter(q[i], got, infl, sess, next)
    <3>1. q[i] = pend[i + 1] /\ i + 1 \in 1 .. Len(pend) /\ 1 < i + 1
      BY <1>1, <2>1, <2>3, SMT
    <3>2. SentAfter(q[i], got, <<>>, sess, next) /\ m.no < q[i].no
      BY <1>1, <3>1, Zenon DEF PipeQueues, PipePending
    <3>3. m.no \in Nat /\ q[i].no \in Nat
      BY <1>2, <3>2, Zenon DEF SentAfter
    <3> QED BY <2>2, <3>2, <3>3, SMT DEF SentAfter
  <2>4. ASSUME NEW i \in 1 .. Len(q), NEW j \in 1 .. Len(q), i < j PROVE q[i].no < q[j].no
    <3>1. /\ q[i] = pend[i + 1] /\ i + 1 \in 1 .. Len(pend)
          /\ q[j] = pend[j + 1] /\ j + 1 \in 1 .. Len(pend) /\ i + 1 < j + 1
      BY <1>1, <2>1, <2>4, SMT
    <3> QED BY <3>1, Zenon DEF PipeQueues, PipePending
  <2> QED BY <2>3, <2>4, Zenon DEF PipePending, q
<1>6. InFlight(TRUE, got, infl, sess, next)
  <2>1. /\ infl[1].piece = 1 /\ infl[2].piece = 2 /\ infl[1].m = m /\ infl[2].m = m
    BY <1>4, Zenon
  <2> HIDE DEF m, infl
  <2>2. m.sess = sess /\ m.no \in Nat /\ m.no < next /\ (got # <<>> => m.no > got[Len(got)].m.no)
    BY <1>2, Zenon DEF SentAfter
  <2> QED BY <1>3, <1>4, <2>1, <2>2, SMT DEF InFlight
<1> QED BY <1>3, <1>5, <1>6, Zenon DEF PipeQueues

LEMMA Parity ==
  /\ \A k \in Nat : k % 2 = 0 => (k + 1) % 2 = 1 /\ 2 - ((k + 1) % 2) = 1 /\ (k + 1) % 2 # 0
  /\ \A k \in Nat : k % 2 = 1 => (k + 1) % 2 = 0 /\ 2 - ((k + 1) % 2) = 2
  /\ \A k \in Nat : \A i \in 1 .. k : i > 1 => i - 1 \in 1 .. k
  /\ \A k \in Nat : \A i \in 1 .. k + 1 : i \in 1 .. k \/ i = k + 1
  /\ \A k \in Nat : \A i \in 1 .. k + 1 : i = k + 1 => i - 1 = k /\ (i > 1 => k # 0 /\ k \in 1 .. k)
BY SMT

\* The first piece in flight reaches the client.
LEMMA QueueOne ==
  ASSUME NEW got \in Seq(PipePieces), NEW infl \in Seq(PipePieces), NEW pend \in Seq(PipeMessages), NEW sess, NEW next \in Nat,
         NEW g \in Seq(PipePieces), NEW r \in Seq(PipePieces),
         PipeQueues(TRUE, got, infl, pend, sess, next), infl # <<>>,
         Len(g) = Len(got) + 1, \A i \in 1 .. Len(got) : g[i] = got[i], g[Len(got) + 1] = infl[1],
         Len(r) = Len(infl) - 1, Len(r) = 1 => r[1] = infl[2]
  PROVE  PipeQueues(TRUE, g, r, pend, sess, next)
<1> DEFINE k == Len(got)
           x == infl[1]
<1>1. k \in Nat /\ Len(infl) \in {1, 2} /\ Len(r) \in Nat
  <2>1. Len(infl) <= 2
    BY Zenon DEF PipeQueues, InFlight
  <2>2. Len(infl) \in Nat \ {0} /\ k \in Nat /\ Len(r) \in Nat
    BY EmptySeq, LenProperties, Zenon
  <2> QED BY <2>1, <2>2, SMT
<1>2. /\ x.m.no \in Nat /\ x.m.no < next /\ x.m.sess = sess
      /\ got # <<>> => got[k].m.no \in Nat /\ got[k].m.no < next
  <2>1. /\ infl # <<>> => infl[1].m.no \in Nat /\ infl[1].m.no < next /\ infl[1].m.sess = sess
        /\ got # <<>> => got[Len(got)].m.no \in Nat /\ got[Len(got)].m.no < next
        /\ PipeQueues(TRUE, got, infl, pend, sess, next)
    BY QueueLast, Zenon
  <2> QED BY <2>1, Zenon
<1>3. /\ Len(infl) = 2 => x.piece = 1 /\ k % 2 = 0 /\ (got # <<>> => x.m.no > got[k].m.no)
      /\ Len(infl) = 1 => x.piece = 2 /\ k % 2 = 1 /\ x.m = got[k].m
  BY Zenon DEF PipeQueues, InFlight
<1>4. k # 0 => got # <<>>
  BY EmptySeq, Zenon
<1>5. Framing(g, sess, next)
  <2> SUFFICES ASSUME NEW i \in 1 .. k + 1
               PROVE  /\ g[i].m.sess = sess /\ g[i].m.no \in Nat /\ g[i].m.no < next
                      /\ g[i].piece = 2 - (i % 2)
                      /\ i > 1 => IF i % 2 = 0 THEN g[i].m = g[i - 1].m ELSE g[i].m.no > g[i - 1].m.no
    BY Zenon DEF Framing
  <2>1. CASE i \in 1 .. k
    <3>1. g[i] = got[i] /\ (i > 1 => g[i - 1] = got[i - 1])
      BY <1>1, <2>1, Parity, Zenon
    <3>2. /\ got[i].m.sess = sess /\ got[i].m.no \in Nat /\ got[i].m.no < next
          /\ got[i].piece = 2 - (i % 2)
          /\ i > 1 => IF i % 2 = 0 THEN got[i].m = got[i - 1].m ELSE got[i].m.no > got[i - 1].m.no
      BY <2>1, Zenon DEF PipeQueues, Framing
    <3> QED BY <3>1, <3>2, Zenon
  <2>2. CASE i = k + 1
    <3>1. g[i] = x /\ i - 1 = k /\ (i > 1 => k # 0 /\ g[i - 1] = got[k])
      <4>1. i - 1 = k /\ (i > 1 => k # 0 /\ k \in 1 .. k)
        BY <1>1, <2>2, Parity, Zenon
      <4> QED BY <2>2, <4>1, Zenon
    <3> HIDE DEF k, x
    <3>2. CASE Len(infl) = 2
      <4>1. i % 2 = 1 /\ 2 - (i % 2) = 1 /\ i % 2 # 0
        BY <1>1, <1>3, <2>2, <3>2, Parity, Zenon
      <4> QED BY <1>2, <1>3, <1>4, <3>1, <3>2, <4>1, Zenon
    <3>3. CASE Len(infl) = 1
      <4>1. i % 2 = 0 /\ 2 - (i % 2) = 2
        BY <1>1, <1>3, <2>2, <3>3, Parity, Zenon
      <4> QED BY <1>2, <1>3, <1>4, <3>1, <3>3, <4>1, Zenon
    <3> QED BY <1>1, <3>2, <3>3, Zenon
  <2> QED BY <1>1, <2>1, <2>2, Parity, Zenon
<1>6. g[Len(g)] = x /\ Len(g) = k + 1
  BY Zenon
<1>7. InFlight(TRUE, g, r, sess, next)
  <2>1. CASE Len(infl) = 2
    <3>1. Len(r) = 1 /\ r[1] = infl[2] /\ infl[2].m = x.m /\ infl[2].piece = 2
      <4>1. Len(r) = 1
        BY <2>1, SMT
      <4> QED BY <2>1, <4>1, Zenon DEF PipeQueues, InFlight
    <3>2. r # <<>> /\ 1 <= 2 /\ ~(1 = 2)
      BY <3>1, EmptySeq, SMT
    <3>3. Len(g) % 2 = 1
      BY <1>1, <1>3, <1>6, <2>1, Parity, Zenon
    <3> QED BY <1>6, <3>1, <3>2, <3>3, Zenon DEF InFlight
  <2>2. CASE Len(infl) = 1
    <3>1. Len(r) = 0
      BY <2>2, SMT
    <3>2. ~(0 = 1) /\ ~(0 = 2) /\ 0 <= 2
      BY SMT
    <3>3. Len(g) % 2 = 0
      BY <1>1, <1>3, <1>6, <2>2, Parity, Zenon
    <3> QED BY <3>1, <3>2, <3>3, Zenon DEF InFlight
  <2> QED BY <1>1, <2>1, <2>2, Zenon
<1>8. ASSUME NEW y, SentAfter(y, got, infl, sess, next) PROVE SentAfter(y, g, r, sess, next)
  <2>1. r # <<>> => r[1].m = x.m
    <3>1. r # <<>> => Len(infl) = 2 /\ Len(r) = 1
      <4>1. r # <<>> => Len(r) \in Nat \ {0}
        BY EmptySeq, Zenon
      <4> QED BY <1>1, <4>1, SMT
    <3> QED BY <3>1, Zenon DEF PipeQueues, InFlight
  <2> QED BY <1>6, <1>8, <2>1, Zenon DEF SentAfter
<1> QED BY <1>5, <1>7, <1>8, Zenon DEF PipeQueues, PipePending

\* Some of what is in flight reaches the client.
LEMMA QueueDeliver ==
  ASSUME NEW got \in Seq(PipePieces), NEW infl \in Seq(PipePieces), NEW pend \in Seq(PipeMessages), NEW sess, NEW next \in Nat,
         PipeQueues(TRUE, got, infl, pend, sess, next), NEW n \in 1 .. Len(infl)
  PROVE  /\ PipeQueues(TRUE, got \o SubSeq(infl, 1, n), SubSeq(infl, n + 1, Len(infl)), pend, sess, next)
         /\ got \o SubSeq(infl, 1, n) \in Seq(PipePieces) /\ SubSeq(infl, n + 1, Len(infl)) \in Seq(PipePieces)
<1> DEFINE a == SubSeq(infl, 1, n)
           r == SubSeq(infl, n + 1, Len(infl))
           g == got \o a
           k == Len(got)
           l == Len(infl)
<1>1. l <= 2 /\ k \in Nat /\ l \in Nat /\ n \in Nat
  BY LenProperties, SMT DEF PipeQueues, InFlight
<1>2. \A i \in 1 .. l : infl[i] \in PipePieces
  BY ElementOfSeq, Zenon
<1>3. a \in Seq(PipePieces) /\ Len(a) = n /\ \A i \in 1 .. n : a[i] = infl[i]
  <2>1. \A i \in 1 .. n : infl[i] \in PipePieces
    BY <1>1, <1>2, SMT
  <2>2. /\ SubSeq(infl, 1, n) \in Seq(PipePieces)
        /\ Len(SubSeq(infl, 1, n)) = IF 1 <= n THEN n - 1 + 1 ELSE 0
        /\ \A i \in 1 .. n - 1 + 1 : SubSeq(infl, 1, n)[i] = infl[1 + i - 1]
    <3>1. 1 \in Int /\ n \in Int
      BY <1>1, SMT
    <3> QED BY <2>1, <3>1, SubSeqProperties, SMT
  <2> HIDE DEF a
  <2>3. /\ a \in Seq(PipePieces)
        /\ Len(a) = IF 1 <= n THEN n - 1 + 1 ELSE 0
        /\ \A i \in 1 .. n - 1 + 1 : a[i] = infl[1 + i - 1]
    BY <2>2, Zenon DEF a
  <2>4. Len(a) = n
    BY <1>1, <2>3, SMT
  <2>5. \A i \in 1 .. n : a[i] = infl[i]
    <3> SUFFICES ASSUME NEW i \in 1 .. n PROVE a[i] = infl[i]
      OBVIOUS
    <3>1. i \in 1 .. n - 1 + 1 /\ 1 + i - 1 = i
      BY <1>1, SMT
    <3> QED BY <2>3, <3>1, Zenon
  <2> QED BY <2>3, <2>4, <2>5, Zenon
<1>4. r \in Seq(PipePieces) /\ Len(r) = l - n /\ (n + 1 = l => r[1] = infl[n + 1])
  <2>1. \A i \in n + 1 .. l : infl[i] \in PipePieces
    BY <1>1, <1>2, SMT
  <2>2. /\ SubSeq(infl, n + 1, l) \in Seq(PipePieces)
        /\ Len(SubSeq(infl, n + 1, l)) = IF n + 1 <= l THEN l - (n + 1) + 1 ELSE 0
        /\ \A i \in 1 .. l - (n + 1) + 1 : SubSeq(infl, n + 1, l)[i] = infl[n + 1 + i - 1]
    <3>1. n + 1 \in Int /\ l \in Int
      BY <1>1, SMT
    <3> HIDE DEF l
    <3> QED BY <2>1, <3>1, SubSeqProperties, SMT
  <2> HIDE DEF r, l
  <2>3. /\ r \in Seq(PipePieces)
        /\ Len(r) = IF n + 1 <= l THEN l - (n + 1) + 1 ELSE 0
        /\ \A i \in 1 .. l - (n + 1) + 1 : r[i] = infl[n + 1 + i - 1]
    BY <2>2, Zenon DEF r, l
  <2>4. Len(r) = l - n
    <3>1. n \in 1 .. l
      BY DEF l
    <3> QED BY <1>1, <2>3, <3>1, SMT
  <2>5. ASSUME n + 1 = l PROVE r[1] = infl[n + 1]
    <3>1. 1 \in 1 .. l - (n + 1) + 1 /\ n + 1 + 1 - 1 = n + 1
      BY <1>1, <2>5, SMT
    <3>2. r[1] = infl[n + 1 + 1 - 1]
      BY <2>3, <3>1, Zenon
    <3> QED BY <3>1, <3>2, Zenon
  <2> QED BY <2>3, <2>4, <2>5, Zenon
<1>5. /\ g \in Seq(PipePieces) /\ Len(g) = k + n
      /\ \A i \in 1 .. k : g[i] = got[i]
      /\ \A i \in 1 .. n : g[k + i] = a[i]
  <2> HIDE DEF a, k
  <2>1. /\ got \o a \in Seq(PipePieces)
        /\ Len(got \o a) = Len(got) + Len(a)
        /\ \A i \in 1 .. Len(got) + Len(a) : (got \o a)[i] = IF i <= Len(got) THEN got[i] ELSE a[i - Len(got)]
    BY <1>3, ConcatProperties, Zenon
  <2>2. /\ g \in Seq(PipePieces) /\ Len(g) = k + n
        /\ \A i \in 1 .. k + n : g[i] = IF i <= k THEN got[i] ELSE a[i - k]
    BY <1>3, <2>1, Zenon DEF k
  <2> HIDE DEF g
  <2>3. ASSUME NEW i \in 1 .. k PROVE g[i] = got[i]
    <3>1. i \in 1 .. k + n /\ i <= k
      BY <1>1, <2>3, SMT
    <3> QED BY <2>2, <3>1, Zenon
  <2>4. ASSUME NEW i \in 1 .. n PROVE g[k + i] = a[i]
    <3> DEFINE j == k + i
    <3>1. j \in 1 .. k + n /\ (j <= k) = FALSE /\ j - k = i
      BY <1>1, <2>4, SMT
    <3> HIDE DEF j
    <3>2. g[j] = a[j - k]
      BY <2>2, <3>1, Zenon
    <3> QED BY <3>1, <3>2, Zenon DEF j
  <2> QED BY <2>2, <2>3, <2>4, Zenon
<1>6. infl # <<>>
  BY <1>1, EmptySeq, SMT
<1> HIDE DEF a, r, g
<1>7. CASE n = 1
  <2>1. Len(g) = Len(got) + 1 /\ (\A i \in 1 .. Len(got) : g[i] = got[i]) /\ g[Len(got) + 1] = infl[1]
    <3> HIDE DEF k
    <3>2. 1 \in 1 .. n
      BY <1>7, SMT
    <3>3. g[k + 1] = a[1]
      BY <1>5, <3>2, Zenon
    <3>4. a[1] = infl[1]
      BY <1>3, <3>2, Zenon
    <3>5. (\A i \in 1 .. k : g[i] = got[i]) /\ g[k + 1] = infl[1] /\ Len(g) = k + 1
      BY <1>5, <1>7, <3>3, <3>4, Zenon
    <3> QED BY <3>5, Zenon DEF k
  <2>2. Len(r) = Len(infl) - 1 /\ (Len(r) = 1 => r[1] = infl[2])
    <3> HIDE DEF l
    <3>1. Len(r) = l - 1 /\ (l - 1 = 1 => n + 1 = l) /\ n + 1 = 2
      BY <1>1, <1>4, <1>7, SMT
    <3>2. Len(r) = 1 => r[1] = infl[2]
      BY <1>4, <3>1, Zenon
    <3> QED BY <3>1, <3>2, Zenon DEF l
  <2>3. PipeQueues(TRUE, g, r, pend, sess, next)
    BY <1>4, <1>5, <1>6, <2>1, <2>2, QueueOne, Zenon
  <2> QED BY <1>4, <1>5, <2>3, Zenon DEF g, a, r
<1>8. CASE n = 2
  <2> DEFINE b == Append(got, infl[1])
             s == <<infl[2]>>
  <2>0. l = 2 /\ 1 \in 1 .. l /\ 2 \in 1 .. l
    <3>1. n \in 1 .. l
      OBVIOUS
    <3> HIDE DEF l
    <3> QED BY <1>1, <1>8, <3>1, SMT
  <2>1. infl[1] \in PipePieces /\ infl[2] \in PipePieces
    BY <1>2, <2>0, Zenon
  <2>2. /\ b \in Seq(PipePieces) /\ Len(b) = Len(got) + 1 /\ (\A i \in 1 .. Len(got) : b[i] = got[i])
        /\ b[Len(got) + 1] = infl[1]
    <3> DEFINE x == infl[1]
    <3>1. x \in PipePieces
      BY <2>1
    <3> HIDE DEF x
    <3>2. /\ Append(got, x) \in Seq(PipePieces)
          /\ Append(got, x) # <<>>
          /\ Len(Append(got, x)) = Len(got) + 1
          /\ \A i \in 1 .. Len(got) : Append(got, x)[i] = got[i]
          /\ Append(got, x)[Len(got) + 1] = x
      BY <3>1, AppendProperties, Zenon
    <3> QED BY <3>2, Zenon DEF x
  <2>3. s \in Seq(PipePieces) /\ Len(s) = Len(infl) - 1 /\ s[1] = infl[2] /\ Len(s) = 1
    BY <2>0, <2>1, SMT
  <2>4. s # <<>>
    BY <2>3, SMT
  <2> HIDE DEF b, s
  <2>5. PipeQueues(TRUE, b, s, pend, sess, next)
    BY <1>6, <2>2, <2>3, QueueOne, Zenon
  <2>6. Len(g) = Len(b) + 1 /\ (\A i \in 1 .. Len(b) : g[i] = b[i]) /\ g[Len(b) + 1] = s[1]
    <3>1. Len(b) = k + 1 /\ (\A i \in 1 .. k : b[i] = got[i]) /\ b[k + 1] = infl[1]
      BY <2>2, Zenon
    <3> HIDE DEF k
    <3>2. 1 \in 1 .. n /\ 2 \in 1 .. n /\ k + 1 + 1 = k + 2 /\ k + n = k + 2
      BY <1>1, <1>8, SMT
    <3>3. g[k + 1] = a[1] /\ g[k + 1 + 1] = a[2]
      BY <1>5, <3>2, Zenon
    <3>4. a[1] = infl[1] /\ a[2] = infl[2]
      BY <1>3, <3>2, Zenon
    <3>5. ASSUME NEW i \in 1 .. Len(b) PROVE g[i] = b[i]
      <4>1. \/ i = k + 1
            \/ i \in 1 .. k
        BY <1>1, <1>8, <3>1, <3>5, SMT
      <4> QED BY <1>5, <3>1, <3>3, <3>4, <4>1, Zenon
    <3>6. Len(g) = Len(b) + 1
      BY <1>5, <3>1, <3>2, Zenon
    <3> QED BY <2>3, <3>1, <3>3, <3>4, <3>5, <3>6, Zenon
  <2>7. Len(r) = Len(s) - 1 /\ (Len(r) = 1 => r[1] = s[2])
    <3>1. Len(r) = 0 /\ Len(s) - 1 = 0 /\ ~(0 = 1)
      BY <1>4, <1>8, <2>0, <2>3, SMT
    <3> QED BY <3>1, Zenon
  <2>8. PipeQueues(TRUE, g, r, pend, sess, next)
    BY <1>4, <1>5, <2>2, <2>3, <2>4, <2>5, <2>6, <2>7, QueueOne, Zenon
  <2> QED BY <1>4, <1>5, <2>8, Zenon DEF g, a, r
<1>9. n = 1 \/ n = 2
  BY <1>1, SMT
<1> QED BY <1>7, <1>8, <1>9, Zenon

\* The pending messages go, then everything, then another client comes and is served.
LEMMA QueueGone ==
  ASSUME NEW got \in Seq(PipePieces), NEW infl, NEW pend, NEW sess, NEW next, NEW serving \in BOOLEAN,
         PipeQueues(serving, got, infl, pend, sess, next)
  PROVE  /\ PipeQueues(serving, got, infl, <<>>, sess, next)
         /\ PipeQueues(FALSE, got, <<>>, <<>>, sess, next)
<1>1. 1 .. Len(<<>>) = {} /\ Len(<<>>) <= 2 /\ ~(Len(<<>>) = 2) /\ ~(Len(<<>>) = 1)
  BY EmptySeq, SMT
<1>2. PipePending(serving, got, infl, <<>>, sess, next) /\ PipePending(FALSE, got, <<>>, <<>>, sess, next)
  BY <1>1, Zenon DEF PipePending
<1>3. InFlight(FALSE, got, <<>>, sess, next)
  BY <1>1, Zenon DEF InFlight
<1> QED BY <1>2, <1>3, Zenon DEF PipeQueues

LEMMA QueueNew ==
  ASSUME NEW sess, NEW next, NEW serving \in BOOLEAN
  PROVE  PipeQueues(serving, <<>>, <<>>, <<>>, sess, next)
<1>1. 1 .. Len(<<>>) = {} /\ Len(<<>>) <= 2 /\ ~(Len(<<>>) = 2) /\ ~(Len(<<>>) = 1) /\ Len(<<>>) % 2 = 0
  BY EmptySeq, SMT
<1> QED BY <1>1, Zenon DEF PipeQueues, Framing, InFlight, PipePending

LEMMA InputNone ==
  ASSUME NEW serving \in BOOLEAN
  PROVE  PipeInput(serving, <<>>, 0)
<1>1. 1 .. Len(<<>>) = {} /\ Len(<<>>) <= 0 /\ (0 - Len(<<>>)) % 2 = 0
  BY EmptySeq, SMT
<1> QED BY <1>1, Zenon DEF PipeInput

\* What is there arrives behind the pieces of the buffer.
LEMMA InputArrives ==
  ASSUME NEW buf \in Seq(Nat), NEW read \in Nat, NEW out \in Nat, read <= out, PipeInput(TRUE, buf, read)
  PROVE  /\ PipeInput(TRUE, buf \o [i \in 1 .. out - read |-> read + i], out)
         /\ buf \o [i \in 1 .. out - read |-> read + i] \in Seq(Nat)
<1> DEFINE a == [i \in 1 .. out - read |-> read + i]
           b == buf \o a
           k == Len(buf)
<1>1. out - read \in Nat /\ k \in Nat
  BY LenProperties, SMT
<1>2. a \in Seq(Nat) /\ Len(a) = out - read
  BY <1>1, SMT
<1>3. \A i \in 1 .. out - read : a[i] = read + i
  OBVIOUS
<1> HIDE DEF a
<1>4. /\ b \in Seq(Nat)
      /\ Len(b) = Len(buf) + Len(a)
      /\ \A i \in 1 .. Len(buf) + Len(a) : b[i] = IF i <= Len(buf) THEN buf[i] ELSE a[i - Len(buf)]
  BY <1>2, ConcatProperties, Zenon
<1> HIDE DEF b
<1>5. Len(buf) <= read /\ (read - Len(buf)) % 2 = 0 /\ \A i \in 1 .. Len(buf) : buf[i] = read - Len(buf) + i
  BY Zenon DEF PipeInput
<1> DEFINE l == Len(b)
<1>6. l = k + (out - read) /\ l <= out /\ out - l = read - k
  BY <1>1, <1>2, <1>4, <1>5, SMT
<1>7. ASSUME NEW i \in 1 .. l PROVE b[i] = out - l + i
  <2>1. CASE i <= k
    <3>1. i \in 1 .. Len(buf) + Len(a) /\ i \in 1 .. k
      BY <1>1, <1>2, <1>6, <1>7, <2>1, SMT
    <3>2. b[i] = buf[i] /\ buf[i] = read - k + i
      BY <1>4, <1>5, <2>1, <3>1, Zenon
    <3> QED BY <1>6, <3>2, Zenon
  <2>2. CASE (i <= k) = FALSE
    <3> DEFINE j == i - k
    <3>1. i \in 1 .. Len(buf) + Len(a) /\ j \in 1 .. out - read /\ i \in Nat
      BY <1>1, <1>2, <1>6, <1>7, <2>2, SMT
    <3>2. b[i] = a[j]
      BY <1>4, <2>2, <3>1, Zenon
    <3>3. a[j] = read + j
      BY <1>3, <3>1, Zenon
    <3>4. b[i] = read + (i - k)
      BY <3>2, <3>3, Zenon
    <3> HIDE DEF j, k, l
    <3> QED BY <1>1, <1>6, <3>1, <3>4, SMT
  <2>3. (i <= k) \/ (i <= k) = FALSE
    BY SMT
  <2> QED BY <2>1, <2>2, <2>3, Zenon
<1>8. PipeInput(TRUE, b, out)
  <2>1. (out - l) % 2 = 0
    BY <1>5, <1>6, Zenon
  <2> QED BY <1>6, <1>7, <2>1, Zenon DEF PipeInput
<1> QED BY <1>4, <1>8, Zenon DEF b, a

\* A message that is parsed is one, and the rest begins with the next one.
LEMMA InputParsed ==
  ASSUME NEW buf \in Seq(Nat), NEW read \in Nat, Len(buf) >= 2, PipeInput(TRUE, buf, read)
  PROVE  /\ buf[1] % 2 # 0 /\ buf[2] = buf[1] + 1
         /\ PipeInput(TRUE, SubSeq(buf, 3, Len(buf)), read) /\ SubSeq(buf, 3, Len(buf)) \in Seq(Nat)
<1> DEFINE b == SubSeq(buf, 3, Len(buf))
           k == Len(buf)
<1>1. k \in Nat /\ k >= 2
  BY LenProperties, Zenon
<1>2. k <= read /\ (read - k) % 2 = 0 /\ \A i \in 1 .. k : buf[i] = read - k + i
  BY Zenon DEF PipeInput
<1>3. b \in Seq(Nat) /\ Len(b) = k - 2 /\ \A i \in 1 .. k - 2 : b[i] = buf[i + 2]
  <2>1. \A i \in 3 .. k : buf[i] \in Nat
    <3>1. \A i \in 1 .. Len(buf) : buf[i] \in Nat
      BY ElementOfSeq, Zenon
    <3> QED BY <1>1, <3>1, SMT
  <2>2. /\ SubSeq(buf, 3, k) \in Seq(Nat)
        /\ Len(SubSeq(buf, 3, k)) = IF 3 <= k THEN k - 3 + 1 ELSE 0
        /\ \A i \in 1 .. k - 3 + 1 : SubSeq(buf, 3, k)[i] = buf[3 + i - 1]
    <3>1. 3 \in Int /\ k \in Int
      BY <1>1, SMT
    <3> HIDE DEF k
    <3> QED BY <2>1, <3>1, SubSeqProperties, SMT
  <2>3. /\ b \in Seq(Nat)
        /\ Len(b) = IF 3 <= k THEN k - 3 + 1 ELSE 0
        /\ \A i \in 1 .. k - 3 + 1 : b[i] = buf[3 + i - 1]
    BY <2>2, Zenon
  <2> HIDE DEF b, k
  <2>4. Len(b) = k - 2
    BY <1>1, <2>3, SMT
  <2>5. ASSUME NEW i \in 1 .. k - 2 PROVE b[i] = buf[i + 2]
    <3>1. i \in 1 .. k - 3 + 1 /\ 3 + i - 1 = i + 2
      BY <1>1, <2>5, SMT
    <3> QED BY <2>3, <3>1, Zenon
  <2> QED BY <2>3, <2>4, <2>5, Zenon
<1>4. buf[1] = read - k + 1 /\ buf[2] = read - k + 2
  <2>1. 1 \in 1 .. k /\ 2 \in 1 .. k
    <3> HIDE DEF k
    <3> QED BY <1>1, SMT
  <2> QED BY <1>2, <2>1, Zenon
<1> HIDE DEF b, k
<1>5. buf[1] % 2 # 0 /\ buf[2] = buf[1] + 1
  <2>1. \A m \in Nat : m % 2 = 0 => (m + 1) % 2 # 0 /\ m + 2 = m + 1 + 1
    BY SMT
  <2>2. read - k \in Nat
    BY <1>1, <1>2, SMT
  <2>3. (read - k + 1) % 2 # 0 /\ read - k + 2 = read - k + 1 + 1
    BY <1>2, <2>1, <2>2, Zenon
  <2> QED BY <1>4, <2>3, Zenon
<1>6. PipeInput(TRUE, b, read)
  <2>1. Len(b) <= read /\ (read - Len(b)) % 2 = 0
    <3>1. \A m \in Nat : m % 2 = 0 => (m + 2) % 2 = 0
      BY SMT
    <3>2. read - k \in Nat /\ read - Len(b) = read - k + 2 /\ Len(b) <= read
      BY <1>1, <1>2, <1>3, SMT
    <3> QED BY <1>2, <3>1, <3>2, Zenon
  <2>2. ASSUME NEW i \in 1 .. Len(b) PROVE b[i] = read - Len(b) + i
    <3>1. i \in 1 .. k - 2 /\ i + 2 \in 1 .. k
      BY <1>1, <1>3, <2>2, SMT
    <3>2. b[i] = read - k + (i + 2)
      BY <1>2, <1>3, <3>1, Zenon
    <3> QED BY <1>1, <1>3, <3>1, <3>2, SMT
  <2> QED BY <2>1, <2>2, Zenon DEF PipeInput
<1> QED BY <1>3, <1>5, <1>6, Zenon DEF b, k

\* What the queues and the buffer are is not disturbed by a step that leaves them alone.
LEMMA PipeSame ==
  ASSUME PipeServing' = PipeServing, link'.sess = link.sess
  PROVE  /\ /\ PipeQueued /\ link'.got = link.got /\ sv'.infl = sv.infl /\ sv'.pend = sv.pend /\ link'.next = link.next
            => PipeQueued'
         /\ /\ PipeRead /\ sv'.buf = sv.buf /\ link'.read = link.read /\ sv'.misframed = sv.misframed
            => PipeRead'
BY Zenon DEF PipeQueued, PipeRead

LEMMA PipeFields ==
  ASSUME PipeTyped
  PROVE  /\ sv.pc \in PipePlaces /\ sv.conn \in BOOLEAN /\ sv.rp \in BOOLEAN /\ sv.wp \in BOOLEAN /\ sv.io \in BOOLEAN
         /\ sv.we \in BOOLEAN /\ sv.wake \in BOOLEAN /\ sv.pend \in Seq(PipeMessages) /\ sv.infl \in Seq(PipePieces)
         /\ sv.buf \in Seq(Nat) /\ sv.ret \in {"read", "pump"} /\ sv.misframed \in BOOLEAN
         /\ link.client \in {"none", "open", "closed"} /\ link.sess \in Nat /\ link.out \in Nat /\ link.read \in Nat
         /\ link.got \in Seq(PipePieces) /\ link.next \in Nat
         /\ svc.proc \in {"stopped", "running"} /\ svc.stop \in BOOLEAN /\ svc.vpn \in BOOLEAN
         /\ svc.sender \in {"idle", "pushed"} /\ PipeServing \in BOOLEAN
BY Zenon DEF PipeTyped, TheServer, TheLink, TheService, PipeServing, Serving

LEMMA PipeOutsideSteps ==
  ASSUME PipeOK, \/ Pipe!VpnWakes \/ Pipe!ReadCompletes \/ Pipe!ConnectFails \/ Pipe!ServiceStop \/ Pipe!StartAgain
                 \/ Pipe!ClientWrites \/ Pipe!ClientResets \/ Pipe!ControlStop \/ Pipe!ServiceStopped
  PROVE  PipeOK'
<1>0. PipeTyped /\ PipeStaged /\ PipeQueued /\ PipeRead /\ PipeAwake /\ PipeRuns
  BY Zenon DEF PipeOK
<1>1. CASE Pipe!VpnWakes
  <2>1. /\ sv' \in TheServer /\ sv'.pc = sv.pc /\ sv'.conn = sv.conn /\ sv'.rp = sv.rp /\ sv'.wp = sv.wp
        /\ sv'.io = sv.io /\ sv'.we = sv.we /\ sv'.wake = TRUE /\ sv'.pend = sv.pend /\ sv'.infl = sv.infl
        /\ sv'.buf = sv.buf /\ sv'.ret = sv.ret /\ sv'.misframed = sv.misframed /\ link' = link
        /\ svc' \in TheService /\ svc'.proc = svc.proc /\ svc'.stop = svc.stop /\ svc'.vpn = svc.vpn
        /\ svc'.sender = "idle" /\ ctl' = ctl
    BY <1>0, <1>1, PipeFields, Zenon DEF Pipe!VpnWakes, PipeTyped, TheServer, TheService
  <2>2. PipeServing' = PipeServing
    BY <1>0, <2>1, PipeFields, SMT DEF PipeServing, Serving, PipePlaces, PipeStaged, PipeStage
  <2>3. PipeStaged' /\ PipeAwake' /\ PipeRuns'
    BY <1>0, <2>1, <2>2, PipeFields, SMT DEF PipeStaged, PipeStage, Serving, PipeServing, PipeAwake, PipeBusy, PipeRuns, PipePlaces
  <2> QED BY <1>0, <2>1, <2>2, <2>3, PipeSame, Zenon DEF PipeOK, PipeTyped
<1>2. CASE Pipe!ReadCompletes
  <2>1. /\ sv' \in TheServer /\ sv'.pc = sv.pc /\ sv'.conn = sv.conn /\ sv'.rp = sv.rp /\ sv'.wp = sv.wp
        /\ sv'.io = TRUE /\ sv'.we = sv.we /\ sv'.wake = sv.wake /\ sv'.pend = sv.pend /\ sv'.infl = sv.infl
        /\ sv'.buf = sv.buf /\ sv'.ret = sv.ret /\ sv'.misframed = sv.misframed /\ link' = link /\ svc' = svc
        /\ sv.rp /\ ctl' = ctl
    BY <1>0, <1>2, PipeFields, Zenon DEF Pipe!ReadCompletes, PipeTyped, TheServer
  <2>2. PipeServing' = PipeServing
    BY <1>0, <2>1, PipeFields, SMT DEF PipeServing, Serving, PipePlaces, PipeStaged, PipeStage
  <2>3. PipeStaged' /\ PipeAwake' /\ PipeRuns'
    BY <1>0, <2>1, <2>2, PipeFields, SMT DEF PipeStaged, PipeStage, Serving, PipeServing, PipeAwake, PipeBusy, PipeRuns, PipePlaces
  <2> QED BY <1>0, <2>1, <2>2, <2>3, PipeSame, Zenon DEF PipeOK, PipeTyped
<1>3. CASE Pipe!ConnectFails
  <2>1. /\ sv' = sv /\ link' = link /\ svc' = svc /\ ctl' = "idle"
    BY <1>0, <1>3, PipeFields, Zenon DEF Pipe!ConnectFails, PipeTyped
  <2>2. PipeServing' = PipeServing
    BY <1>0, <2>1, PipeFields, SMT DEF PipeServing, Serving, PipePlaces, PipeStaged, PipeStage
  <2>3. PipeStaged' /\ PipeAwake' /\ PipeRuns'
    BY <1>0, <2>1, <2>2, PipeFields, SMT DEF PipeStaged, PipeStage, Serving, PipeServing, PipeAwake, PipeBusy, PipeRuns, PipePlaces
  <2> QED BY <1>0, <2>1, <2>2, <2>3, PipeSame, Zenon DEF PipeOK, PipeTyped
<1>4. CASE Pipe!ServiceStop
  <2>1. /\ sv' = sv /\ link' = link /\ svc' = svc /\ ctl' = "stopping"
    BY <1>0, <1>4, PipeFields, Zenon DEF Pipe!ServiceStop, PipeTyped
  <2>2. PipeServing' = PipeServing
    BY <1>0, <2>1, PipeFields, SMT DEF PipeServing, Serving, PipePlaces, PipeStaged, PipeStage
  <2>3. PipeStaged' /\ PipeAwake' /\ PipeRuns'
    BY <1>0, <2>1, <2>2, PipeFields, SMT DEF PipeStaged, PipeStage, Serving, PipeServing, PipeAwake, PipeBusy, PipeRuns, PipePlaces
  <2> QED BY <1>0, <2>1, <2>2, <2>3, PipeSame, Zenon DEF PipeOK, PipeTyped
<1>5. CASE Pipe!StartAgain
  <2>1. /\ sv' = sv /\ link' = link /\ svc' = svc /\ ctl' = "idle"
    BY <1>0, <1>5, PipeFields, Zenon DEF Pipe!StartAgain, PipeTyped
  <2>2. PipeServing' = PipeServing
    BY <1>0, <2>1, PipeFields, SMT DEF PipeServing, Serving, PipePlaces, PipeStaged, PipeStage
  <2>3. PipeStaged' /\ PipeAwake' /\ PipeRuns'
    BY <1>0, <2>1, <2>2, PipeFields, SMT DEF PipeStaged, PipeStage, Serving, PipeServing, PipeAwake, PipeBusy, PipeRuns, PipePlaces
  <2> QED BY <1>0, <2>1, <2>2, <2>3, PipeSame, Zenon DEF PipeOK, PipeTyped
<1>6. CASE Pipe!ClientWrites
  <2>0. link.out + 1 \in Nat
    BY <1>0, PipeFields, SMT
  <2>1. /\ sv' = sv /\ link' \in TheLink /\ link'.client = link.client /\ link'.sess = link.sess
        /\ link'.out = link.out + 1 /\ link'.read = link.read /\ link'.got = link.got /\ link'.next = link.next
        /\ svc' = svc /\ link.client = "open" /\ ctl' = ctl
    BY <1>0, <1>6, <2>0, PipeFields, Zenon DEF Pipe!ClientWrites, PipeTyped, TheLink
  <2>2. PipeServing' = PipeServing
    BY <1>0, <2>1, PipeFields, SMT DEF PipeServing, Serving, PipePlaces, PipeStaged, PipeStage
  <2>3. PipeStaged' /\ PipeAwake' /\ PipeRuns'
    BY <1>0, <2>1, <2>2, PipeFields, SMT DEF PipeStaged, PipeStage, Serving, PipeServing, PipeAwake, PipeBusy, PipeRuns, PipePlaces
  <2> QED BY <1>0, <2>1, <2>2, <2>3, PipeSame, Zenon DEF PipeOK, PipeTyped
<1>7. CASE Pipe!ClientResets
  <2>0. "closing" # "stopped" /\ "idle" # "stopped" /\ "closed" \in {"none", "open", "closed"}
    BY SMT
  <2>1. /\ sv' = sv /\ link' \in TheLink /\ link'.client = "closed" /\ link'.sess = link.sess
        /\ link'.out = link.out /\ link'.read = link.read /\ link'.got = link.got /\ link'.next = link.next
        /\ svc' = svc /\ link.client = "open" /\ ctl' # "stopped"
    BY <1>0, <1>7, <2>0, PipeFields, Zenon DEF Pipe!ClientResets, PipeTyped, TheLink
  <2>2. PipeServing' = PipeServing
    BY <1>0, <2>1, PipeFields, SMT DEF PipeServing, Serving, PipePlaces, PipeStaged, PipeStage
  <2>3. PipeStaged' /\ PipeAwake' /\ PipeRuns'
    BY <1>0, <2>1, <2>2, PipeFields, SMT DEF PipeStaged, PipeStage, Serving, PipeServing, PipeAwake, PipeBusy, PipeRuns, PipePlaces
  <2> QED BY <1>0, <2>1, <2>2, <2>3, PipeSame, Zenon DEF PipeOK, PipeTyped
<1>8. CASE Pipe!ControlStop
  <2>1. CASE svc' = [svc EXCEPT !.stop = TRUE] /\ ctl' = "waiting"
    <3>1. /\ sv' = sv /\ link' = link /\ svc' \in TheService /\ svc'.proc = svc.proc /\ svc'.stop = TRUE
          /\ svc'.vpn = svc.vpn /\ svc'.sender = svc.sender /\ ctl' = "waiting"
      BY <1>0, <2>1, <1>8, PipeFields, Zenon DEF Pipe!ControlStop, PipeTyped, TheService
    <3>2. PipeServing' = PipeServing
      BY <1>0, <3>1, PipeFields, SMT DEF PipeServing, Serving, PipePlaces, PipeStaged, PipeStage
    <3>3. PipeStaged' /\ PipeAwake' /\ PipeRuns'
      BY <1>0, <3>1, <3>2, PipeFields, SMT DEF PipeStaged, PipeStage, Serving, PipeServing, PipeAwake, PipeBusy, PipeRuns, PipePlaces
    <3> QED BY <1>0, <3>1, <3>2, <3>3, PipeSame, Zenon DEF PipeOK, PipeTyped
  <2>2. CASE ctl' = "idle" /\ svc' = svc
    <3>1. /\ sv' = sv /\ link' = link /\ svc' = svc /\ ctl' = "idle"
      BY <1>0, <2>2, <1>8, PipeFields, Zenon DEF Pipe!ControlStop, PipeTyped
    <3>2. PipeServing' = PipeServing
      BY <1>0, <3>1, PipeFields, SMT DEF PipeServing, Serving, PipePlaces, PipeStaged, PipeStage
    <3>3. PipeStaged' /\ PipeAwake' /\ PipeRuns'
      BY <1>0, <3>1, <3>2, PipeFields, SMT DEF PipeStaged, PipeStage, Serving, PipeServing, PipeAwake, PipeBusy, PipeRuns, PipePlaces
    <3> QED BY <1>0, <3>1, <3>2, <3>3, PipeSame, Zenon DEF PipeOK, PipeTyped
  <2> QED BY <1>8, <2>1, <2>2, Zenon DEF Pipe!ControlStop
<1>9. CASE Pipe!ServiceStopped
  <2>1. /\ sv' = sv /\ link' = link /\ svc' = svc /\ (ctl' = "idle" \/ svc.proc = "stopped")
    BY <1>0, <1>9, PipeFields, Zenon DEF Pipe!ServiceStopped, PipeTyped
  <2>2. PipeServing' = PipeServing
    BY <1>0, <2>1, PipeFields, SMT DEF PipeServing, Serving, PipePlaces, PipeStaged, PipeStage
  <2>3. PipeStaged' /\ PipeAwake' /\ PipeRuns'
    BY <1>0, <2>1, <2>2, PipeFields, SMT DEF PipeStaged, PipeStage, Serving, PipeServing, PipeAwake, PipeBusy, PipeRuns, PipePlaces
  <2> QED BY <1>0, <2>1, <2>2, <2>3, PipeSame, Zenon DEF PipeOK, PipeTyped
<1> QED BY <1>1, <1>2, <1>3, <1>4, <1>5, <1>6, <1>7, <1>8, <1>9, Zenon

\* A message that send() appends to the queue of the client comes after everything there.
LEMMA PushedMessage ==
  ASSUME PipeTyped, PipeQueued, PipeServing = TRUE,
         NEW p, p = Append(IF Len(sv.pend) = MaxPending THEN Tail(sv.pend) ELSE sv.pend, Pipe!Message)
  PROVE  /\ p \in Seq(PipeMessages) /\ link.next + 1 \in Nat
         /\ PipeQueues(TRUE, link.got, sv.infl, p, link.sess, link.next + 1)
<1> DEFINE m == Pipe!Message
           q == sv.pend
<1>1. m \in PipeMessages /\ m.sess = link.sess /\ m.no = link.next
  BY PipeFields, Zenon DEF PipeMessages, Pipe!Message
<1>2. /\ q \in Seq(PipeMessages) /\ link.got \in Seq(PipePieces) /\ sv.infl \in Seq(PipePieces)
      /\ link.sess \in Nat /\ link.next \in Nat
      /\ PipeQueues(TRUE, link.got, sv.infl, q, link.sess, link.next)
  BY PipeFields, Zenon DEF PipeQueued
<1>3. p = Append(q, m) \/ (p = Append(Tail(q), m) /\ Len(q) = MaxPending)
  BY Zenon
<1>4. /\ PipeQueues(TRUE, link.got, sv.infl, Append(q, m), link.sess, link.next + 1)
      /\ q # <<>> => PipeQueues(TRUE, link.got, sv.infl, Append(Tail(q), m), link.sess, link.next + 1)
  <2> HIDE DEF q, m
  <2> QED BY <1>1, <1>2, QueuePush, Zenon
<1>5. Len(q) = MaxPending => q # <<>>
  <2> HIDE DEF q
  <2> QED BY PipeAssumption, EmptySeq, SMT
<1>6. Append(q, m) \in Seq(PipeMessages) /\ (q # <<>> => Append(Tail(q), m) \in Seq(PipeMessages))
  <2> HIDE DEF q, m
  <2>1. \A s \in Seq(PipeMessages) : Append(s, m) \in Seq(PipeMessages)
    BY <1>1, AppendProperties, Zenon
  <2>2. q # <<>> => Tail(q) \in Seq(PipeMessages)
    BY <1>2, HeadTailProperties, Zenon
  <2> QED BY <1>2, <2>1, <2>2, Zenon
<1>7. link.next + 1 \in Nat
  BY <1>2, SMT
<1> QED BY <1>3, <1>4, <1>5, <1>6, <1>7, Zenon

LEMMA PipeSends ==
  ASSUME PipeOK, Pipe!VpnSends
  PROVE  PipeOK'
<1>0. PipeTyped /\ PipeStaged /\ PipeQueued /\ PipeRead /\ PipeAwake /\ PipeRuns
  BY Zenon DEF PipeOK
<1> DEFINE p == Append(IF Len(sv.pend) = MaxPending THEN Tail(sv.pend) ELSE sv.pend, Pipe!Message)
<1>1. /\ link' = [link EXCEPT !.next = link.next + 1] /\ svc.vpn /\ svc.sender = "idle" /\ ctl' = ctl
      /\ svc' = [svc EXCEPT !.sender = IF sv.conn THEN "pushed" ELSE "idle"]
      /\ sv' = IF ~sv.conn THEN sv ELSE [sv EXCEPT !.pend = p]
  BY Zenon DEF Pipe!VpnSends, Pipe!Pushed
<1>2. link.next + 1 \in Nat
  BY <1>0, PipeFields, SMT
<1>3. CASE ~sv.conn
  <2>1. /\ sv' = sv /\ link' \in TheLink /\ link'.client = link.client /\ link'.sess = link.sess
        /\ link'.out = link.out /\ link'.read = link.read /\ link'.got = link.got /\ link'.next = link.next + 1
        /\ svc' \in TheService /\ svc'.proc = svc.proc /\ svc'.stop = svc.stop /\ svc'.vpn = svc.vpn
        /\ svc'.sender = svc.sender /\ ctl' = ctl
    BY <1>0, <1>3, <1>1, <1>2, PipeFields, Zenon DEF PipeTyped, TheLink, TheService
  <2>2. PipeServing' = PipeServing
    BY <1>0, <2>1, PipeFields, SMT DEF PipeServing, Serving, PipePlaces, PipeStaged, PipeStage
  <2>3. PipeStaged' /\ PipeAwake' /\ PipeRuns'
    BY <1>0, <2>1, <2>2, PipeFields, SMT DEF PipeStaged, PipeStage, Serving, PipeServing, PipeAwake, PipeBusy, PipeRuns, PipePlaces
  <2>4. PipeQueued'
    <3>1. PipeQueues(PipeServing, link.got, sv.infl, sv.pend, link.sess, link.next)
      BY <1>0, Zenon DEF PipeQueued
    <3>2. /\ link.got \in Seq(PipePieces) /\ sv.infl \in Seq(PipePieces) /\ sv.pend \in Seq(PipeMessages)
          /\ link.sess \in Nat /\ link.next \in Nat
      BY <1>0, PipeFields, Zenon
    <3>3. PipeServing \in BOOLEAN
      BY Zenon DEF PipeServing, Serving
    <3>4. PipeQueues(PipeServing, link.got, sv.infl, sv.pend, link.sess, link.next + 1)
      BY <3>1, <3>2, <3>3, QueueSkip, Zenon
    <3> QED BY <2>1, <2>2, <3>4, Zenon DEF PipeQueued
  <2> QED BY <1>0, <2>1, <2>2, <2>3, <2>4, PipeSame, Zenon DEF PipeOK, PipeTyped
<1>4. ASSUME sv.conn PROVE p \in Seq(PipeMessages) /\ PipeQueues(TRUE, link.got, sv.infl, p, link.sess, link.next + 1)
  <2>1. PipeServing = TRUE
    BY <1>4, Zenon DEF PipeServing, Serving
  <2> HIDE DEF p
  <2>2. p = Append(IF Len(sv.pend) = MaxPending THEN Tail(sv.pend) ELSE sv.pend, Pipe!Message)
    BY DEF p
  <2> QED BY <1>0, <2>1, <2>2, PushedMessage, Zenon
<1> HIDE DEF p
<1>5. CASE sv.conn
  <2>1. /\ sv' \in TheServer /\ sv'.pc = sv.pc /\ sv'.conn = sv.conn /\ sv'.rp = sv.rp /\ sv'.wp = sv.wp
        /\ sv'.io = sv.io /\ sv'.we = sv.we /\ sv'.wake = sv.wake /\ sv'.pend = p /\ sv'.infl = sv.infl
        /\ sv'.buf = sv.buf /\ sv'.ret = sv.ret /\ sv'.misframed = sv.misframed /\ link' \in TheLink
        /\ link'.client = link.client /\ link'.sess = link.sess /\ link'.out = link.out
        /\ link'.read = link.read /\ link'.got = link.got /\ link'.next = link.next + 1 /\ svc' \in TheService
        /\ svc'.proc = svc.proc /\ svc'.stop = svc.stop /\ svc'.vpn = svc.vpn /\ svc'.sender = "pushed"
        /\ sv.conn /\ ctl' = ctl
    BY <1>0, <1>5, <1>1, <1>2, <1>4, PipeFields, Zenon DEF PipeTyped, TheServer, TheLink, TheService
  <2>2. PipeServing' = PipeServing /\ PipeServing' = TRUE
    BY <1>0, <2>1, PipeFields, SMT DEF PipeServing, Serving, PipePlaces, PipeStaged, PipeStage
  <2>3. PipeStaged' /\ PipeAwake' /\ PipeRuns'
    BY <1>0, <2>1, <2>2, PipeFields, SMT DEF PipeStaged, PipeStage, Serving, PipeServing, PipeAwake, PipeBusy, PipeRuns, PipePlaces
  <2>4. PipeQueued'
    BY <1>4, <1>5, <2>1, <2>2, Zenon DEF PipeQueued
  <2> QED BY <1>0, <2>1, <2>2, <2>3, <2>4, PipeSame, Zenon DEF PipeOK, PipeTyped
<1>6. sv.conn \in BOOLEAN
  BY <1>0, PipeFields, Zenon
<1> QED BY <1>3, <1>5, <1>6, Zenon

LEMMA PipeConnects ==
  ASSUME PipeOK, Pipe!StartConnect
  PROVE  PipeOK'
<1>0. PipeTyped /\ PipeStaged /\ PipeQueued /\ PipeRead /\ PipeAwake /\ PipeRuns
  BY Zenon DEF PipeOK
<1>1. /\ sv.pc = "connect" /\ link' = link /\ svc' = svc /\ ctl' = ctl
      /\ sv' = IF link.client = "none"
               THEN [[sv EXCEPT !.pc = "wait", !.rp = FALSE, !.wp = FALSE, !.buf = <<>>, !.io = FALSE, !.we = FALSE]
                     EXCEPT !.conn = FALSE]
               ELSE [[sv EXCEPT !.pc = "wait", !.rp = FALSE, !.wp = FALSE, !.buf = <<>>, !.io = FALSE, !.we = FALSE]
                     EXCEPT !.conn = TRUE, !.wake = TRUE]
  BY Zenon DEF Pipe!StartConnect
<1>2. PipeServing = FALSE /\ sv.conn = FALSE /\ link.read = 0 /\ (link.client # "none" => link.got = <<>>)
  BY <1>0, <1>1, PipeFields, SMT DEF PipeServing, Serving, PipeStaged, PipeStage
<1>3. sv.infl = <<>> /\ sv.pend = <<>> /\ sv.buf = <<>> /\ ~sv.misframed
  BY <1>0, <1>2, Zenon DEF PipeQueued, PipeQueues, InFlight, PipePending, PipeRead, PipeInput
<1>4. "wait" \in PipePlaces /\ <<>> \in Seq(Nat)
  BY EmptySeq, Zenon DEF PipePlaces
<1>5. CASE link.client = "none"
  <2>1. /\ sv' \in TheServer /\ sv'.pc = "wait" /\ sv'.conn = FALSE /\ sv'.rp = FALSE /\ sv'.wp = FALSE
        /\ sv'.io = FALSE /\ sv'.we = FALSE /\ sv'.wake = sv.wake /\ sv'.pend = sv.pend /\ sv'.infl = sv.infl
        /\ sv'.buf = <<>> /\ sv'.ret = sv.ret /\ sv'.misframed = sv.misframed /\ link' = link /\ svc' = svc
        /\ ctl' = ctl
    BY <1>0, <1>5, <1>1, <1>4, PipeFields, Zenon DEF PipeTyped, TheServer
  <2>2. PipeServing' = PipeServing
    BY <1>0, <2>1, <1>1, <1>2, <1>5, PipeFields, SMT DEF PipeServing, Serving, PipePlaces, PipeStaged, PipeStage
  <2>3. PipeStaged' /\ PipeAwake' /\ PipeRuns'
    BY <1>0, <2>1, <2>2, <1>1, <1>2, <1>5, PipeFields, SMT DEF PipeStaged, PipeStage, Serving, PipeServing, PipeAwake, PipeBusy, PipeRuns, PipePlaces
  <2>5. PipeRead'
    BY <1>0, <1>2, <1>3, <2>1, <2>2, Zenon DEF PipeRead
  <2> QED BY <1>0, <2>1, <2>2, <2>3, <2>5, PipeSame, Zenon DEF PipeOK, PipeTyped
<1>6. CASE link.client # "none"
  <2>1. /\ sv' \in TheServer /\ sv'.pc = "wait" /\ sv'.conn = TRUE /\ sv'.rp = FALSE /\ sv'.wp = FALSE
        /\ sv'.io = FALSE /\ sv'.we = FALSE /\ sv'.wake = TRUE /\ sv'.pend = sv.pend /\ sv'.infl = sv.infl
        /\ sv'.buf = <<>> /\ sv'.ret = sv.ret /\ sv'.misframed = sv.misframed /\ link' = link /\ svc' = svc
        /\ ctl' = ctl
    BY <1>0, <1>6, <1>1, <1>4, PipeFields, Zenon DEF PipeTyped, TheServer
  <2>2. PipeServing' = TRUE
    BY <1>0, <2>1, <1>1, <1>2, <1>3, <1>6, PipeFields, SMT DEF PipeServing, Serving, PipePlaces, PipeStaged, PipeStage
  <2>3. PipeStaged' /\ PipeAwake' /\ PipeRuns'
    BY <1>0, <2>1, <2>2, <1>1, <1>2, <1>3, <1>6, PipeFields, SMT DEF PipeStaged, PipeStage, Serving, PipeServing, PipeAwake, PipeBusy, PipeRuns, PipePlaces
  <2>4. PipeQueued'
    BY <1>2, <1>3, <1>6, <2>1, <2>2, QueueNew, Zenon DEF PipeQueued
  <2>5. PipeRead'
    BY <1>2, <1>3, <2>1, <2>2, InputNone, Zenon DEF PipeRead
  <2> QED BY <1>0, <2>1, <2>2, <2>3, <2>4, <2>5, Zenon DEF PipeOK, PipeTyped
<1> QED BY <1>5, <1>6, Zenon

\* A read that completes has read what follows the buffer.
LEMMA ArrivedFollows ==
  ASSUME PipeTyped, PipeStaged, PipeRead, PipeServing = TRUE, NEW b, b = sv.buf \o Pipe!Arrived(sv)
  PROVE  PipeInput(TRUE, b, link.out) /\ b \in Seq(Nat)
<1>1. /\ PipeInput(TRUE, sv.buf, link.read) /\ link.read <= link.out
  BY Zenon DEF PipeRead, PipeStaged, PipeStage
<1>2. b = sv.buf \o [i \in 1 .. link.out - link.read |-> link.read + i]
  BY Zenon DEF Pipe!Arrived
<1> QED BY <1>1, <1>2, PipeFields, InputArrives, Zenon

LEMMA PipeWaits ==
  ASSUME PipeOK, Pipe!Wait
  PROVE  PipeOK'
<1>0. PipeTyped /\ PipeStaged /\ PipeQueued /\ PipeRead /\ PipeAwake /\ PipeRuns
  BY Zenon DEF PipeOK
<1>1. sv.pc = "wait" /\ ctl' = ctl
  BY Zenon DEF Pipe!Wait
<1>2. {"ended", "read", "disconnect", "input"} \subseteq PipePlaces
  BY Zenon DEF PipePlaces
<1>3. CASE sv' = [sv EXCEPT !.pc = "ended"] /\ link' = link /\ svc' = svc
  <2>1. /\ sv' \in TheServer /\ sv'.pc = "ended" /\ sv'.conn = sv.conn /\ sv'.rp = sv.rp /\ sv'.wp = sv.wp
        /\ sv'.io = sv.io /\ sv'.we = sv.we /\ sv'.wake = sv.wake /\ sv'.pend = sv.pend /\ sv'.infl = sv.infl
        /\ sv'.buf = sv.buf /\ sv'.ret = sv.ret /\ sv'.misframed = sv.misframed /\ link' = link /\ svc' = svc
        /\ ctl' = ctl
    BY <1>0, <1>3, <1>1, <1>2, PipeFields, Zenon DEF PipeTyped, TheServer
  <2>2. PipeServing' = PipeServing
    BY <1>0, <2>1, <1>1, PipeFields, SMT DEF PipeServing, Serving, PipePlaces, PipeStaged, PipeStage
  <2>3. PipeStaged' /\ PipeAwake' /\ PipeRuns'
    BY <1>0, <2>1, <2>2, <1>1, PipeFields, SMT DEF PipeStaged, PipeStage, Serving, PipeServing, PipeAwake, PipeBusy, PipeRuns, PipePlaces
  <2> QED BY <1>0, <2>1, <2>2, <2>3, PipeSame, Zenon DEF PipeOK, PipeTyped
<1>4. CASE sv' = [sv EXCEPT !.wake = FALSE, !.pc = "read"] /\ link' = link /\ svc' = svc
  <2>1. /\ sv' \in TheServer /\ sv'.pc = "read" /\ sv'.conn = sv.conn /\ sv'.rp = sv.rp /\ sv'.wp = sv.wp
        /\ sv'.io = sv.io /\ sv'.we = sv.we /\ sv'.wake = FALSE /\ sv'.pend = sv.pend /\ sv'.infl = sv.infl
        /\ sv'.buf = sv.buf /\ sv'.ret = sv.ret /\ sv'.misframed = sv.misframed /\ link' = link /\ svc' = svc
        /\ ctl' = ctl
    BY <1>0, <1>4, <1>1, <1>2, PipeFields, Zenon DEF PipeTyped, TheServer
  <2>2. PipeServing' = PipeServing
    BY <1>0, <2>1, <1>1, PipeFields, SMT DEF PipeServing, Serving, PipePlaces, PipeStaged, PipeStage
  <2>3. PipeStaged' /\ PipeAwake' /\ PipeRuns'
    BY <1>0, <2>1, <2>2, <1>1, PipeFields, SMT DEF PipeStaged, PipeStage, Serving, PipeServing, PipeAwake, PipeBusy, PipeRuns, PipePlaces
  <2> QED BY <1>0, <2>1, <2>2, <2>3, PipeSame, Zenon DEF PipeOK, PipeTyped
<1>5. CASE /\ sv.io /\ svc' = svc
           /\ LET s == Pipe!IoEvent(sv)
              IN  IF s.pc = "input"
                  THEN sv' = [s EXCEPT !.buf = s.buf \o Pipe!Arrived(sv)] /\ link' = [link EXCEPT !.read = link.out]
                  ELSE sv' = s /\ link' = link
  <2> DEFINE s == Pipe!IoEvent(sv)
             b == sv.buf \o Pipe!Arrived(sv)
  <2>0. "read" # "input" /\ "disconnect" # "input"
    BY SMT
  <2>1. IF s.pc = "input" THEN sv' = [s EXCEPT !.buf = s.buf \o Pipe!Arrived(sv)] /\ link' = [link EXCEPT !.read = link.out]
                          ELSE sv' = s /\ link' = link
    BY <1>5, Zenon
  <2>2. ASSUME ~sv.conn PROVE s = [sv EXCEPT !.io = FALSE, !.conn = TRUE, !.pc = "read"]
    BY <2>2 DEF Pipe!IoEvent
  <2>3. ASSUME sv.conn, ~sv.rp PROVE s = [sv EXCEPT !.pc = "read"]
    BY <2>3 DEF Pipe!IoEvent
  <2>4. ASSUME sv.conn, sv.rp, link.out = link.read PROVE s = [sv EXCEPT !.pc = "disconnect"]
    BY <2>4 DEF Pipe!IoEvent
  <2>5. ASSUME sv.conn, sv.rp, link.out # link.read
        PROVE  s = [sv EXCEPT !.io = FALSE, !.rp = FALSE, !.pc = "input", !.ret = "read"]
    BY <2>5 DEF Pipe!IoEvent
  <2> HIDE DEF s
  <2>7. CASE ~sv.conn
    <3>0. sv' = [sv EXCEPT !.io = FALSE, !.conn = TRUE, !.pc = "read"] /\ link' = link
      <4>1. s = [sv EXCEPT !.io = FALSE, !.conn = TRUE, !.pc = "read"]
        BY <2>2, <2>7, Zenon
      <4>2. s.pc = "read"
        BY <1>0, <4>1, Zenon DEF PipeTyped, TheServer
      <4> QED BY <2>0, <2>1, <4>1, <4>2, Zenon
    <3>1. /\ sv' \in TheServer /\ sv'.pc = "read" /\ sv'.conn = TRUE /\ sv'.rp = sv.rp /\ sv'.wp = sv.wp
          /\ sv'.io = FALSE /\ sv'.we = sv.we /\ sv'.wake = sv.wake /\ sv'.pend = sv.pend /\ sv'.infl = sv.infl
          /\ sv'.buf = sv.buf /\ sv'.ret = sv.ret /\ sv'.misframed = sv.misframed /\ link' = link /\ svc' = svc
          /\ ctl' = ctl
      BY <1>0, <2>7, <1>1, <1>2, <1>5, <3>0, PipeFields, Zenon DEF PipeTyped, TheServer
    <3>2. PipeServing' = TRUE
      BY <1>0, <3>1, <1>1, <1>5, <2>7, PipeFields, SMT DEF PipeServing, Serving, PipePlaces, PipeStaged, PipeStage
    <3>3. PipeStaged' /\ PipeAwake' /\ PipeRuns'
      BY <1>0, <3>1, <3>2, <1>1, <1>5, <2>7, PipeFields, SMT DEF PipeStaged, PipeStage, Serving, PipeServing, PipeAwake, PipeBusy, PipeRuns, PipePlaces
    <3>4. PipeQueued'
      <4>1. PipeServing = FALSE /\ link.got = <<>>
        BY <1>0, <1>1, <1>5, <2>7, PipeFields, SMT DEF PipeServing, Serving, PipeStaged, PipeStage
      <4>2. sv.infl = <<>> /\ sv.pend = <<>>
        BY <1>0, <4>1, Zenon DEF PipeQueued, PipeQueues, InFlight, PipePending
      <4> QED BY <3>1, <3>2, <4>1, <4>2, QueueNew, Zenon DEF PipeQueued
    <3>5. PipeRead'
      <4>1. PipeServing = FALSE /\ link.read = 0
        BY <1>0, <1>1, <2>7, PipeFields, SMT DEF PipeServing, Serving, PipeStaged, PipeStage
      <4>2. sv.buf = <<>> /\ ~sv.misframed
        BY <1>0, <4>1, Zenon DEF PipeRead, PipeInput
      <4> QED BY <3>1, <3>2, <4>1, <4>2, InputNone, Zenon DEF PipeRead
    <3> QED BY <1>0, <3>1, <3>2, <3>3, <3>4, <3>5, Zenon DEF PipeOK, PipeTyped
  <2>8. CASE sv.conn /\ ~sv.rp
    <3>0. sv' = [sv EXCEPT !.pc = "read"] /\ link' = link
      <4>1. s = [sv EXCEPT !.pc = "read"]
        BY <2>3, <2>8, Zenon
      <4>2. s.pc = "read"
        BY <1>0, <4>1, Zenon DEF PipeTyped, TheServer
      <4> QED BY <2>0, <2>1, <4>1, <4>2, Zenon
    <3>1. /\ sv' \in TheServer /\ sv'.pc = "read" /\ sv'.conn = sv.conn /\ sv'.rp = sv.rp /\ sv'.wp = sv.wp
          /\ sv'.io = sv.io /\ sv'.we = sv.we /\ sv'.wake = sv.wake /\ sv'.pend = sv.pend /\ sv'.infl = sv.infl
          /\ sv'.buf = sv.buf /\ sv'.ret = sv.ret /\ sv'.misframed = sv.misframed /\ link' = link /\ svc' = svc
          /\ ctl' = ctl
      BY <1>0, <2>8, <1>1, <1>2, <1>5, <3>0, PipeFields, Zenon DEF PipeTyped, TheServer
    <3>2. PipeServing' = PipeServing
      BY <1>0, <3>1, <1>1, <2>8, PipeFields, SMT DEF PipeServing, Serving, PipePlaces, PipeStaged, PipeStage
    <3>3. PipeStaged' /\ PipeAwake' /\ PipeRuns'
      BY <1>0, <3>1, <3>2, <1>1, <2>8, PipeFields, SMT DEF PipeStaged, PipeStage, Serving, PipeServing, PipeAwake, PipeBusy, PipeRuns, PipePlaces
    <3> QED BY <1>0, <3>1, <3>2, <3>3, PipeSame, Zenon DEF PipeOK, PipeTyped
  <2>9. CASE sv.conn /\ sv.rp /\ link.out = link.read
    <3>0. sv' = [sv EXCEPT !.pc = "disconnect"] /\ link' = link
      <4>1. s = [sv EXCEPT !.pc = "disconnect"]
        BY <2>4, <2>9, Zenon
      <4>2. s.pc = "disconnect"
        BY <1>0, <4>1, Zenon DEF PipeTyped, TheServer
      <4> QED BY <2>0, <2>1, <4>1, <4>2, Zenon
    <3>1. /\ sv' \in TheServer /\ sv'.pc = "disconnect" /\ sv'.conn = sv.conn /\ sv'.rp = sv.rp /\ sv'.wp = sv.wp
          /\ sv'.io = sv.io /\ sv'.we = sv.we /\ sv'.wake = sv.wake /\ sv'.pend = sv.pend /\ sv'.infl = sv.infl
          /\ sv'.buf = sv.buf /\ sv'.ret = sv.ret /\ sv'.misframed = sv.misframed /\ link' = link /\ svc' = svc
          /\ ctl' = ctl
      BY <1>0, <2>9, <1>1, <1>2, <1>5, <3>0, PipeFields, Zenon DEF PipeTyped, TheServer
    <3>2. PipeServing' = PipeServing
      BY <1>0, <3>1, <1>1, <2>9, PipeFields, SMT DEF PipeServing, Serving, PipePlaces, PipeStaged, PipeStage
    <3>3. PipeStaged' /\ PipeAwake' /\ PipeRuns'
      BY <1>0, <3>1, <3>2, <1>1, <2>9, PipeFields, SMT DEF PipeStaged, PipeStage, Serving, PipeServing, PipeAwake, PipeBusy, PipeRuns, PipePlaces
    <3> QED BY <1>0, <3>1, <3>2, <3>3, PipeSame, Zenon DEF PipeOK, PipeTyped
  <2>10. CASE sv.conn /\ sv.rp /\ link.out # link.read
    <3>1. PipeServing = TRUE
      BY <2>10, Zenon DEF PipeServing, Serving
    <3>2. PipeInput(TRUE, b, link.out) /\ b \in Seq(Nat)
      <4> HIDE DEF b
      <4>1. b = sv.buf \o Pipe!Arrived(sv)
        BY DEF b
      <4> QED BY <1>0, <3>1, <4>1, ArrivedFollows, Zenon
    <3> HIDE DEF b
    <3>3. s = [sv EXCEPT !.io = FALSE, !.rp = FALSE, !.pc = "input", !.ret = "read"]
      BY <2>5, <2>10, Zenon
    <3>4. s \in TheServer /\ s.pc = "input" /\ s.buf = sv.buf
      BY <1>0, <1>2, <3>3, Zenon DEF PipeTyped, TheServer
    <3>5. sv' = [s EXCEPT !.buf = b] /\ link' = [link EXCEPT !.read = link.out]
      BY <2>1, <3>4, Zenon DEF b
    <3>6. PipeOK'
      <4>1. /\ sv' \in TheServer /\ sv'.pc = "input" /\ sv'.conn = sv.conn /\ sv'.rp = FALSE /\ sv'.wp = sv.wp
            /\ sv'.io = FALSE /\ sv'.we = sv.we /\ sv'.wake = sv.wake /\ sv'.pend = sv.pend /\ sv'.infl = sv.infl
            /\ sv'.buf = b /\ sv'.ret = "read" /\ sv'.misframed = sv.misframed /\ link' \in TheLink
            /\ link'.client = link.client /\ link'.sess = link.sess /\ link'.out = link.out /\ link'.read = link.out
            /\ link'.got = link.got /\ link'.next = link.next /\ svc' = svc /\ ctl' = ctl
        BY <1>0, <1>1, <1>2, <1>5, <3>2, <3>3, <3>5, PipeFields, Zenon DEF PipeTyped, TheServer, TheLink
      <4>2. PipeServing' = PipeServing /\ PipeServing' = TRUE
        BY <1>0, <4>1, <1>1, <2>10, PipeFields, SMT DEF PipeServing, Serving, PipePlaces, PipeStaged, PipeStage
      <4>3. PipeStaged' /\ PipeAwake' /\ PipeRuns'
        BY <1>0, <4>1, <4>2, <1>1, <2>10, PipeFields, SMT DEF PipeStaged, PipeStage, Serving, PipeServing, PipeAwake, PipeBusy, PipeRuns, PipePlaces
      <4>5. PipeRead'
        BY <1>0, <3>2, <4>1, <4>2, Zenon DEF PipeRead
      <4> QED BY <1>0, <4>1, <4>2, <4>3, <4>5, PipeSame, Zenon DEF PipeOK, PipeTyped
    <3> QED BY <3>6, Zenon
  <2>11. sv.conn \in BOOLEAN /\ sv.rp \in BOOLEAN
    BY <1>0, PipeFields, Zenon
  <2> QED BY <2>7, <2>8, <2>9, <2>10, <2>11, Zenon
<1>6. CASE sv' = [sv EXCEPT !.pc = "disconnect"] /\ sv.we /\ link' = link /\ svc' = svc
  <2>1. /\ sv' \in TheServer /\ sv'.pc = "disconnect" /\ sv'.conn = sv.conn /\ sv'.rp = sv.rp /\ sv'.wp = sv.wp
        /\ sv'.io = sv.io /\ sv'.we = sv.we /\ sv'.wake = sv.wake /\ sv'.pend = sv.pend /\ sv'.infl = sv.infl
        /\ sv'.buf = sv.buf /\ sv'.ret = sv.ret /\ sv'.misframed = sv.misframed /\ link' = link /\ svc' = svc
        /\ ctl' = ctl
    BY <1>0, <1>6, <1>1, <1>2, PipeFields, Zenon DEF PipeTyped, TheServer
  <2>2. PipeServing' = PipeServing
    BY <1>0, <2>1, <1>1, <1>6, PipeFields, SMT DEF PipeServing, Serving, PipePlaces, PipeStaged, PipeStage
  <2>3. PipeStaged' /\ PipeAwake' /\ PipeRuns'
    BY <1>0, <2>1, <2>2, <1>1, <1>6, PipeFields, SMT DEF PipeStaged, PipeStage, Serving, PipeServing, PipeAwake, PipeBusy, PipeRuns, PipePlaces
  <2> QED BY <1>0, <2>1, <2>2, <2>3, PipeSame, Zenon DEF PipeOK, PipeTyped
<1>7. CASE sv' = [sv EXCEPT !.we = FALSE, !.wp = FALSE, !.pc = "read"] /\ link' = link /\ svc' = svc
  <2>1. /\ sv' \in TheServer /\ sv'.pc = "read" /\ sv'.conn = sv.conn /\ sv'.rp = sv.rp /\ sv'.wp = FALSE
        /\ sv'.io = sv.io /\ sv'.we = FALSE /\ sv'.wake = sv.wake /\ sv'.pend = sv.pend /\ sv'.infl = sv.infl
        /\ sv'.buf = sv.buf /\ sv'.ret = sv.ret /\ sv'.misframed = sv.misframed /\ link' = link /\ svc' = svc
        /\ ctl' = ctl
    BY <1>0, <1>7, <1>1, <1>2, PipeFields, Zenon DEF PipeTyped, TheServer
  <2>2. PipeServing' = PipeServing
    BY <1>0, <2>1, <1>1, PipeFields, SMT DEF PipeServing, Serving, PipePlaces, PipeStaged, PipeStage
  <2>3. PipeStaged' /\ PipeAwake' /\ PipeRuns'
    BY <1>0, <2>1, <2>2, <1>1, PipeFields, SMT DEF PipeStaged, PipeStage, Serving, PipeServing, PipeAwake, PipeBusy, PipeRuns, PipePlaces
  <2> QED BY <1>0, <2>1, <2>2, <2>3, PipeSame, Zenon DEF PipeOK, PipeTyped
<1>8. \/ sv' = [sv EXCEPT !.pc = "ended"] /\ link' = link /\ svc' = svc
      \/ sv' = [sv EXCEPT !.wake = FALSE, !.pc = "read"] /\ link' = link /\ svc' = svc
      \/ /\ sv.io /\ svc' = svc
         /\ LET s == Pipe!IoEvent(sv)
            IN  IF s.pc = "input"
                THEN sv' = [s EXCEPT !.buf = s.buf \o Pipe!Arrived(sv)] /\ link' = [link EXCEPT !.read = link.out]
                ELSE sv' = s /\ link' = link
      \/ sv' = [sv EXCEPT !.pc = "disconnect"] /\ sv.we /\ link' = link /\ svc' = svc
      \/ sv' = [sv EXCEPT !.we = FALSE, !.wp = FALSE, !.pc = "read"] /\ link' = link /\ svc' = svc
  BY Zenon DEF Pipe!Wait
<1> QED BY <1>3, <1>4, <1>5, <1>6, <1>7, <1>8, Zenon

LEMMA PipeReads ==
  ASSUME PipeOK, Pipe!StartRead
  PROVE  PipeOK'
<1>0. PipeTyped /\ PipeStaged /\ PipeQueued /\ PipeRead /\ PipeAwake /\ PipeRuns
  BY Zenon DEF PipeOK
<1>1. sv.pc = "read" /\ svc' = svc /\ ctl' = ctl
  BY Zenon DEF Pipe!StartRead
<1>2. {"pump", "disconnect", "input"} \subseteq PipePlaces
  BY Zenon DEF PipePlaces
<1> DEFINE b == sv.buf \o Pipe!Arrived(sv)
<1>3. \/ (~sv.conn \/ sv.rp) /\ sv' = [sv EXCEPT !.pc = "pump"] /\ link' = link
      \/ /\ sv.conn /\ ~sv.rp /\ link' = [link EXCEPT !.read = link.out]
         /\ \E io \in {sv.io, TRUE} :
               sv' = [sv EXCEPT !.buf = b, !.pc = "input", !.ret = "pump", !.wake = TRUE, !.io = io]
      \/ sv.conn /\ sv' = [sv EXCEPT !.pc = "disconnect"] /\ link' = link
      \/ sv.conn /\ sv' = [sv EXCEPT !.rp = TRUE, !.io = FALSE, !.pc = "pump"] /\ link' = link
  <2>1. CASE ~sv.conn \/ sv.rp
    BY <2>1, SMT DEF Pipe!StartRead
  <2>2. CASE sv.conn /\ ~sv.rp /\ link.out > link.read
    BY <2>2, SMT DEF Pipe!StartRead
  <2>3. CASE sv.conn /\ ~sv.rp /\ ~(link.out > link.read)
    BY <2>3, SMT DEF Pipe!StartRead
  <2>4. sv.conn \in BOOLEAN /\ sv.rp \in BOOLEAN
    BY <1>0, PipeFields, Zenon
  <2> QED BY <2>1, <2>2, <2>3, <2>4, Zenon
<1>4. ASSUME sv.conn PROVE PipeInput(TRUE, b, link.out) /\ b \in Seq(Nat)
  <2>1. PipeServing = TRUE
    BY <1>4, Zenon DEF PipeServing, Serving
  <2> HIDE DEF b
  <2>2. b = sv.buf \o Pipe!Arrived(sv)
    BY DEF b
  <2> QED BY <1>0, <2>1, <2>2, ArrivedFollows, Zenon
<1> HIDE DEF b
<1>5. CASE (~sv.conn \/ sv.rp) /\ sv' = [sv EXCEPT !.pc = "pump"] /\ link' = link
  <2>1. /\ sv' \in TheServer /\ sv'.pc = "pump" /\ sv'.conn = sv.conn /\ sv'.rp = sv.rp /\ sv'.wp = sv.wp
        /\ sv'.io = sv.io /\ sv'.we = sv.we /\ sv'.wake = sv.wake /\ sv'.pend = sv.pend /\ sv'.infl = sv.infl
        /\ sv'.buf = sv.buf /\ sv'.ret = sv.ret /\ sv'.misframed = sv.misframed /\ link' = link /\ svc' = svc
        /\ ctl' = ctl
    BY <1>0, <1>5, <1>1, <1>2, PipeFields, Zenon DEF PipeTyped, TheServer
  <2>2. PipeServing' = PipeServing
    BY <1>0, <2>1, <1>1, <1>5, PipeFields, SMT DEF PipeServing, Serving, PipePlaces, PipeStaged, PipeStage
  <2>3. PipeStaged' /\ PipeAwake' /\ PipeRuns'
    BY <1>0, <2>1, <2>2, <1>1, <1>5, PipeFields, SMT DEF PipeStaged, PipeStage, Serving, PipeServing, PipeAwake, PipeBusy, PipeRuns, PipePlaces
  <2> QED BY <1>0, <2>1, <2>2, <2>3, PipeSame, Zenon DEF PipeOK, PipeTyped
<1>6. ASSUME sv.conn, NEW io \in {sv.io, TRUE}, link' = [link EXCEPT !.read = link.out],
             sv' = [sv EXCEPT !.buf = b, !.pc = "input", !.ret = "pump", !.wake = TRUE, !.io = io]
      PROVE  PipeOK'
  <2>0. io \in BOOLEAN
    BY <1>0, PipeFields, Zenon
  <2>1. /\ sv' \in TheServer /\ sv'.pc = "input" /\ sv'.conn = sv.conn /\ sv'.rp = sv.rp /\ sv'.wp = sv.wp
        /\ sv'.io = io /\ sv'.we = sv.we /\ sv'.wake = TRUE /\ sv'.pend = sv.pend /\ sv'.infl = sv.infl
        /\ sv'.buf = b /\ sv'.ret = "pump" /\ sv'.misframed = sv.misframed /\ link' \in TheLink
        /\ link'.client = link.client /\ link'.sess = link.sess /\ link'.out = link.out /\ link'.read = link.out
        /\ link'.got = link.got /\ link'.next = link.next /\ svc' = svc /\ ctl' = ctl
    BY <1>0, <1>6, <1>1, <1>2, <1>4, <2>0, PipeFields, Zenon DEF PipeTyped, TheServer, TheLink
  <2>2. PipeServing' = PipeServing /\ PipeServing' = TRUE
    BY <1>0, <2>1, <1>1, <1>6, PipeFields, SMT DEF PipeServing, Serving, PipePlaces, PipeStaged, PipeStage
  <2>3. PipeStaged' /\ PipeAwake' /\ PipeRuns'
    BY <1>0, <2>1, <2>2, <1>1, <1>6, PipeFields, SMT DEF PipeStaged, PipeStage, Serving, PipeServing, PipeAwake, PipeBusy, PipeRuns, PipePlaces
  <2>5. PipeRead'
    BY <1>0, <1>4, <1>6, <2>1, <2>2, Zenon DEF PipeRead
  <2> QED BY <1>0, <2>1, <2>2, <2>3, <2>5, PipeSame, Zenon DEF PipeOK, PipeTyped
<1>7. CASE sv.conn /\ sv' = [sv EXCEPT !.pc = "disconnect"] /\ link' = link
  <2>1. /\ sv' \in TheServer /\ sv'.pc = "disconnect" /\ sv'.conn = sv.conn /\ sv'.rp = sv.rp /\ sv'.wp = sv.wp
        /\ sv'.io = sv.io /\ sv'.we = sv.we /\ sv'.wake = sv.wake /\ sv'.pend = sv.pend /\ sv'.infl = sv.infl
        /\ sv'.buf = sv.buf /\ sv'.ret = sv.ret /\ sv'.misframed = sv.misframed /\ link' = link /\ svc' = svc
        /\ ctl' = ctl
    BY <1>0, <1>7, <1>1, <1>2, PipeFields, Zenon DEF PipeTyped, TheServer
  <2>2. PipeServing' = PipeServing
    BY <1>0, <2>1, <1>1, <1>7, PipeFields, SMT DEF PipeServing, Serving, PipePlaces, PipeStaged, PipeStage
  <2>3. PipeStaged' /\ PipeAwake' /\ PipeRuns'
    BY <1>0, <2>1, <2>2, <1>1, <1>7, PipeFields, SMT DEF PipeStaged, PipeStage, Serving, PipeServing, PipeAwake, PipeBusy, PipeRuns, PipePlaces
  <2> QED BY <1>0, <2>1, <2>2, <2>3, PipeSame, Zenon DEF PipeOK, PipeTyped
<1>8. CASE sv.conn /\ sv' = [sv EXCEPT !.rp = TRUE, !.io = FALSE, !.pc = "pump"] /\ link' = link
  <2>1. /\ sv' \in TheServer /\ sv'.pc = "pump" /\ sv'.conn = sv.conn /\ sv'.rp = TRUE /\ sv'.wp = sv.wp
        /\ sv'.io = FALSE /\ sv'.we = sv.we /\ sv'.wake = sv.wake /\ sv'.pend = sv.pend /\ sv'.infl = sv.infl
        /\ sv'.buf = sv.buf /\ sv'.ret = sv.ret /\ sv'.misframed = sv.misframed /\ link' = link /\ svc' = svc
        /\ ctl' = ctl
    BY <1>0, <1>8, <1>1, <1>2, PipeFields, Zenon DEF PipeTyped, TheServer
  <2>2. PipeServing' = PipeServing
    BY <1>0, <2>1, <1>1, <1>8, PipeFields, SMT DEF PipeServing, Serving, PipePlaces, PipeStaged, PipeStage
  <2>3. PipeStaged' /\ PipeAwake' /\ PipeRuns'
    BY <1>0, <2>1, <2>2, <1>1, <1>8, PipeFields, SMT DEF PipeStaged, PipeStage, Serving, PipeServing, PipeAwake, PipeBusy, PipeRuns, PipePlaces
  <2> QED BY <1>0, <2>1, <2>2, <2>3, PipeSame, Zenon DEF PipeOK, PipeTyped
<1> QED BY <1>3, <1>5, <1>6, <1>7, <1>8, Zenon

LEMMA PipeHandles ==
  ASSUME PipeOK, Pipe!HandleInput
  PROVE  PipeOK'
<1>0. PipeTyped /\ PipeStaged /\ PipeQueued /\ PipeRead /\ PipeAwake /\ PipeRuns
  BY Zenon DEF PipeOK
<1>1. sv.pc = "input" /\ ctl' = ctl
  BY Zenon DEF Pipe!HandleInput
<1>2. {"pump", "read", "input"} \subseteq PipePlaces
  BY Zenon DEF PipePlaces
<1>3. sv.conn /\ PipeServing = TRUE
  BY <1>0, <1>1, PipeFields, SMT DEF PipeServing, Serving, PipeStaged, PipeStage
<1>4. CASE sv' = [sv EXCEPT !.pc = sv.ret] /\ link' = link /\ svc' = svc
  <2>1. /\ sv' \in TheServer /\ sv'.pc = sv.ret /\ sv'.conn = sv.conn /\ sv'.rp = sv.rp /\ sv'.wp = sv.wp
        /\ sv'.io = sv.io /\ sv'.we = sv.we /\ sv'.wake = sv.wake /\ sv'.pend = sv.pend /\ sv'.infl = sv.infl
        /\ sv'.buf = sv.buf /\ sv'.ret = sv.ret /\ sv'.misframed = sv.misframed /\ link' = link /\ svc' = svc
        /\ ctl' = ctl
    BY <1>0, <1>4, <1>1, <1>2, PipeFields, Zenon DEF PipeTyped, TheServer
  <2>2. PipeServing' = PipeServing
    BY <1>0, <2>1, <1>1, <1>3, PipeFields, SMT DEF PipeServing, Serving, PipePlaces, PipeStaged, PipeStage
  <2>3. PipeStaged' /\ PipeAwake' /\ PipeRuns'
    BY <1>0, <2>1, <2>2, <1>1, <1>3, PipeFields, SMT DEF PipeStaged, PipeStage, Serving, PipeServing, PipeAwake, PipeBusy, PipeRuns, PipePlaces
  <2> QED BY <1>0, <2>1, <2>2, <2>3, PipeSame, Zenon DEF PipeOK, PipeTyped
<1> DEFINE c == SubSeq(sv.buf, 3, Len(sv.buf))
           f == sv.misframed \/ sv.buf[1] % 2 = 0 \/ sv.buf[2] # sv.buf[1] + 1
           t == [sv EXCEPT !.buf = c, !.misframed = f]
           what == IF sv.buf[1] = 1 THEN "START" ELSE "STOP"
           p == Append(IF Len(sv.pend) = MaxPending THEN Tail(sv.pend) ELSE sv.pend, Pipe!Message)
<1>5. ASSUME Len(sv.buf) >= 2 PROVE f = FALSE /\ PipeInput(TRUE, c, link.read) /\ c \in Seq(Nat)
  <2>1. PipeInput(TRUE, sv.buf, link.read) /\ ~sv.misframed /\ sv.buf \in Seq(Nat) /\ link.read \in Nat
    BY <1>0, <1>3, PipeFields, Zenon DEF PipeRead
  <2>2. sv.buf[1] % 2 # 0 /\ sv.buf[2] = sv.buf[1] + 1 /\ PipeInput(TRUE, c, link.read) /\ c \in Seq(Nat)
    BY <1>5, <2>1, InputParsed, Zenon
  <2> QED BY <2>1, <2>2, Zenon
<1>6. p \in Seq(PipeMessages) /\ PipeQueues(TRUE, link.got, sv.infl, p, link.sess, link.next + 1) /\ link.next + 1 \in Nat
  <2> HIDE DEF p
  <2>1. p = Append(IF Len(sv.pend) = MaxPending THEN Tail(sv.pend) ELSE sv.pend, Pipe!Message)
    BY DEF p
  <2> QED BY <1>0, <1>3, <2>1, PushedMessage, Zenon
<1>7. \/ sv' = [sv EXCEPT !.pc = sv.ret] /\ link' = link /\ svc' = svc
      \/ Len(sv.buf) >= 2 /\ Pipe!PipeHandler(what, t)
  BY Zenon DEF Pipe!HandleInput
<1>8. ASSUME Len(sv.buf) >= 2 PROVE t \in TheServer /\ t.conn = TRUE /\ t.pend = sv.pend /\ t = [sv EXCEPT !.buf = c, !.misframed = FALSE]
  <2>1. f = FALSE /\ c \in Seq(Nat)
    BY <1>5, <1>8, Zenon
  <2> HIDE DEF c, f
  <2> QED BY <1>0, <1>3, <2>1, Zenon DEF PipeTyped, TheServer
<1>9. ASSUME Len(sv.buf) >= 2, Pipe!PipeHandler(what, t)
      PROVE  \/ svc' = [svc EXCEPT !.vpn = (what = "START")] /\ sv' = t /\ link' = link
             \/ /\ svc' = [svc EXCEPT !.vpn = FALSE] /\ sv' = [t EXCEPT !.pend = p, !.wake = TRUE]
                /\ link' = [link EXCEPT !.next = link.next + 1]
  <2>1. Pipe!Pushed(t, Pipe!Message) = [t EXCEPT !.pend = p]
    <3>1. t.conn = TRUE /\ t.pend = sv.pend
      BY <1>8, <1>9, Zenon
    <3> HIDE DEF t
    <3> QED BY <3>1, Zenon DEF Pipe!Pushed
  <2> HIDE DEF t, p, what
  <2> QED BY <1>9, <2>1, Zenon DEF Pipe!PipeHandler
<1> HIDE DEF c, f, t, p, what
<1>10. CASE Len(sv.buf) >= 2 /\ svc' = [svc EXCEPT !.vpn = (what = "START")] /\ sv' = t /\ link' = link
  <2>0. t = [sv EXCEPT !.buf = c, !.misframed = FALSE] /\ (what = "START") \in BOOLEAN
    BY <1>8, <1>10, Zenon
  <2>1. /\ sv' \in TheServer /\ sv'.pc = sv.pc /\ sv'.conn = sv.conn /\ sv'.rp = sv.rp /\ sv'.wp = sv.wp
        /\ sv'.io = sv.io /\ sv'.we = sv.we /\ sv'.wake = sv.wake /\ sv'.pend = sv.pend /\ sv'.infl = sv.infl
        /\ sv'.buf = c /\ sv'.ret = sv.ret /\ sv'.misframed = FALSE /\ link' = link /\ svc' \in TheService
        /\ svc'.proc = svc.proc /\ svc'.stop = svc.stop /\ svc'.vpn = (what = "START")
        /\ svc'.sender = svc.sender /\ ctl' = ctl
    BY <1>0, <1>10, <1>1, <1>5, <2>0, PipeFields, Zenon DEF PipeTyped, TheServer, TheService
  <2>2. PipeServing' = PipeServing
    BY <1>0, <2>1, <1>1, <1>3, PipeFields, SMT DEF PipeServing, Serving, PipePlaces, PipeStaged, PipeStage
  <2>3. PipeStaged' /\ PipeAwake' /\ PipeRuns'
    BY <1>0, <2>1, <2>2, <1>1, <1>3, PipeFields, SMT DEF PipeStaged, PipeStage, Serving, PipeServing, PipeAwake, PipeBusy, PipeRuns, PipePlaces
  <2>5. PipeRead'
    BY <1>3, <1>5, <1>10, <2>1, <2>2, Zenon DEF PipeRead
  <2> QED BY <1>0, <2>1, <2>2, <2>3, <2>5, PipeSame, Zenon DEF PipeOK, PipeTyped
<1>11. CASE /\ Len(sv.buf) >= 2 /\ svc' = [svc EXCEPT !.vpn = FALSE] /\ sv' = [t EXCEPT !.pend = p, !.wake = TRUE]
            /\ link' = [link EXCEPT !.next = link.next + 1]
  <2>0. t = [sv EXCEPT !.buf = c, !.misframed = FALSE]
    BY <1>8, <1>11, Zenon
  <2>1. /\ sv' \in TheServer /\ sv'.pc = sv.pc /\ sv'.conn = sv.conn /\ sv'.rp = sv.rp /\ sv'.wp = sv.wp
        /\ sv'.io = sv.io /\ sv'.we = sv.we /\ sv'.wake = TRUE /\ sv'.pend = p /\ sv'.infl = sv.infl
        /\ sv'.buf = c /\ sv'.ret = sv.ret /\ sv'.misframed = FALSE /\ link' \in TheLink
        /\ link'.client = link.client /\ link'.sess = link.sess /\ link'.out = link.out
        /\ link'.read = link.read /\ link'.got = link.got /\ link'.next = link.next + 1 /\ svc' \in TheService
        /\ svc'.proc = svc.proc /\ svc'.stop = svc.stop /\ svc'.vpn = FALSE /\ svc'.sender = svc.sender
        /\ ctl' = ctl
    BY <1>0, <1>11, <1>1, <1>5, <1>6, <2>0, PipeFields, Zenon DEF PipeTyped, TheServer, TheLink, TheService
  <2>2. PipeServing' = PipeServing
    BY <1>0, <2>1, <1>1, <1>3, PipeFields, SMT DEF PipeServing, Serving, PipePlaces, PipeStaged, PipeStage
  <2>3. PipeStaged' /\ PipeAwake' /\ PipeRuns'
    BY <1>0, <2>1, <2>2, <1>1, <1>3, PipeFields, SMT DEF PipeStaged, PipeStage, Serving, PipeServing, PipeAwake, PipeBusy, PipeRuns, PipePlaces
  <2>4. PipeQueued'
    BY <1>3, <1>6, <2>1, <2>2, Zenon DEF PipeQueued
  <2>5. PipeRead'
    BY <1>3, <1>5, <1>11, <2>1, <2>2, Zenon DEF PipeRead
  <2> QED BY <1>0, <2>1, <2>2, <2>3, <2>4, <2>5, Zenon DEF PipeOK, PipeTyped
<1> QED BY <1>4, <1>7, <1>9, <1>10, <1>11, Zenon

LEMMA PipePumps ==
  ASSUME PipeOK, Pipe!PumpWrites
  PROVE  PipeOK'
<1>0. PipeTyped /\ PipeStaged /\ PipeQueued /\ PipeRead /\ PipeAwake /\ PipeRuns
  BY Zenon DEF PipeOK
<1>1. sv.pc = "pump" /\ svc' = svc /\ ctl' = ctl
  BY Zenon DEF Pipe!PumpWrites
<1>2. {"wait", "disconnect"} \subseteq PipePlaces
  BY Zenon DEF PipePlaces
<1> DEFINE x == <<[m |-> Head(sv.pend), piece |-> 1], [m |-> Head(sv.pend), piece |-> 2]>>
           y == Tail(sv.pend)
           s == IF sv.infl # <<>> \/ sv.pend = <<>> THEN sv ELSE [sv EXCEPT !.infl = x, !.pend = y]
           n1(n) == SubSeq(s.infl, n + 1, Len(s.infl))
           g1(n) == link.got \o SubSeq(s.infl, 1, n)
<1>3. \/ (~sv.conn \/ sv.wp \/ s.infl = <<>>) /\ sv' = [sv EXCEPT !.pc = "wait"] /\ link' = link
      \/ /\ sv.conn
         /\ \E n \in 1 .. Len(s.infl) :
               sv' = [s EXCEPT !.infl = n1(n), !.we = FALSE] /\ link' = [link EXCEPT !.got = g1(n)]
      \/ sv.conn /\ sv' = [s EXCEPT !.wp = TRUE, !.we = FALSE, !.pc = "wait"] /\ link' = link
      \/ sv.conn /\ sv' = [s EXCEPT !.pc = "disconnect"] /\ link' = link
  BY Zenon DEF Pipe!PumpWrites
<1>4. sv.conn \in BOOLEAN /\ (sv.conn => PipeServing = TRUE)
  BY <1>0, PipeFields, Zenon DEF PipeServing, Serving
<1>5. /\ s \in TheServer /\ s.pc = sv.pc /\ s.conn = sv.conn /\ s.rp = sv.rp /\ s.wp = sv.wp /\ s.io = sv.io
      /\ s.we = sv.we /\ s.wake = sv.wake /\ s.buf = sv.buf /\ s.ret = sv.ret /\ s.misframed = sv.misframed
      /\ s.infl = <<>> => sv.infl = <<>> /\ sv.pend = <<>>
      /\ sv.conn => PipeQueues(TRUE, link.got, s.infl, s.pend, link.sess, link.next)
  <2>1. CASE sv.infl # <<>> \/ sv.pend = <<>>
    <3>1. s = sv
      BY <2>1, Zenon
    <3> HIDE DEF s
    <3> QED BY <1>0, <1>4, <2>1, <3>1, Zenon DEF PipeTyped, PipeQueued
  <2>2. CASE sv.infl = <<>> /\ sv.pend # <<>>
    <3>1. s = [sv EXCEPT !.infl = x, !.pend = y]
      BY <2>2, Zenon
    <3> HIDE DEF s
    <3>2. Head(sv.pend) \in PipeMessages /\ y \in Seq(PipeMessages)
      <4>1. sv.pend \in Seq(PipeMessages)
        BY <1>0, PipeFields, Zenon
      <4> DEFINE q == sv.pend
      <4>2. q \in Seq(PipeMessages) /\ q # <<>>
        BY <2>2, <4>1, Zenon
      <4> HIDE DEF q
      <4>3. Head(q) \in PipeMessages /\ Tail(q) \in Seq(PipeMessages)
        BY <4>2, HeadTailProperties, Zenon
      <4> QED BY <4>3, Zenon DEF q
    <3>3. x \in Seq(PipePieces) /\ x # <<>>
      <4> DEFINE h == Head(sv.pend)
                 a == [m |-> h, piece |-> 1]
                 b == [m |-> h, piece |-> 2]
      <4>1. a \in PipePieces /\ b \in PipePieces
        BY <3>2, Zenon DEF PipePieces
      <4> HIDE DEF a, b
      <4>2. <<a, b>> \in Seq(PipePieces) /\ <<a, b>> # <<>>
        BY <4>1, SMT
      <4> QED BY <4>2, Zenon DEF a, b
    <3>4. sv.conn => PipeQueues(TRUE, link.got, x, y, link.sess, link.next)
      <4>1. sv.conn => PipeQueues(TRUE, link.got, <<>>, sv.pend, link.sess, link.next)
        BY <1>0, <1>4, <2>2, Zenon DEF PipeQueued
      <4> QED BY <1>0, <2>2, <4>1, PipeFields, QueueTake, Zenon
    <3> HIDE DEF x, y
    <3> QED BY <1>0, <3>1, <3>2, <3>3, <3>4, Zenon DEF PipeTyped, TheServer
  <2> QED BY <2>1, <2>2, Zenon
<1>6. s.infl \in Seq(PipePieces) /\ s.pend \in Seq(PipeMessages)
  BY <1>5, Zenon DEF TheServer
<1>7. ASSUME sv.conn, NEW n \in 1 .. Len(s.infl)
      PROVE  /\ PipeQueues(TRUE, g1(n), n1(n), s.pend, link.sess, link.next)
             /\ g1(n) \in Seq(PipePieces) /\ n1(n) \in Seq(PipePieces)
  <2> DEFINE i == s.infl
             p == s.pend
  <2>1. i \in Seq(PipePieces) /\ p \in Seq(PipeMessages) /\ n \in 1 .. Len(i)
        /\ PipeQueues(TRUE, link.got, i, p, link.sess, link.next)
    BY <1>5, <1>6, <1>7, Zenon
  <2> HIDE DEF i, p, s
  <2>2. /\ PipeQueues(TRUE, link.got \o SubSeq(i, 1, n), SubSeq(i, n + 1, Len(i)), p, link.sess, link.next)
        /\ link.got \o SubSeq(i, 1, n) \in Seq(PipePieces) /\ SubSeq(i, n + 1, Len(i)) \in Seq(PipePieces)
    BY <1>0, <2>1, PipeFields, QueueDeliver, Zenon
  <2> QED BY <2>2, Zenon DEF i, p
<1> HIDE DEF s, n1, g1
<1>8. CASE (~sv.conn \/ sv.wp \/ s.infl = <<>>) /\ sv' = [sv EXCEPT !.pc = "wait"] /\ link' = link
  <2>1. /\ sv' \in TheServer /\ sv'.pc = "wait" /\ sv'.conn = sv.conn /\ sv'.rp = sv.rp /\ sv'.wp = sv.wp
        /\ sv'.io = sv.io /\ sv'.we = sv.we /\ sv'.wake = sv.wake /\ sv'.pend = sv.pend /\ sv'.infl = sv.infl
        /\ sv'.buf = sv.buf /\ sv'.ret = sv.ret /\ sv'.misframed = sv.misframed /\ link' = link /\ svc' = svc
        /\ ctl' = ctl
    BY <1>0, <1>8, <1>1, <1>2, PipeFields, Zenon DEF PipeTyped, TheServer
  <2>2. PipeServing' = PipeServing
    BY <1>0, <2>1, <1>1, <1>5, <1>8, PipeFields, SMT DEF PipeServing, Serving, PipePlaces, PipeStaged, PipeStage
  <2>3. PipeStaged' /\ PipeAwake' /\ PipeRuns'
    BY <1>0, <2>1, <2>2, <1>1, <1>5, <1>8, PipeFields, SMT DEF PipeStaged, PipeStage, Serving, PipeServing, PipeAwake, PipeBusy, PipeRuns, PipePlaces
  <2> QED BY <1>0, <2>1, <2>2, <2>3, PipeSame, Zenon DEF PipeOK, PipeTyped
<1>9. ASSUME sv.conn, NEW n \in 1 .. Len(s.infl), sv' = [s EXCEPT !.infl = n1(n), !.we = FALSE],
             link' = [link EXCEPT !.got = g1(n)]
      PROVE  PipeOK'
  <2>0. /\ PipeQueues(TRUE, g1(n), n1(n), s.pend, link.sess, link.next)
        /\ g1(n) \in Seq(PipePieces) /\ n1(n) \in Seq(PipePieces)
    BY <1>7, <1>9, Zenon
  <2>1. /\ sv' \in TheServer /\ sv'.pc = sv.pc /\ sv'.conn = sv.conn /\ sv'.rp = sv.rp /\ sv'.wp = sv.wp
        /\ sv'.io = sv.io /\ sv'.we = FALSE /\ sv'.wake = sv.wake /\ sv'.pend = s.pend /\ sv'.infl = n1(n)
        /\ sv'.buf = sv.buf /\ sv'.ret = sv.ret /\ sv'.misframed = sv.misframed /\ link' \in TheLink
        /\ link'.client = link.client /\ link'.sess = link.sess /\ link'.out = link.out
        /\ link'.read = link.read /\ link'.got = g1(n) /\ link'.next = link.next /\ svc' = svc /\ ctl' = ctl
    BY <1>0, <1>9, <1>1, <1>5, <2>0, PipeFields, Zenon DEF PipeTyped, TheServer, TheLink
  <2>2. PipeServing' = PipeServing /\ PipeServing' = TRUE
    BY <1>0, <2>1, <1>1, <1>9, PipeFields, SMT DEF PipeServing, Serving, PipePlaces, PipeStaged, PipeStage
  <2>3. PipeStaged' /\ PipeAwake' /\ PipeRuns'
    BY <1>0, <2>1, <2>2, <1>1, <1>9, PipeFields, SMT DEF PipeStaged, PipeStage, Serving, PipeServing, PipeAwake, PipeBusy, PipeRuns, PipePlaces
  <2>4. PipeQueued'
    BY <2>0, <2>1, <2>2, Zenon DEF PipeQueued
  <2> QED BY <1>0, <2>1, <2>2, <2>3, <2>4, PipeSame, Zenon DEF PipeOK, PipeTyped
<1>10. CASE sv.conn /\ sv' = [s EXCEPT !.wp = TRUE, !.we = FALSE, !.pc = "wait"] /\ link' = link
  <2>1. /\ sv' \in TheServer /\ sv'.pc = "wait" /\ sv'.conn = sv.conn /\ sv'.rp = sv.rp /\ sv'.wp = TRUE
        /\ sv'.io = sv.io /\ sv'.we = FALSE /\ sv'.wake = sv.wake /\ sv'.pend = s.pend /\ sv'.infl = s.infl
        /\ sv'.buf = sv.buf /\ sv'.ret = sv.ret /\ sv'.misframed = sv.misframed /\ link' = link /\ svc' = svc
        /\ ctl' = ctl
    BY <1>0, <1>10, <1>1, <1>2, <1>5, <1>6, PipeFields, Zenon DEF PipeTyped, TheServer
  <2>2. PipeServing' = PipeServing /\ PipeServing' = TRUE
    BY <1>0, <2>1, <1>1, <1>10, PipeFields, SMT DEF PipeServing, Serving, PipePlaces, PipeStaged, PipeStage
  <2>3. PipeStaged' /\ PipeAwake' /\ PipeRuns'
    BY <1>0, <2>1, <2>2, <1>1, <1>10, PipeFields, SMT DEF PipeStaged, PipeStage, Serving, PipeServing, PipeAwake, PipeBusy, PipeRuns, PipePlaces
  <2>4. PipeQueued'
    BY <1>5, <1>10, <2>1, <2>2, Zenon DEF PipeQueued
  <2> QED BY <1>0, <2>1, <2>2, <2>3, <2>4, PipeSame, Zenon DEF PipeOK, PipeTyped
<1>11. CASE sv.conn /\ sv' = [s EXCEPT !.pc = "disconnect"] /\ link' = link
  <2>1. /\ sv' \in TheServer /\ sv'.pc = "disconnect" /\ sv'.conn = sv.conn /\ sv'.rp = sv.rp /\ sv'.wp = sv.wp
        /\ sv'.io = sv.io /\ sv'.we = sv.we /\ sv'.wake = sv.wake /\ sv'.pend = s.pend /\ sv'.infl = s.infl
        /\ sv'.buf = sv.buf /\ sv'.ret = sv.ret /\ sv'.misframed = sv.misframed /\ link' = link /\ svc' = svc
        /\ ctl' = ctl
    BY <1>0, <1>11, <1>1, <1>2, <1>5, <1>6, PipeFields, Zenon DEF PipeTyped, TheServer
  <2>2. PipeServing' = PipeServing /\ PipeServing' = TRUE
    BY <1>0, <2>1, <1>1, <1>11, PipeFields, SMT DEF PipeServing, Serving, PipePlaces, PipeStaged, PipeStage
  <2>3. PipeStaged' /\ PipeAwake' /\ PipeRuns'
    BY <1>0, <2>1, <2>2, <1>1, <1>11, PipeFields, SMT DEF PipeStaged, PipeStage, Serving, PipeServing, PipeAwake, PipeBusy, PipeRuns, PipePlaces
  <2>4. PipeQueued'
    BY <1>5, <1>11, <2>1, <2>2, Zenon DEF PipeQueued
  <2> QED BY <1>0, <2>1, <2>2, <2>3, <2>4, PipeSame, Zenon DEF PipeOK, PipeTyped
<1> QED BY <1>3, <1>8, <1>9, <1>10, <1>11, Zenon

LEMMA PipeEndsClient ==
  ASSUME PipeOK, Pipe!Disconnect \/ Pipe!ClearWrites \/ Pipe!Reset
  PROVE  PipeOK'
<1>0. PipeTyped /\ PipeStaged /\ PipeQueued /\ PipeRead /\ PipeAwake /\ PipeRuns
  BY Zenon DEF PipeOK
<1>1. {"clear", "reset", "connect"} \subseteq PipePlaces
  BY Zenon DEF PipePlaces
<1>2. <<>> \in Seq(PipeMessages) /\ <<>> \in Seq(PipePieces) /\ <<>> \in Seq(Nat) /\ 0 \in Nat
  BY EmptySeq, SMT
<1>3. CASE Pipe!Disconnect
  <2>1. /\ sv' \in TheServer /\ sv'.pc = "clear" /\ sv'.conn = FALSE /\ sv'.rp = sv.rp /\ sv'.wp = sv.wp
        /\ sv'.io = sv.io /\ sv'.we = sv.we /\ sv'.wake = sv.wake /\ sv'.pend = sv.pend /\ sv'.infl = sv.infl
        /\ sv'.buf = sv.buf /\ sv'.ret = sv.ret /\ sv'.misframed = sv.misframed /\ link' = link /\ svc' = svc
        /\ sv.pc = "disconnect" /\ ctl' = ctl
    BY <1>0, <1>3, <1>1, PipeFields, Zenon DEF Pipe!Disconnect, Pipe!StoreDisconnected, PipeTyped, TheServer
  <2>2. PipeServing' = PipeServing
    BY <1>0, <2>1, PipeFields, SMT DEF PipeServing, Serving, PipePlaces, PipeStaged, PipeStage
  <2>3. PipeStaged' /\ PipeAwake' /\ PipeRuns'
    BY <1>0, <2>1, <2>2, PipeFields, SMT DEF PipeStaged, PipeStage, Serving, PipeServing, PipeAwake, PipeBusy, PipeRuns, PipePlaces
  <2> QED BY <1>0, <2>1, <2>2, <2>3, PipeSame, Zenon DEF PipeOK, PipeTyped
<1>4. CASE Pipe!ClearWrites
  <2>1. /\ sv' \in TheServer /\ sv'.pc = "reset" /\ sv'.conn = sv.conn /\ sv'.rp = sv.rp /\ sv'.wp = sv.wp
        /\ sv'.io = sv.io /\ sv'.we = sv.we /\ sv'.wake = sv.wake /\ sv'.pend = <<>> /\ sv'.infl = sv.infl
        /\ sv'.buf = sv.buf /\ sv'.ret = sv.ret /\ sv'.misframed = sv.misframed /\ link' = link /\ svc' = svc
        /\ sv.pc = "clear" /\ ctl' = ctl
    BY <1>0, <1>4, <1>1, <1>2, PipeFields, Zenon DEF Pipe!ClearWrites, PipeTyped, TheServer
  <2>2. PipeServing' = PipeServing
    BY <1>0, <2>1, PipeFields, SMT DEF PipeServing, Serving, PipePlaces, PipeStaged, PipeStage
  <2>3. PipeStaged' /\ PipeAwake' /\ PipeRuns'
    BY <1>0, <2>1, <2>2, PipeFields, SMT DEF PipeStaged, PipeStage, Serving, PipeServing, PipeAwake, PipeBusy, PipeRuns, PipePlaces
  <2>4. PipeQueued'
    <3>1. PipeQueues(PipeServing, link.got, sv.infl, <<>>, link.sess, link.next)
      <4>1. PipeQueues(PipeServing, link.got, sv.infl, sv.pend, link.sess, link.next)
        BY <1>0, Zenon DEF PipeQueued
      <4>2. /\ PipeQueues(PipeServing, link.got, sv.infl, <<>>, link.sess, link.next)
            /\ PipeQueues(FALSE, link.got, <<>>, <<>>, link.sess, link.next)
        BY <1>0, <4>1, PipeFields, QueueGone, ZenonT(30)
      <4> QED BY <4>2, Zenon
    <3> QED BY <2>1, <2>2, <3>1, Zenon DEF PipeQueued
  <2> QED BY <1>0, <2>1, <2>2, <2>3, <2>4, PipeSame, Zenon DEF PipeOK, PipeTyped
<1>5. CASE Pipe!Reset
  <2>1. /\ sv' \in TheServer /\ sv'.pc = "connect" /\ sv'.conn = FALSE /\ sv'.rp = FALSE /\ sv'.wp = FALSE
        /\ sv'.io = FALSE /\ sv'.we = FALSE /\ sv'.wake = sv.wake /\ sv'.pend = sv.pend /\ sv'.infl = <<>>
        /\ sv'.buf = <<>> /\ sv'.ret = sv.ret /\ sv'.misframed = sv.misframed /\ link' \in TheLink
        /\ link'.client = "none" /\ link'.sess = link.sess /\ link'.out = 0 /\ link'.read = 0
        /\ link'.got = link.got /\ link'.next = link.next /\ svc' = svc /\ sv.pc = "reset" /\ ctl' = ctl
    BY <1>0, <1>5, <1>1, <1>2, PipeFields, Zenon DEF Pipe!Reset, PipeTyped, TheServer, TheLink
  <2>2. PipeServing' = FALSE
    BY <1>0, <2>1, PipeFields, SMT DEF PipeServing, Serving, PipePlaces, PipeStaged, PipeStage
  <2>3. PipeStaged' /\ PipeAwake' /\ PipeRuns'
    BY <1>0, <2>1, <2>2, PipeFields, SMT DEF PipeStaged, PipeStage, Serving, PipeServing, PipeAwake, PipeBusy, PipeRuns, PipePlaces
  <2>4. PipeQueued'
    <3>1. PipeQueues(FALSE, link.got, <<>>, <<>>, link.sess, link.next)
      BY <1>0, PipeFields, QueueGone, ZenonT(30) DEF PipeQueued
    <3>2. sv.pend = <<>>
      BY <1>0, <2>1, Zenon DEF PipeStaged
    <3> QED BY <2>1, <2>2, <3>1, <3>2, Zenon DEF PipeQueued
  <2>5. PipeRead'
    BY <1>0, <2>1, <2>2, InputNone, Zenon DEF PipeRead
  <2> QED BY <1>0, <2>1, <2>2, <2>3, <2>4, <2>5, Zenon DEF PipeOK, PipeTyped
<1> QED BY <1>3, <1>4, <1>5, Zenon

LEMMA PipeWrites ==
  ASSUME PipeOK, Pipe!WriteCompletes
  PROVE  PipeOK'
<1>0. PipeTyped /\ PipeStaged /\ PipeQueued /\ PipeRead /\ PipeAwake /\ PipeRuns
  BY Zenon DEF PipeOK
<1>1. sv.wp /\ svc' = svc /\ ctl' = ctl /\ PipeServing = TRUE
  <2>1. sv.wp /\ svc' = svc /\ ctl' = ctl
    BY Zenon DEF Pipe!WriteCompletes
  <2> QED BY <1>0, <2>1, PipeFields, SMT DEF PipeServing, Serving, PipeStaged, PipeStage
<1> DEFINE n1(n) == SubSeq(sv.infl, n + 1, Len(sv.infl))
           g1(n) == link.got \o SubSeq(sv.infl, 1, n)
<1>2. \/ \E n \in 1 .. Len(sv.infl) :
            sv' = [sv EXCEPT !.we = TRUE, !.infl = n1(n)] /\ link' = [link EXCEPT !.got = g1(n)]
      \/ sv' = [sv EXCEPT !.we = TRUE] /\ link' = link
  BY Zenon DEF Pipe!WriteCompletes
<1>3. ASSUME NEW n \in 1 .. Len(sv.infl)
      PROVE  /\ PipeQueues(TRUE, g1(n), n1(n), sv.pend, link.sess, link.next)
             /\ g1(n) \in Seq(PipePieces) /\ n1(n) \in Seq(PipePieces)
  <2>1. PipeQueues(TRUE, link.got, sv.infl, sv.pend, link.sess, link.next)
    BY <1>0, <1>1, Zenon DEF PipeQueued
  <2> QED BY <1>0, <2>1, PipeFields, QueueDeliver, Zenon
<1> HIDE DEF n1, g1
<1>4. ASSUME NEW n \in 1 .. Len(sv.infl), sv' = [sv EXCEPT !.we = TRUE, !.infl = n1(n)],
             link' = [link EXCEPT !.got = g1(n)]
      PROVE  PipeOK'
  <2>1. /\ sv' \in TheServer /\ sv'.pc = sv.pc /\ sv'.conn = sv.conn /\ sv'.rp = sv.rp /\ sv'.wp = sv.wp
        /\ sv'.io = sv.io /\ sv'.we = TRUE /\ sv'.wake = sv.wake /\ sv'.pend = sv.pend /\ sv'.infl = n1(n)
        /\ sv'.buf = sv.buf /\ sv'.ret = sv.ret /\ sv'.misframed = sv.misframed /\ link' \in TheLink
        /\ link'.client = link.client /\ link'.sess = link.sess /\ link'.out = link.out
        /\ link'.read = link.read /\ link'.got = g1(n) /\ link'.next = link.next /\ svc' = svc /\ ctl' = ctl
    BY <1>0, <1>4, <1>1, <1>3, PipeFields, Zenon DEF PipeTyped, TheServer, TheLink
  <2>2. PipeServing' = PipeServing /\ PipeServing' = TRUE
    BY <1>0, <2>1, <1>1, PipeFields, SMT DEF PipeServing, Serving, PipePlaces, PipeStaged, PipeStage
  <2>3. PipeStaged' /\ PipeAwake' /\ PipeRuns'
    BY <1>0, <2>1, <2>2, <1>1, PipeFields, SMT DEF PipeStaged, PipeStage, Serving, PipeServing, PipeAwake, PipeBusy, PipeRuns, PipePlaces
  <2>4. PipeQueued'
    BY <1>3, <1>4, <2>1, <2>2, Zenon DEF PipeQueued
  <2> QED BY <1>0, <2>1, <2>2, <2>3, <2>4, PipeSame, Zenon DEF PipeOK, PipeTyped
<1>5. CASE sv' = [sv EXCEPT !.we = TRUE] /\ link' = link
  <2>1. /\ sv' \in TheServer /\ sv'.pc = sv.pc /\ sv'.conn = sv.conn /\ sv'.rp = sv.rp /\ sv'.wp = sv.wp
        /\ sv'.io = sv.io /\ sv'.we = TRUE /\ sv'.wake = sv.wake /\ sv'.pend = sv.pend /\ sv'.infl = sv.infl
        /\ sv'.buf = sv.buf /\ sv'.ret = sv.ret /\ sv'.misframed = sv.misframed /\ link' = link /\ svc' = svc
        /\ ctl' = ctl
    BY <1>0, <1>5, <1>1, PipeFields, Zenon DEF PipeTyped, TheServer
  <2>2. PipeServing' = PipeServing
    BY <1>0, <2>1, <1>1, PipeFields, SMT DEF PipeServing, Serving, PipePlaces, PipeStaged, PipeStage
  <2>3. PipeStaged' /\ PipeAwake' /\ PipeRuns'
    BY <1>0, <2>1, <2>2, <1>1, PipeFields, SMT DEF PipeStaged, PipeStage, Serving, PipeServing, PipeAwake, PipeBusy, PipeRuns, PipePlaces
  <2> QED BY <1>0, <2>1, <2>2, <2>3, PipeSame, Zenon DEF PipeOK, PipeTyped
<1> QED BY <1>2, <1>4, <1>5, Zenon

\* A server without a client has nothing of one.
LEMMA PipeIdle ==
  ASSUME PipeTyped, PipeQueued, PipeRead, PipeServing = FALSE
  PROVE  sv.pend = <<>> /\ sv.infl = <<>> /\ sv.buf = <<>>
BY Zenon DEF PipeQueued, PipeQueues, InFlight, PipePending, PipeRead, PipeInput

LEMMA PipeServiceSteps ==
  ASSUME PipeOK, Pipe!ServiceStart \/ Pipe!ClientConnects \/ Pipe!ServiceMainEnds
  PROVE  PipeOK'
<1>0. PipeTyped /\ PipeStaged /\ PipeQueued /\ PipeRead /\ PipeAwake /\ PipeRuns
  BY Zenon DEF PipeOK
<1>1. {"connect", "off"} \subseteq PipePlaces
  BY Zenon DEF PipePlaces
<1>2. <<>> \in Seq(PipeMessages) /\ <<>> \in Seq(PipePieces) /\ <<>> \in Seq(Nat) /\ 0 \in Nat /\ link.sess + 1 \in Nat
  <2>1. link.sess \in Nat
    BY <1>0, PipeFields, Zenon
  <2> QED BY <2>1, EmptySeq, SMT
<1>3. CASE Pipe!ServiceStart /\ svc.proc = "running"
  <2>1. /\ sv' = sv /\ link' = link /\ svc' = svc /\ ctl' = "starting"
    BY <1>0, <1>3, PipeFields, Zenon DEF Pipe!ServiceStart, PipeTyped
  <2>2. PipeServing' = PipeServing
    BY <1>0, <2>1, PipeFields, SMT DEF PipeServing, Serving, PipePlaces, PipeStaged, PipeStage
  <2>3. PipeStaged' /\ PipeAwake' /\ PipeRuns'
    BY <1>0, <2>1, <2>2, PipeFields, SMT DEF PipeStaged, PipeStage, Serving, PipeServing, PipeAwake, PipeBusy, PipeRuns, PipePlaces
  <2> QED BY <1>0, <2>1, <2>2, <2>3, PipeSame, Zenon DEF PipeOK, PipeTyped
<1>4. CASE Pipe!ServiceStart /\ svc.proc # "running"
  <2>0. /\ sv' = Pipe!NewServer /\ link' = link /\ svc' = [svc EXCEPT !.proc = "running", !.stop = FALSE]
        /\ ctl' = "starting" /\ svc.proc = "stopped"
    BY <1>0, <1>4, PipeFields, Zenon DEF Pipe!ServiceStart
  <2>1. /\ sv' \in TheServer /\ sv'.pc = "connect" /\ sv'.conn = FALSE /\ sv'.rp = FALSE /\ sv'.wp = FALSE
        /\ sv'.io = FALSE /\ sv'.we = FALSE /\ sv'.wake = FALSE /\ sv'.pend = <<>> /\ sv'.infl = <<>>
        /\ sv'.buf = <<>> /\ sv'.ret = "read" /\ sv'.misframed = FALSE /\ link' = link /\ svc' \in TheService
        /\ svc'.proc = "running" /\ svc'.stop = FALSE /\ svc'.vpn = svc.vpn /\ svc'.sender = svc.sender
        /\ svc.proc = "stopped" /\ ctl' = "starting"
    BY <1>0, <1>4, <1>1, <1>2, <2>0, PipeFields, Zenon DEF Pipe!NewServer, PipeTyped, TheServer, TheService
  <2>2. PipeServing' = FALSE
    BY <1>0, <2>1, <1>4, PipeFields, SMT DEF PipeServing, Serving, PipePlaces, PipeStaged, PipeStage
  <2>3. PipeStaged' /\ PipeAwake' /\ PipeRuns'
    BY <1>0, <2>1, <2>2, <1>4, PipeFields, SMT DEF PipeStaged, PipeStage, Serving, PipeServing, PipeAwake, PipeBusy, PipeRuns, PipePlaces
  <2>4. PipeQueued'
    <3>1. PipeServing = FALSE
      BY <1>0, <2>1, PipeFields, SMT DEF PipeServing, Serving, PipeRuns, PipeStaged, PipeStage
    <3> QED BY <1>0, <2>1, <2>2, <3>1, PipeIdle, Zenon DEF PipeQueued
  <2>5. PipeRead'
    <3>1. PipeServing = FALSE
      BY <1>0, <2>1, PipeFields, SMT DEF PipeServing, Serving, PipeRuns, PipeStaged, PipeStage
    <3> QED BY <1>0, <2>1, <2>2, <3>1, PipeIdle, Zenon DEF PipeRead
  <2> QED BY <1>0, <2>1, <2>2, <2>3, <2>4, <2>5, Zenon DEF PipeOK, PipeTyped
<1>5. CASE Pipe!ClientConnects
  <2>0. /\ svc.proc = "running" /\ link.client = "none" /\ (sv.pc = "connect" \/ sv.pc = "wait")
        /\ link' = [link EXCEPT !.client = "open", !.sess = link.sess + 1, !.out = 0, !.read = 0, !.got = <<>>]
        /\ sv' = (IF sv.pc = "wait" THEN [sv EXCEPT !.io = TRUE] ELSE sv)
        /\ ctl' = "connected" /\ svc' = svc
    BY <1>5, Zenon DEF Pipe!ClientConnects
  <2>1. PipeServing = FALSE
    BY <1>0, <2>0, PipeFields, SMT DEF PipeServing, Serving, PipeStaged, PipeStage
  <2>2. sv.pend = <<>> /\ sv.infl = <<>> /\ sv.buf = <<>>
    BY <1>0, <2>1, PipeIdle, Zenon
  <2> DEFINE io == IF sv.pc = "wait" THEN TRUE ELSE sv.io
  <2>3. io \in BOOLEAN
    BY <1>0, PipeFields, Zenon
  <2>4. "wait" # "connect"
    BY SMT
  <2>5. /\ sv' \in TheServer /\ sv'.pc = sv.pc /\ sv'.conn = sv.conn /\ sv'.rp = sv.rp /\ sv'.wp = sv.wp
        /\ sv'.io = io /\ sv'.we = sv.we /\ sv'.wake = sv.wake /\ sv'.pend = <<>> /\ sv'.infl = <<>>
        /\ sv'.buf = <<>> /\ sv'.ret = sv.ret /\ sv'.misframed = sv.misframed
    <3>1. CASE sv.pc = "wait"
      BY <1>0, <2>0, <2>2, <3>1, Zenon DEF PipeTyped, TheServer
    <3>2. CASE sv.pc # "wait"
      BY <1>0, <2>0, <2>2, <3>2, Zenon DEF PipeTyped, TheServer
    <3> QED BY <3>1, <3>2, Zenon
  <2> HIDE DEF io
  <2>6. /\ link' \in TheLink /\ link'.client = "open" /\ link'.sess = link.sess + 1 /\ link'.out = 0 /\ link'.read = 0
        /\ link'.got = <<>> /\ link'.next = link.next
    BY <1>0, <1>2, <2>0, PipeFields, Zenon DEF PipeTyped, TheLink
  <2>7. PipeServing' = FALSE
    BY <2>1, <2>5, Zenon DEF PipeServing, Serving
  <2>8. PipeStaged' /\ PipeAwake' /\ PipeRuns'
    BY <1>0, <2>0, <2>1, <2>5, <2>6, <2>7, PipeFields, SMT DEF PipeStaged, PipeStage, Serving, PipeServing, PipeAwake, PipeBusy, PipeRuns, PipePlaces
  <2>9. PipeQueued' /\ PipeRead'
    BY <1>0, <2>5, <2>6, <2>7, QueueNew, InputNone, Zenon DEF PipeQueued, PipeRead
  <2> QED BY <1>0, <2>0, <2>5, <2>6, <2>8, <2>9, Zenon DEF PipeOK, PipeTyped
<1>6. CASE Pipe!ServiceMainEnds
  <2>1. /\ sv' \in TheServer /\ sv'.pc = "off" /\ sv'.conn = FALSE /\ sv'.rp = FALSE /\ sv'.wp = FALSE
        /\ sv'.io = FALSE /\ sv'.we = FALSE /\ sv'.wake = FALSE /\ sv'.pend = <<>> /\ sv'.infl = <<>>
        /\ sv'.buf = <<>> /\ sv'.ret = "read" /\ sv'.misframed = FALSE /\ link' \in TheLink
        /\ link'.client = "none" /\ link'.sess = link.sess /\ link'.out = 0 /\ link'.read = 0
        /\ link'.got = link.got /\ link'.next = link.next /\ svc' \in TheService /\ svc'.proc = "stopped"
        /\ svc'.stop = svc.stop /\ svc'.vpn = FALSE /\ svc'.sender = svc.sender /\ sv.pc = "ended" /\ ctl' = ctl
    BY <1>0, <1>6, <1>1, <1>2, PipeFields, Zenon DEF Pipe!ServiceMainEnds, Pipe!NewServer, PipeTyped, TheServer, TheLink, TheService
  <2>2. PipeServing' = FALSE
    BY <1>0, <2>1, PipeFields, SMT DEF PipeServing, Serving, PipePlaces, PipeStaged, PipeStage
  <2>3. PipeStaged' /\ PipeAwake' /\ PipeRuns'
    BY <1>0, <2>1, <2>2, PipeFields, SMT DEF PipeStaged, PipeStage, Serving, PipeServing, PipeAwake, PipeBusy, PipeRuns, PipePlaces
  <2>4. PipeQueued'
    <3>1. PipeQueues(FALSE, link.got, <<>>, <<>>, link.sess, link.next)
      BY <1>0, PipeFields, QueueGone, ZenonT(30) DEF PipeQueued
    <3> QED BY <2>1, <2>2, <3>1, Zenon DEF PipeQueued
  <2>5. PipeRead'
    BY <2>1, <2>2, InputNone, Zenon DEF PipeRead
  <2> QED BY <1>0, <2>1, <2>2, <2>3, <2>4, <2>5, Zenon DEF PipeOK, PipeTyped
<1> QED BY <1>3, <1>4, <1>5, <1>6, Zenon

LEMMA PipeInitOK == Pipe!Init => PipeOK
<1> SUFFICES ASSUME Pipe!Init PROVE PipeOK
  OBVIOUS
<1>1. /\ <<>> \in Seq(PipeMessages) /\ <<>> \in Seq(PipePieces) /\ <<>> \in Seq(Nat) /\ 0 \in Nat /\ 1 \in Nat
      /\ "off" \in PipePlaces
  BY EmptySeq, SMT DEF PipePlaces
<1>2. /\ sv \in TheServer /\ sv.pc = "off" /\ sv.conn = FALSE /\ sv.rp = FALSE /\ sv.wp = FALSE
      /\ sv.io = FALSE /\ sv.we = FALSE /\ sv.wake = FALSE /\ sv.pend = <<>> /\ sv.infl = <<>>
      /\ sv.buf = <<>> /\ sv.ret = "read" /\ sv.misframed = FALSE /\ link \in TheLink /\ link.client = "none"
      /\ link.sess = 0 /\ link.out = 0 /\ link.read = 0 /\ link.got = <<>> /\ link.next = 1
      /\ svc \in TheService /\ svc.proc = "stopped" /\ svc.vpn = FALSE /\ ctl = "idle"
  BY <1>1, Zenon DEF Pipe!Init, Pipe!NewServer, TheServer, TheLink, TheService
<1>3. PipeServing = FALSE
  BY <1>2, SMT DEF PipeServing, Serving
<1>4. PipeStaged /\ PipeAwake /\ PipeRuns
  BY <1>2, <1>3, SMT DEF PipeStaged, PipeStage, Serving, PipeServing, PipeAwake, PipeBusy, PipeRuns, PipePlaces
<1>5. PipeQueued /\ PipeRead
  BY <1>2, <1>3, QueueNew, InputNone, Zenon DEF PipeQueued, PipeRead
<1> QED BY <1>2, <1>4, <1>5, Zenon DEF PipeOK, PipeTyped

\* What goes over the pipe is framed and the loop of the service does not sleep on work, for every size of the
\* queue and any number of clients, messages and restarts of the service.
THEOREM PipeServesClients == Pipe!Spec => []PipeServed
<1>1. PipeOK /\ [Pipe!Next]_Pipe!pipeVars => PipeOK'
  <2>1. ASSUME PipeOK, UNCHANGED Pipe!pipeVars PROVE PipeOK'
    BY <2>1, Zenon DEF Pipe!pipeVars, PipeOK, PipeTyped, PipeServing, PipeStaged, PipeQueued, PipeRead, PipeAwake, PipeRuns
  <2>2. ASSUME PipeOK, Pipe!Next PROVE PipeOK'
    BY <2>2, PipeOutsideSteps, PipeSends, PipeConnects, PipeWaits, PipeReads, PipeHandles, PipePumps, PipeEndsClient,
       PipeWrites, PipeServiceSteps, Zenon DEF Pipe!Next
  <2> QED BY <2>1, <2>2, Zenon
<1>2. PipeOK => PipeServed
  <2> SUFFICES ASSUME PipeOK PROVE PipeServed
    OBVIOUS
  <2>1. PipeTyped /\ PipeQueued /\ PipeRead /\ PipeAwake /\ PipeRuns
    BY Zenon DEF PipeOK
  <2>2. Pipe!PipeFramed
    <3>1. DOMAIN link.got = 1 .. Len(link.got)
      BY <2>1, PipeFields, LenProperties, Zenon
    <3>2. Framing(link.got, link.sess, link.next) /\ ~sv.misframed /\ (ctl = "stopped" => ~svc.vpn)
      BY <2>1, Zenon DEF PipeQueued, PipeQueues, PipeRead, PipeRuns
    <3> QED BY <3>1, <3>2, Zenon DEF Pipe!PipeFramed, Framing
  <2>3. Pipe!PipeDriven
    BY <2>1, PipeFields, Zenon DEF Pipe!PipeDriven, PipeAwake, PipeBusy
  <2> QED BY <2>2, <2>3, Zenon DEF PipeServed
<1> QED BY <1>1, <1>2, PipeInitOK, PTL DEF Pipe!Spec

-----------------------------------------------------------------------------
(* The parts together.                                                     *)

\* The specification that the run checks has the specification of each part: a step of it is a step of
\* one part that leaves the others as they are.
LEMMA WindowsParts ==
  WindowsSpec => Pipe!Spec /\ Spec /\ PumpSpec /\ GuardSpec /\ Client!Spec
<1> DEFINE all == <<part, pipeVars, winVars, pumpVars, guardVars, clientVars>>
<1>1. WindowsInit => Pipe!Init /\ Init /\ PumpInit /\ GuardInit /\ Client!Init
  BY Zenon DEF WindowsInit
<1>2. [WindowsNext]_all => [Pipe!Next]_Pipe!pipeVars
  BY Zenon DEF WindowsNext, pipeVars, Pipe!pipeVars
<1>3. [WindowsNext]_all => [Next]_winVars
  BY Zenon DEF WindowsNext
<1>4. [WindowsNext]_all => [PumpNext]_pumpVars
  BY Zenon DEF WindowsNext
<1>5. [WindowsNext]_all => [GuardNext]_guardVars
  BY Zenon DEF WindowsNext
<1>6. [WindowsNext]_all => [Client!Next]_Client!appVars
  BY Zenon DEF WindowsNext, clientVars, Client!appVars
<1> QED BY <1>1, <1>2, <1>3, <1>4, <1>5, <1>6, PTL DEF WindowsSpec, Pipe!Spec, Spec, PumpSpec, GuardSpec, Client!Spec

\* Every property of the run holds of the specification of all the parts.
THEOREM WindowsServe ==
  WindowsSpec => [](PipeServed /\ UnboundNeverCaptured /\ PumpDriven /\ CleanupNeverRestricts /\ TaskVpnAlive)
BY WindowsParts, PipeServesClients, UnboundNeverCapturedHolds, PumpDrivenHolds, CleanupNeverRestrictsHolds,
   TasksHoldLiveVpn, PTL

-----------------------------------------------------------------------------
=============================================================================
