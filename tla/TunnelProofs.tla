---------------------------- MODULE TunnelProofs ----------------------------
(***************************************************************************)
(* Proofs about Tunnel.  Every handler touches one connection, the client  *)
(* id and the server id that it carries: the invariant is stated of each   *)
(* connection, client id and server id, and a handler has to be examined   *)
(* only where it works (lemma ClusterStep).                                *)
(***************************************************************************)
EXTENDS Tunnel, SequenceTheorems, WellFoundedInduction, TLAPS

Counted(n) == [i \in 1..n |-> i]

ListenerStates == {"none", "asked", "passed", "rejected", "open", "flushing", "closing", "closed"}
ListenerConn == [st : ListenerStates, reads : BOOLEAN, unsent : BOOLEAN, pos : 1..(MaxPkt + 1)]
UpstreamConn == [u : Upstreams \cup {NON}, st : {"unused", "opening", "aborting", "open", "closing", "gone"}]
Sessions == {"off", "opening", "on", "lost", "closing"}

TunnelState ==
    [conn : [Objs -> VpnConnection \cup {NON}], byClient : [Cids -> Objs \cup {NON}],
     byServer : [Sids -> Objs \cup {NON}], waiters : SUBSET Cids, ep : Sessions, app : SUBSET Cids,
     lsn : [Cids -> ListenerConn], ups : [Sids -> UpstreamConn], wire : [Cids -> Seq(1..MaxPkt)]]

-----------------------------------------------------------------------------
(* The invariant.                                                          *)

\* What holds of the connection o.
ObjOK(s, o) ==
    LET r == s.conn[o] IN
    r # NON =>
      /\ o \in Sids => r.sid = o /\ ~r.first /\ ~r.fakec
      /\ r.st # "CONNECTED_MIGRATING" => \/ r.cid # NON /\ s.byClient[r.cid] = o
                                         \/ r.sid # NON /\ s.byServer[r.sid] = o
      /\ r.cid = NON => r.st \in {"WAITING_RESPONSE_MIGRATING", "CONNECTED_MIGRATING", "CONNECTED"}
      /\ r.sid # NON => r.up # NON /\ s.ups[r.sid].u = r.up
      /\ r.closed => r.up = "endpoint" /\ (r.sid # NON => s.ups[r.sid].st = "gone")
      /\ r.task => r.cid # NON /\ r.sid = NON /\ r.cid \notin s.app /\ r.cid \notin s.waiters /\ r.st \in {"WAITING_ACTION", "REJECTED"}
      /\ r.fakec => r.up = "fake" /\ r.st # "CONNECTED_MIGRATING"
      /\ r.cid \in s.app => r.up = NON /\ r.sid = NON /\ r.st \in {"WAITING_ACTION", "REJECTED"}
      /\ r.cid \in s.waiters => r.up = NON /\ r.sid = NON /\ r.st \in {"WAITING_RESOLVE", "REJECTED"}
      /\ r.mig # NON <=> r.st = "WAITING_RESPONSE_MIGRATING"
      /\ r.mig # NON => r.cid = NON /\ o \in Sids /\ s.lsn[r.mig].st # "none"
      /\ r.cid # NON => s.lsn[r.cid].st # "none"
      /\ r.st = "CONNECTED_MIGRATING" /\ r.proto = "tcp" =>
            r.buf = <<>> /\ (r.cid # NON /\ r.looking => r.up = "fake" /\ ~s.lsn[r.cid].reads)

\* Without the early acknowledgement a migration never leads to the fake upstream.
FakeOK(s, o) ==
    LET r == s.conn[o] IN
    r # NON => /\ o \in Sids => r.up # "fake"
               /\ /\ r.up = "fake" /\ r.st \in {"WAITING_RESPONSE", "WAITING_ACCEPT", "CONNECTED"}
                  /\ r.cid # NON /\ s.lsn[r.cid].st \in {"asked", "passed", "open"}
                  => r.fakec

\* What holds of the client id c and of the connection filed under it.
CliBase(s, c) ==
    LET o == s.byClient[c]
        l == s.lsn[c]
        r == s.conn[o]
    IN  /\ l.st = "none" => /\ o = NON /\ s.conn[c] = NON /\ s.wire[c] = <<>> /\ l.pos = 1
                            /\ c \notin s.app /\ c \notin s.waiters /\ ~l.unsent
        /\ ~(c \in s.app /\ c \in s.waiters)
        /\ o # NON =>
             /\ r # NON /\ r.cid = c /\ l.st # "closed"
             /\ l.st = "passed" => r.st = "WAITING_ACCEPT"
             /\ l.st = "open" => r.st \in {"CONNECTED", "CONNECTED_MIGRATING"}
             /\ r.proto = "udp" => ~l.unsent
             /\ r.proto = "tcp" /\ r.st # "CONNECTED_MIGRATING" => s.wire[c] \o r.buf = Counted(l.pos - 1)

\* It has a server side once the client was let in, a UDP one as long as it is connected.
CliBacked(s, c) ==
    LET o == s.byClient[c]
        r == s.conn[o]
    IN  o # NON /\ (s.lsn[c].st \in {"passed", "open"} \/ (r.proto = "udp" /\ r.st = "CONNECTED")) =>
            r.sid # NON /\ s.byServer[r.sid] = o

CliOK(s, c) == CliBase(s, c) /\ CliBacked(s, c)

\* What holds of the migrations of the client id c: the connection they leave is still
\* migrating (or, for UDP, was reached by an earlier one); a TCP one is alone.
MovesOK(s, c) ==
    s.byClient[c] # NON =>
      \A p \in Objs : s.conn[p] # NON /\ s.conn[p].mig = c =>
        LET r == s.conn[p]
            q == s.conn[s.byClient[c]]
        IN  /\ q.proto = r.proto
            /\ q.st = "CONNECTED_MIGRATING" \/ (r.proto = "udp" /\ q.st = "CONNECTED")
            /\ r.proto = "tcp" => /\ s.wire[c] \o r.buf = Counted(s.lsn[c].pos - 1)
                                  /\ \A y \in Objs : s.conn[y] # NON /\ s.conn[y].mig = c => y = p

\* What holds of the server id x.
SrvOK(s, x) ==
    /\ s.byServer[x] # NON => s.conn[s.byServer[x]] # NON /\ s.conn[s.byServer[x]].sid = x
    /\ s.ups[x].st \in {"opening", "aborting"} => s.byServer[x] # NON

\* An id belongs to one connection.
Alone(s) ==
    \A o, p \in Objs : s.conn[o] # NON /\ s.conn[p] # NON =>
        /\ s.conn[o].cid # NON /\ s.conn[o].cid = s.conn[p].cid => o = p
        /\ s.conn[o].sid # NON /\ s.conn[o].sid = s.conn[p].sid => o = p

TunnelOK(s) ==
    /\ s \in TunnelState
    /\ \A o \in Objs : ObjOK(s, o)
    /\ \A o \in Objs : ~EarlyAck => FakeOK(s, o)
    /\ \A c \in Cids : CliOK(s, c)
    /\ \A c \in Cids : MovesOK(s, c)
    /\ \A x \in Sids : SrvOK(s, x)
    /\ Alone(s)

-----------------------------------------------------------------------------
(* One cluster: a connection with its client id and its server id.         *)

\* The step from s to t touches only the connection o and the ids c and x (or NON).
Changed(s, t, o, c, x) ==
    /\ \A p \in Objs : p # o => t.conn[p] = s.conn[p]
    /\ \A d \in Cids : d # c => /\ t.byClient[d] = s.byClient[d] /\ t.lsn[d] = s.lsn[d] /\ t.wire[d] = s.wire[d]
                                /\ d \in t.app <=> d \in s.app
                                /\ d \in t.waiters <=> d \in s.waiters
    /\ \A y \in Sids : y # x => t.byServer[y] = s.byServer[y] /\ t.ups[y] = s.ups[y]

\* o carries no other id than c and x, and they are filed, if at all, under o.
Carries(s, o, c, x) ==
    /\ s.conn[o] # NON => s.conn[o].cid \in {c, NON} /\ s.conn[o].sid \in {x, NON}
    /\ c # NON => s.byClient[c] \in {o, NON}
    /\ x # NON => s.byServer[x] \in {o, NON}

\* No other connection carries c or x.
Apart(s, o, c, x) ==
    \A p \in Objs : p # o /\ s.conn[p] # NON =>
        /\ c # NON => s.conn[p].cid # c
        /\ x # NON => s.conn[p].sid # x

LEMMA StateFields ==
  ASSUME NEW s \in TunnelState
  PROVE  /\ s.conn \in [Objs -> VpnConnection \cup {NON}] /\ s.byClient \in [Cids -> Objs \cup {NON}]
         /\ s.byServer \in [Sids -> Objs \cup {NON}] /\ s.waiters \subseteq Cids /\ s.ep \in Sessions
         /\ s.app \subseteq Cids /\ s.lsn \in [Cids -> ListenerConn] /\ s.ups \in [Sids -> UpstreamConn]
         /\ s.wire \in [Cids -> Seq(1..MaxPkt)]
BY Zenon DEF TunnelState

LEMMA ConnFields ==
  ASSUME NEW r \in VpnConnection
  PROVE  /\ r.cid \in Cids \cup {NON} /\ r.sid \in Sids \cup {NON} /\ r.up \in Upstreams \cup {NON}
         /\ r.st \in VpnConnectionState /\ r.proto \in {"tcp", "udp"} /\ r.dst \in {"addr", "name", "dns"}
         /\ r.forced \in {"default", "bypass", "redirect"} /\ r.mig \in Cids \cup {NON}
         /\ r.first \in BOOLEAN /\ r.looking \in BOOLEAN /\ r.suspect \in BOOLEAN /\ r.fakec \in BOOLEAN
         /\ r.closed \in BOOLEAN /\ r.task \in BOOLEAN /\ r.sending \in BOOLEAN
         /\ r.buf \in Seq(1..MaxPkt) /\ r.tries \in 0..(MaxLookupAttempts + 1)
BY Zenon DEF VpnConnection

LEMMA Apartness ==
  NON \notin Cids /\ NON \notin Sids /\ NON \notin Objs /\ NON \notin Upstreams /\ NON \notin VpnConnection
BY TunnelAssumption, Zenon DEF Objs

LEMMA LiveConn ==
  ASSUME NEW s \in TunnelState, NEW o \in Objs
  PROVE  s.conn[o] # NON => s.conn[o] \in VpnConnection
BY StateFields, Zenon

LEMMA ObjKept ==
  ASSUME NEW s \in TunnelState, NEW t \in TunnelState, NEW o \in Objs, NEW c \in Cids \cup {NON}, NEW x \in Sids \cup {NON},
         Changed(s, t, o, c, x), Apart(s, o, c, x), NEW p \in Objs, p # o, ObjOK(s, p),
         c # NON => s.byClient[c] \in {o, NON} /\ t.byClient[c] \in {o, NON} /\ (t.lsn[c].st = "none" => s.lsn[c].st = "none"),
         x # NON => s.byServer[x] \in {o, NON} /\ t.byServer[x] \in {o, NON}
  PROVE  ObjOK(t, p)
<1> DEFINE r == s.conn[p]
<1>1. t.conn[p] = r
  BY Zenon DEF Changed
<1> SUFFICES ASSUME r # NON PROVE ObjOK(t, p)
  BY <1>1, Zenon DEF ObjOK
<1>2. /\ r.cid \in Cids \cup {NON} /\ r.sid \in Sids \cup {NON} /\ r.mig \in Cids \cup {NON}
  BY LiveConn, ConnFields, Zenon
<1>3. r.cid # NON => r.cid # c /\ r.cid \in Cids
  BY <1>2, Zenon DEF Apart
<1>4. r.sid # NON => r.sid # x /\ r.sid \in Sids
  BY <1>2, Zenon DEF Apart
<1>5. r.cid # NON => /\ t.byClient[r.cid] = s.byClient[r.cid] /\ t.lsn[r.cid] = s.lsn[r.cid]
                     /\ r.cid \in t.app <=> r.cid \in s.app
                     /\ r.cid \in t.waiters <=> r.cid \in s.waiters
  BY <1>3, Zenon DEF Changed
<1>6. r.sid # NON => t.byServer[r.sid] = s.byServer[r.sid] /\ t.ups[r.sid] = s.ups[r.sid]
  BY <1>4, Zenon DEF Changed
<1>7. r.mig # NON => (t.lsn[r.mig].st = "none" => s.lsn[r.mig].st = "none")
  BY <1>2, Zenon DEF Changed
<1>8. NON \notin t.app /\ NON \notin t.waiters
  BY StateFields, Apartness, Zenon
<1>9. r = s.conn[p] /\ r # NON
  OBVIOUS
<1> HIDE DEF r
<1> QED BY <1>9, <1>1, <1>5, <1>6, <1>7, <1>8, SMT DEF ObjOK

LEMMA FakeKept ==
  ASSUME NEW s \in TunnelState, NEW t \in TunnelState, NEW o \in Objs, NEW c \in Cids \cup {NON}, NEW x \in Sids \cup {NON},
         Changed(s, t, o, c, x), Apart(s, o, c, x), NEW p \in Objs, p # o, FakeOK(s, p)
  PROVE  FakeOK(t, p)
<1> DEFINE r == s.conn[p]
<1>1. t.conn[p] = r
  BY Zenon DEF Changed
<1> SUFFICES ASSUME r # NON PROVE FakeOK(t, p)
  BY <1>1, Zenon DEF FakeOK
<1>2. r.cid \in Cids \cup {NON}
  BY LiveConn, ConnFields, Zenon
<1>3. r.cid # NON => r.cid # c /\ r.cid \in Cids
  BY <1>2, Zenon DEF Apart
<1>5. r.cid # NON => t.lsn[r.cid] = s.lsn[r.cid]
  BY <1>3, Zenon DEF Changed
<1>9. r = s.conn[p] /\ r # NON
  OBVIOUS
<1> HIDE DEF r
<1> QED BY <1>9, <1>1, <1>5, SMT DEF FakeOK

LEMMA CliKept ==
  ASSUME NEW s \in TunnelState, NEW t \in TunnelState, NEW o \in Objs, NEW c \in Cids \cup {NON}, NEW x \in Sids \cup {NON},
         Changed(s, t, o, c, x), Apart(s, o, c, x), NEW d \in Cids, d # c, CliOK(s, d),
         Carries(s, o, c, x), o # d \/ t.lsn[d].st # "none"
  PROVE  CliOK(t, d)
<1> DEFINE p == s.byClient[d]
<1>1. /\ t.byClient[d] = p /\ t.lsn[d] = s.lsn[d] /\ t.wire[d] = s.wire[d]
      /\ d \in t.app <=> d \in s.app
      /\ d \in t.waiters <=> d \in s.waiters
  BY Zenon DEF Changed
<1>2. p \in Objs \cup {NON}
  BY StateFields, Zenon
<1>3. p # NON => s.conn[p] # NON /\ s.conn[p].cid = d
  BY Zenon DEF CliOK, CliBase, CliBacked
<1>4. p # NON => p # o
  BY <1>3, Apartness, Zenon DEF Carries
<1>5. p # NON => t.conn[p] = s.conn[p]
  BY <1>2, <1>4, Zenon DEF Changed
<1>6. p # NON => s.conn[p].sid \in Sids \cup {NON}
  BY <1>2, <1>3, LiveConn, ConnFields, Zenon
<1>7. p # NON => (s.conn[p].sid # NON => t.byServer[s.conn[p].sid] = s.byServer[s.conn[p].sid])
  BY <1>2, <1>3, <1>4, <1>6, Zenon DEF Changed, Apart
<1>8. d \in Objs /\ (o # d => t.conn[d] = s.conn[d])
  BY Zenon DEF Changed, Objs
<1>9. p = s.byClient[d]
  OBVIOUS
<1> HIDE DEF p
<1>10. CASE p = NON
  BY <1>1, <1>8, <1>9, <1>10, SMT DEF CliOK, CliBase, CliBacked
<1>11. CASE p # NON
  <2> DEFINE l == s.lsn[d]
  <2>1. PICK r : r = s.conn[p]
    OBVIOUS
  <2>2. t.conn[p] = r /\ r # NON /\ r.cid = d /\ (r.sid # NON => t.byServer[r.sid] = s.byServer[r.sid])
    BY <1>11, <1>3, <1>5, <1>7, <2>1, Zenon
  <2>3. l = s.lsn[d] /\ t.lsn[d] = l /\ t.wire[d] = s.wire[d] /\ t.byClient[d] = p /\ s.byClient[d] = p
    BY <1>1, <1>9, Zenon
  <2>4. /\ l.st # "none"
        /\ ~(d \in t.app /\ d \in t.waiters)
    BY <1>1, <1>9, <1>11, Zenon DEF CliOK, CliBase, CliBacked
  <2>5. /\ r # NON /\ r.cid = d /\ l.st # "closed"
        /\ l.st = "passed" => r.st = "WAITING_ACCEPT"
        /\ l.st = "open" => r.st \in {"CONNECTED", "CONNECTED_MIGRATING"}
        /\ l.st \in {"passed", "open"} \/ (r.proto = "udp" /\ r.st = "CONNECTED") =>
                    r.sid # NON /\ s.byServer[r.sid] = p
        /\ r.proto = "udp" => ~l.unsent
        /\ r.proto = "tcp" /\ r.st # "CONNECTED_MIGRATING" => s.wire[d] \o r.buf = Counted(l.pos - 1)
    BY <1>9, <1>11, <2>1, Zenon DEF CliOK, CliBase, CliBacked
  <2>6. /\ l.st \in {"passed", "open"} \/ (r.proto = "udp" /\ r.st = "CONNECTED") =>
                    r.sid # NON /\ t.byServer[r.sid] = p
        /\ r.proto = "tcp" /\ r.st # "CONNECTED_MIGRATING" => t.wire[d] \o r.buf = Counted(l.pos - 1)
    BY <2>2, <2>3, <2>5, Zenon
  <2> HIDE DEF l
  <2> QED BY <1>11, <2>2, <2>3, <2>4, <2>5, <2>6, Zenon DEF CliOK, CliBase, CliBacked
<1> QED BY <1>10, <1>11

LEMMA SrvKept ==
  ASSUME NEW s \in TunnelState, NEW t \in TunnelState, NEW o \in Objs, NEW c \in Cids \cup {NON}, NEW x \in Sids \cup {NON},
         Changed(s, t, o, c, x), NEW y \in Sids, y # x, SrvOK(s, y),
         s.conn[o] # NON => s.conn[o].sid \in {x, NON}
  PROVE  SrvOK(t, y)
<1>1. t.byServer[y] = s.byServer[y] /\ t.ups[y] = s.ups[y]
  BY Zenon DEF Changed
<1>0. s.byServer[y] # NON => s.conn[s.byServer[y]] # NON /\ s.conn[s.byServer[y]].sid = y
  BY Zenon DEF SrvOK
<1>2. s.byServer[y] # NON => s.byServer[y] \in Objs /\ s.byServer[y] # o
  <2>1. y # NON /\ s.byServer[y] \in Objs \cup {NON}
    BY StateFields, Apartness, Zenon
  <2> QED BY <1>0, <2>1, Zenon
<1>3. s.byServer[y] # NON => t.conn[s.byServer[y]] = s.conn[s.byServer[y]]
  BY <1>2, Zenon DEF Changed
<1> QED BY <1>1, <1>3, Zenon DEF SrvOK

LEMMA AloneKept ==
  ASSUME NEW s \in TunnelState, NEW t \in TunnelState, NEW o \in Objs, NEW c \in Cids \cup {NON}, NEW x \in Sids \cup {NON},
         Changed(s, t, o, c, x), Apart(s, o, c, x), Alone(s),
         t.conn[o] # NON => t.conn[o].cid \in {c, NON} /\ t.conn[o].sid \in {x, NON}
  PROVE  Alone(t)
<1> SUFFICES ASSUME NEW p \in Objs, NEW q \in Objs, t.conn[p] # NON, t.conn[q] # NON
             PROVE  /\ t.conn[p].cid # NON /\ t.conn[p].cid = t.conn[q].cid => p = q
                    /\ t.conn[p].sid # NON /\ t.conn[p].sid = t.conn[q].sid => p = q
  BY Zenon DEF Alone
<1>1. (p # o => t.conn[p] = s.conn[p]) /\ (q # o => t.conn[q] = s.conn[q])
  BY Zenon DEF Changed
<1>2. CASE p # o /\ q # o
  BY <1>1, <1>2, Zenon DEF Alone
<1>3. CASE p = o /\ q # o
  BY <1>1, <1>3, Zenon DEF Apart
<1>4. CASE p # o /\ q = o
  BY <1>1, <1>4, Zenon DEF Apart
<1>5. CASE p = o /\ q = o
  BY <1>5, Zenon
<1> QED BY <1>2, <1>3, <1>4, <1>5, Zenon

\* The migrations of every client id are left as they were.
MovesLeft(s, t, o, c) ==
    /\ t.conn[o] # NON /\ t.conn[o].mig # NON =>
         /\ s.conn[o] # NON /\ t.conn[o].mig = s.conn[o].mig
         /\ t.conn[o].proto = s.conn[o].proto /\ t.conn[o].buf = s.conn[o].buf
    /\ c # NON /\ t.byClient[c] # NON =>
         /\ t.byClient[c] = o /\ s.byClient[c] = o /\ s.conn[o] # NON /\ t.conn[o] # NON
         /\ t.conn[o].proto = s.conn[o].proto
         /\ s.conn[o].st \in {"CONNECTED", "CONNECTED_MIGRATING"} =>
              t.conn[o].st = s.conn[o].st \/ t.conn[o].st = "CONNECTED_MIGRATING"
         /\ s.conn[o].st = "CONNECTED_MIGRATING" /\ s.conn[o].proto = "tcp" =>
              t.wire[c] = s.wire[c] /\ t.lsn[c].pos = s.lsn[c].pos

LEMMA MovesKept ==
  ASSUME NEW s \in TunnelState, NEW t \in TunnelState, NEW o \in Objs, NEW c \in Cids \cup {NON}, NEW x \in Sids \cup {NON},
         Changed(s, t, o, c, x), MovesLeft(s, t, o, c), NEW d \in Cids, CliOK(s, d), MovesOK(s, d),
         s.conn[o] # NON => s.conn[o].cid \in {c, NON}
  PROVE  MovesOK(t, d)
<1> SUFFICES ASSUME t.byClient[d] # NON, NEW p \in Objs, t.conn[p] # NON, t.conn[p].mig = d
             PROVE  LET r == t.conn[p]
                        q == t.conn[t.byClient[d]]
                    IN  /\ q.proto = r.proto
                        /\ q.st = "CONNECTED_MIGRATING" \/ (r.proto = "udp" /\ q.st = "CONNECTED")
                        /\ r.proto = "tcp" => /\ t.wire[d] \o r.buf = Counted(t.lsn[d].pos - 1)
                                              /\ \A y \in Objs : t.conn[y] # NON /\ t.conn[y].mig = d => y = p
  BY Zenon DEF MovesOK
<1> DEFINE b == s.byClient[d]
<1>0. d # NON
  BY Apartness, Zenon
<1>1. t.byClient[d] = b
  <2>1. CASE d = c
    BY <1>0, <2>1, Zenon DEF MovesLeft
  <2>2. CASE d # c
    BY <2>2, Zenon DEF Changed
  <2> QED BY <2>1, <2>2
<1>2. b \in Objs /\ b # NON /\ s.conn[b] # NON /\ s.conn[b].cid = d /\ d # NON
  BY <1>1, StateFields, Apartness, Zenon DEF CliOK, CliBase
<1>3. \A y \in Objs : t.conn[y] # NON /\ t.conn[y].mig = d =>
         /\ s.conn[y] # NON /\ s.conn[y].mig = d
         /\ t.conn[y].proto = s.conn[y].proto /\ t.conn[y].buf = s.conn[y].buf
  BY <1>2, Zenon DEF Changed, MovesLeft
<1>4. /\ t.conn[b].proto = s.conn[b].proto
      /\ s.conn[b].st \in {"CONNECTED", "CONNECTED_MIGRATING"} =>
           t.conn[b].st = s.conn[b].st \/ t.conn[b].st = "CONNECTED_MIGRATING"
      /\ s.conn[b].st = "CONNECTED_MIGRATING" /\ s.conn[b].proto = "tcp" =>
           t.wire[d] = s.wire[d] /\ t.lsn[d].pos = s.lsn[d].pos
  <2>1. CASE d = c
    BY <1>1, <1>2, <2>1, Zenon DEF MovesLeft
  <2>2. CASE d # c
    <3>1. b # o
      BY <1>2, <2>2, Zenon
    <3> QED BY <1>2, <2>2, <3>1, Zenon DEF Changed
  <2> QED BY <2>1, <2>2
<1>5. /\ s.conn[b].proto = s.conn[p].proto
      /\ s.conn[b].st = "CONNECTED_MIGRATING" \/ (s.conn[p].proto = "udp" /\ s.conn[b].st = "CONNECTED")
      /\ s.conn[p].proto = "tcp" => /\ s.wire[d] \o s.conn[p].buf = Counted(s.lsn[d].pos - 1)
                                    /\ \A y \in Objs : s.conn[y] # NON /\ s.conn[y].mig = d => y = p
  BY <1>2, <1>3, Zenon DEF MovesOK
<1>6. t.conn[p].proto = s.conn[p].proto /\ t.conn[p].buf = s.conn[p].buf
  BY <1>3, Zenon
<1>7. t.conn[p].proto = "tcp" => s.conn[b].st = "CONNECTED_MIGRATING" /\ s.conn[b].proto = "tcp"
  BY <1>5, <1>6, Zenon
<1> HIDE DEF b
<1>8. t.conn[p].proto = "tcp" => /\ t.wire[d] \o t.conn[p].buf = Counted(t.lsn[d].pos - 1)
                                 /\ \A y \in Objs : t.conn[y] # NON /\ t.conn[y].mig = d => y = p
  BY <1>3, <1>4, <1>5, <1>6, <1>7, Zenon
<1>9. t.conn[b].st = "CONNECTED_MIGRATING" \/ (t.conn[p].proto = "udp" /\ t.conn[b].st = "CONNECTED")
  BY <1>4, <1>5, <1>6, Zenon
<1> QED BY <1>1, <1>4, <1>5, <1>6, <1>8, <1>9, Zenon

\* A step of one cluster keeps the invariant when it does so where it works.
LEMMA ClusterStep ==
  ASSUME NEW s, TunnelOK(s), NEW t \in TunnelState,
         NEW o \in Objs, NEW c \in Cids \cup {NON}, NEW x \in Sids \cup {NON},
         Changed(s, t, o, c, x), Carries(s, o, c, x), Apart(s, o, c, x), Carries(t, o, c, x),
         \A d \in Cids : MovesOK(t, d),
         ObjOK(t, o), ~EarlyAck => FakeOK(t, o),
         c # NON => CliOK(t, c) /\ (t.lsn[c].st = "none" => s.lsn[c].st = "none"),
         x # NON => SrvOK(t, x),
         o \in Cids /\ o # c => s.lsn[o].st # "none"
  PROVE  TunnelOK(t)
<1>0. s \in TunnelState
  BY DEF TunnelOK
<1>c. /\ s.conn[o] # NON => s.conn[o].cid \in {c, NON} /\ s.conn[o].sid \in {x, NON}
      /\ t.conn[o] # NON => t.conn[o].cid \in {c, NON} /\ t.conn[o].sid \in {x, NON}
      /\ c # NON => s.byClient[c] \in {o, NON} /\ t.byClient[c] \in {o, NON}
      /\ x # NON => s.byServer[x] \in {o, NON} /\ t.byServer[x] \in {o, NON}
  BY Zenon DEF Carries
<1>1. ASSUME NEW p \in Objs PROVE ObjOK(t, p)
  <2>1. CASE p = o
    BY <2>1
  <2>2. CASE p # o
    <3>1. ObjOK(s, p)
      BY Zenon DEF TunnelOK
    <3> QED BY <1>0, <1>c, <2>2, <3>1, ObjKept, Zenon
  <2> QED BY <2>1, <2>2
<1>2. ASSUME NEW p \in Objs, ~EarlyAck PROVE FakeOK(t, p)
  <2>1. CASE p = o
    BY <1>2, <2>1
  <2>2. CASE p # o
    <3>1. FakeOK(s, p)
      BY <1>2, Zenon DEF TunnelOK
    <3> QED BY <1>0, <2>2, <3>1, FakeKept, Zenon
  <2> QED BY <2>1, <2>2
<1>3. ASSUME NEW d \in Cids PROVE CliOK(t, d)
  <2>0. d # NON
    BY Apartness, Zenon
  <2>1. CASE d = c
    BY <2>0, <2>1
  <2>2. CASE d # c
    <3>1. CliOK(s, d)
      BY Zenon DEF TunnelOK
    <3>2. o # d \/ t.lsn[d].st # "none"
      BY <2>2, Zenon DEF Changed
    <3> QED BY <1>0, <2>2, <3>1, <3>2, CliKept, Zenon
  <2> QED BY <2>1, <2>2
<1>4. ASSUME NEW y \in Sids PROVE SrvOK(t, y)
  <2>0. y # NON
    BY Apartness, Zenon
  <2>1. CASE y = x
    BY <2>0, <2>1
  <2>2. CASE y # x
    <3>1. SrvOK(s, y)
      BY Zenon DEF TunnelOK
    <3> QED BY <1>0, <1>c, <2>2, <3>1, SrvKept, Zenon
  <2> QED BY <2>1, <2>2
<1>5. Alone(t)
  <2>1. Alone(s)
    BY DEF TunnelOK
  <2> QED BY <1>0, <1>c, <2>1, AloneKept, Zenon
<1> QED BY <1>1, <1>2, <1>3, <1>4, <1>5, Zenon DEF TunnelOK

-----------------------------------------------------------------------------
(* Packets.                                                                *)

\* The first k packets of the buffer b have followed w: v is sent, a is left.
Drained(w, b, k, v, a, S) ==
    /\ v \in Seq(S) /\ a \in Seq(S) /\ v \o a = w \o b
    /\ b = <<>> => a = <<>> /\ v = w

LEMMA SplitSeq ==
  ASSUME NEW S, NEW w \in Seq(S), NEW b \in Seq(S), NEW k \in 0..Len(b)
  PROVE  Drained(w, b, k, w \o SubSeq(b, 1, k), SubSeq(b, k + 1, Len(b)), S)
<1> DEFINE p == SubSeq(b, 1, k)
           q == SubSeq(b, k + 1, Len(b))
<1>0. Len(b) \in Nat
  OBVIOUS
<1>1. p \in Seq(S) /\ Len(p) = k /\ \A i \in 1..k : p[i] = b[i]
  OBVIOUS
<1>2. q \in Seq(S) /\ Len(q) = Len(b) - k /\ \A i \in 1..(Len(b) - k) : q[i] = b[k + i]
  OBVIOUS
<1> HIDE DEF p, q
<1>3. p \o q = b
  <2>1. 1 \in 1..(Len(b) + 1) /\ k \in (1 - 1)..Len(b) /\ Len(b) \in k..Len(b)
    BY <1>0
  <2>2. p \o q = SubSeq(b, 1, Len(b))
    BY <2>1, ConcatAdjacentSubSeq, Zenon DEF p, q
  <2> QED BY <2>2, SubSeqFull, Zenon
<1>4. (w \o p) \o q = w \o (p \o q)
  BY <1>1, <1>2, ConcatAssociative, SMTT(60)
<1>5. w \o p \in Seq(S)
  BY <1>1
<1>6. ASSUME b = <<>> PROVE q = <<>> /\ w \o p = w
  <2>1. Len(b) = 0 /\ k = 0
    BY <1>6
  <2>2. p = <<>> /\ q = <<>>
    BY <1>1, <1>2, <2>1
  <2>3. w \o <<>> = w
    BY ConcatEmptySeq
  <2> QED BY <2>2, <2>3
<1> QED BY <1>2, <1>3, <1>4, <1>5, <1>6 DEF p, q, Drained

LEMMA Counting ==
  ASSUME NEW S, NEW w \in Seq(S), NEW n \in Nat, w = Counted(n)
  PROVE  Append(w, n + 1) = Counted(n + 1)
<1>1. Len(w) = n
  BY DEF Counted
<1> QED BY <1>1 DEF Counted

LEMMA AppendConcat ==
  ASSUME NEW S, NEW w \in Seq(S), NEW b \in Seq(S), NEW e \in S
  PROVE w \o Append(b, e) = Append(w \o b, e) /\ Append(b, e) \in Seq(S)
OBVIOUS
-----------------------------------------------------------------------------
(* The handlers.                                                           *)

\* The upstreams of t hold what those of s hold, some of it asked to close.
Fades(f, g) ==
    \A y \in Sids : /\ g[y].u = f[y].u
                    /\ f[y].st = "gone" => g[y].st = "gone"
                    /\ g[y].st \in {"opening", "aborting"} => f[y].st \in {"opening", "aborting"}

LEMMA UpsFields ==
  ASSUME NEW s \in TunnelState, NEW y \in Sids
  PROVE  s.ups[y] \in UpstreamConn /\ s.ups[y].u \in Upstreams \cup {NON}
         /\ s.ups[y].st \in {"unused", "opening", "aborting", "open", "closing", "gone"}
<1>1. s.ups[y] \in UpstreamConn
  BY StateFields, Zenon
<1> QED BY <1>1, Zenon DEF UpstreamConn

LEMMA LsnFields ==
  ASSUME NEW s \in TunnelState, NEW c \in Cids
  PROVE  s.lsn[c] \in ListenerConn /\ s.lsn[c].st \in ListenerStates /\ s.lsn[c].reads \in BOOLEAN
         /\ s.lsn[c].unsent \in BOOLEAN /\ s.lsn[c].pos \in 1..(MaxPkt + 1)
<1>1. s.lsn[c] \in ListenerConn
  BY StateFields, Zenon
<1> QED BY <1>1, Zenon DEF ListenerConn

FadedAt(s, t, x) ==
    /\ t \in TunnelState /\ t.conn = s.conn /\ t.byClient = s.byClient /\ t.byServer = s.byServer
    /\ t.waiters = s.waiters /\ t.ep = s.ep /\ t.app = s.app /\ t.lsn = s.lsn /\ t.wire = s.wire
    /\ Fades(s.ups, t.ups)
    /\ \A y \in Sids : y # x => t.ups[y] = s.ups[y]

LEMMA AsyncClosed ==
  ASSUME NEW s \in TunnelState, NEW u, NEW x \in Sids \cup {NON}, NEW t, t = CloseAsync(s, u, x)
  PROVE  FadedAt(s, t, x)
<1> USE DEF FadedAt
<1>1. CASE ~Held(s, u, x)
  <2>1. t = s
    BY <1>1, Zenon DEF CloseAsync
  <2> QED BY <2>1, Zenon DEF Fades
<1>2. CASE Held(s, u, x)
  <2>1. x \in Sids /\ s.ups[x].st # "gone"
    BY <1>2, Zenon DEF Held
  <2> DEFINE e == IF s.ups[x].st = "opening" /\ u # "fake" THEN "aborting" ELSE "closing"
             g == [s.ups EXCEPT ![x].st = e]
  <2>2. t = [s EXCEPT !.ups[x].st = e]
    BY <1>2, Zenon DEF CloseAsync
  <2>3. s.ups[x] \in UpstreamConn /\ s.ups \in [Sids -> UpstreamConn]
    BY <2>1, UpsFields, StateFields, Zenon
  <2>e. e \in {"aborting", "closing"} /\ (e = "aborting" => s.ups[x].st = "opening")
    BY Zenon
  <2> HIDE DEF e
  <2>4. [s.ups[x] EXCEPT !.st = e] \in UpstreamConn
    BY <2>3, <2>e, Zenon DEF UpstreamConn
  <2>5. g \in [Sids -> UpstreamConn]
    BY <2>1, <2>3, <2>4, Zenon
  <2>6. g[x].st = e /\ g[x].u = s.ups[x].u /\ \A y \in Sids : y # x => g[y] = s.ups[y]
    BY <2>1, <2>3, <2>4, SMT DEF UpstreamConn
  <2>7. t \in TunnelState
    BY <2>2, <2>5, Zenon DEF TunnelState
  <2>8. /\ t.ups = g /\ t.conn = s.conn /\ t.byClient = s.byClient /\ t.byServer = s.byServer
        /\ t.waiters = s.waiters /\ t.ep = s.ep /\ t.app = s.app /\ t.lsn = s.lsn /\ t.wire = s.wire
    BY <2>2, Zenon DEF TunnelState
  <2> HIDE DEF g
  <2>9. Fades(s.ups, g)
    BY <2>1, <2>6, <2>e, SMT DEF Fades
  <2> QED BY <2>6, <2>7, <2>8, <2>9, Zenon
<1> QED BY <1>1, <1>2

\* t is s without the connection o, whose record is r.
Without(s, t, o, r) ==
    /\ t \in TunnelState
    /\ t.conn[o] = NON /\ \A p \in Objs : p # o => t.conn[p] = s.conn[p]
    /\ \A d \in Cids : t.byClient[d] = IF d = r.cid THEN NON ELSE s.byClient[d]
    /\ \A y \in Sids : t.byServer[y] = IF y = r.sid THEN NON ELSE s.byServer[y]
    /\ t.waiters \subseteq s.waiters /\ \A d \in Cids : d # r.cid => (d \in t.waiters <=> d \in s.waiters)
    /\ r.st # "WAITING_RESOLVE" => t.waiters = s.waiters
    /\ t.ep = s.ep /\ t.app = s.app /\ t.lsn = s.lsn /\ t.ups = s.ups /\ t.wire = s.wire

LEMMA Destroyed ==
  ASSUME NEW s \in TunnelState, NEW o \in Objs, NEW r, r = s.conn[o], r # NON, NEW t, t = DestroyConnection(s, o)
  PROVE  Without(s, t, o, r)
<1>1. r \in VpnConnection
  BY LiveConn, Zenon
<1>2. r.cid \in Cids \cup {NON} /\ r.sid \in Sids \cup {NON}
  BY <1>1, ConnFields, Zenon
<1>3. [s.conn EXCEPT ![o] = NON] \in [Objs -> VpnConnection \cup {NON}]
  BY StateFields, Zenon
<1>4. (IF r.cid = NON THEN s.byClient ELSE [s.byClient EXCEPT ![r.cid] = NON]) \in [Cids -> Objs \cup {NON}]
  BY StateFields, <1>2, Zenon
<1>5. (IF r.sid = NON THEN s.byServer ELSE [s.byServer EXCEPT ![r.sid] = NON]) \in [Sids -> Objs \cup {NON}]
  BY StateFields, <1>2, Zenon
<1>6. (IF r.st = "WAITING_RESOLVE" THEN s.waiters \ {r.cid} ELSE s.waiters) \in SUBSET Cids
  BY StateFields, Zenon
<1>7. t \in TunnelState
  BY <1>3, <1>4, <1>5, <1>6, Zenon DEF DestroyConnection, TunnelState
<1>8. /\ t.conn = [s.conn EXCEPT ![o] = NON]
      /\ t.byClient = IF r.cid = NON THEN s.byClient ELSE [s.byClient EXCEPT ![r.cid] = NON]
      /\ t.byServer = IF r.sid = NON THEN s.byServer ELSE [s.byServer EXCEPT ![r.sid] = NON]
      /\ t.waiters = IF r.st = "WAITING_RESOLVE" THEN s.waiters \ {r.cid} ELSE s.waiters
      /\ t.ep = s.ep /\ t.app = s.app /\ t.lsn = s.lsn /\ t.ups = s.ups /\ t.wire = s.wire
  BY SMT DEF DestroyConnection, TunnelState
<1>9. /\ t.waiters \subseteq s.waiters /\ \A d \in Cids : d # r.cid => (d \in t.waiters <=> d \in s.waiters)
      /\ r.st # "WAITING_RESOLVE" => t.waiters = s.waiters
  BY <1>8, SMT
<1>10. t.conn[o] = NON /\ \A p \in Objs : p # o => t.conn[p] = s.conn[p]
  BY <1>8, StateFields, SMT
<1>11. \A d \in Cids : t.byClient[d] = IF d = r.cid THEN NON ELSE s.byClient[d]
  BY <1>2, <1>8, StateFields, Apartness, SMT
<1>12. \A y \in Sids : t.byServer[y] = IF y = r.sid THEN NON ELSE s.byServer[y]
  BY <1>2, <1>8, StateFields, Apartness, SMT
<1> QED BY <1>7, <1>8, <1>9, <1>10, <1>11, <1>12 DEF Without

\* t is s but for the listener's side of c, which is l.
LsnSet(s, t, c, l) ==
    /\ t \in TunnelState /\ t.lsn[c] = l /\ \A d \in Cids : d # c => t.lsn[d] = s.lsn[d]
    /\ t.conn = s.conn /\ t.byClient = s.byClient /\ t.byServer = s.byServer
    /\ t.waiters = s.waiters /\ t.ep = s.ep /\ t.app = s.app /\ t.ups = s.ups /\ t.wire = s.wire

LEMMA ListenerSet ==
  ASSUME NEW s \in TunnelState, NEW c \in Cids, NEW l \in ListenerConn
  PROVE  LsnSet(s, [s EXCEPT !.lsn[c] = l], c, l)
<1> DEFINE t == [s EXCEPT !.lsn[c] = l]
<1>1. s.lsn \in [Cids -> ListenerConn]
  BY StateFields, Zenon
<1>2. [s.lsn EXCEPT ![c] = l] \in [Cids -> ListenerConn]
  BY <1>1, Zenon
<1>3. t \in TunnelState
  BY <1>2, Zenon DEF TunnelState
<1>4. /\ t.lsn = [s.lsn EXCEPT ![c] = l]
      /\ t.conn = s.conn /\ t.byClient = s.byClient /\ t.byServer = s.byServer
      /\ t.waiters = s.waiters /\ t.ep = s.ep /\ t.app = s.app /\ t.ups = s.ups /\ t.wire = s.wire
  BY Zenon DEF TunnelState
<1> HIDE DEF t
<1>5. t.lsn[c] = l /\ \A d \in Cids : d # c => t.lsn[d] = s.lsn[d]
  BY <1>1, <1>4, SMT
<1>6. LsnSet(s, t, c, l)
  BY <1>3, <1>4, <1>5 DEF LsnSet
<1> QED BY <1>6 DEF t

\* t is s but for the entry of c, which is b.
CliSet(s, t, c, b) ==
    /\ t \in TunnelState /\ t.byClient[c] = b /\ \A d \in Cids : d # c => t.byClient[d] = s.byClient[d]
    /\ t.conn = s.conn /\ t.lsn = s.lsn /\ t.byServer = s.byServer
    /\ t.waiters = s.waiters /\ t.ep = s.ep /\ t.app = s.app /\ t.ups = s.ups /\ t.wire = s.wire

LEMMA ClientTableSet ==
  ASSUME NEW s \in TunnelState, NEW c \in Cids, NEW b \in Objs \cup {NON}
  PROVE  CliSet(s, [s EXCEPT !.byClient[c] = b], c, b)
<1> DEFINE t == [s EXCEPT !.byClient[c] = b]
<1>1. s.byClient \in [Cids -> Objs \cup {NON}]
  BY StateFields, Zenon
<1>2. [s.byClient EXCEPT ![c] = b] \in [Cids -> Objs \cup {NON}]
  BY <1>1, Zenon
<1>3. t \in TunnelState
  BY <1>2, Zenon DEF TunnelState
<1>4. /\ t.byClient = [s.byClient EXCEPT ![c] = b]
      /\ t.conn = s.conn /\ t.lsn = s.lsn /\ t.byServer = s.byServer
      /\ t.waiters = s.waiters /\ t.ep = s.ep /\ t.app = s.app /\ t.ups = s.ups /\ t.wire = s.wire
  BY Zenon DEF TunnelState
<1> HIDE DEF t
<1>5. t.byClient[c] = b /\ \A d \in Cids : d # c => t.byClient[d] = s.byClient[d]
  BY <1>1, <1>4, SMT
<1>6. CliSet(s, t, c, b)
  BY <1>3, <1>4, <1>5 DEF CliSet
<1> QED BY <1>6 DEF t

LEMMA ClosedLsnFields ==
  ASSUME NEW l \in ListenerConn
  PROVE  /\ ClosedLsn(l) \in ListenerConn /\ ClosedLsn(l).st = "closed" /\ ~ClosedLsn(l).reads
         /\ ~ClosedLsn(l).unsent /\ ClosedLsn(l).pos = l.pos
<1>1. ClosedLsn(l) \in ListenerConn
  BY Zenon DEF ClosedLsn, ListenerConn, ListenerStates
<1>2. ClosedLsn(l).st = "closed" /\ ~ClosedLsn(l).reads /\ ~ClosedLsn(l).unsent /\ ClosedLsn(l).pos = l.pos
  BY Zenon DEF ClosedLsn, ListenerConn
<1> QED BY <1>1, <1>2

\* CLIENT_EVENT_CONNECTION_CLOSED leaves nothing of the connection o of c, or its server side.
Ended(s, t, o, c, x, r) ==
    /\ t \in TunnelState /\ Changed(s, t, o, c, x) /\ t.byClient[c] = NON
    /\ t.lsn[c] = ClosedLsn(s.lsn[c]) /\ t.app = s.app /\ t.waiters \subseteq s.waiters
    /\ r.st # "WAITING_RESOLVE" => t.waiters = s.waiters
    /\ t.wire = s.wire /\ t.ep = s.ep
    /\ \/ /\ t.conn[o] = NON /\ (x # NON => t.byServer[x] = NON /\ t.ups[x] = s.ups[x])
          /\ r.closed \/ x = NON \/ r.up = NON \/ s.byServer[x] = NON
       \/ /\ t.conn[o] = r /\ x # NON /\ ~r.closed /\ t.byServer = s.byServer /\ s.byServer[x] # NON
          /\ Fades(s.ups, t.ups)

LEMMA ClientClosedEffect ==
  ASSUME NEW s \in TunnelState, NEW c \in Cids, NEW o \in Objs, s.byClient[c] = o,
         NEW r, r = s.conn[o], r # NON, r.cid = c, NEW x, x = r.sid
  PROVE  Ended(s, OnClientClosed(s, c), o, c, x, r)
<1> DEFINE l == ClosedLsn(s.lsn[c])
<1>0. r \in VpnConnection /\ x \in Sids \cup {NON} /\ o # NON /\ c # NON
  BY LiveConn, ConnFields, Apartness, Zenon
<1>2. PICK t0 : t0 = [s EXCEPT !.lsn[c] = ClosedLsn(s.lsn[c])]
  OBVIOUS
<1>1. LsnSet(s, t0, c, l)
  <2>1. l \in ListenerConn
    BY LsnFields, ClosedLsnFields, Zenon
  <2> QED BY <1>2, <2>1, ListenerSet
<1>8. PICK t1 : t1 = [t0 EXCEPT !.byClient[c] = NON]
  OBVIOUS
<1>4. t0 \in TunnelState /\ t0.conn[o] = r
  BY <1>1, Zenon DEF LsnSet
<1>5. CliSet(t0, t1, c, NON)
  BY <1>4, <1>8, ClientTableSet, Zenon
<1> HIDE DEF l
<1>6. CASE r.closed \/ r.sid = NON \/ r.up = NON \/ s.byServer[r.sid] = NON
  <2>1. PICK t : t = OnClientClosed(s, c)
    OBVIOUS
  <2>2. t = DestroyConnection(t0, o)
    BY <1>0, <1>2, <1>6, <2>1, Zenon DEF OnClientClosed
  <2>3. Without(t0, t, o, r)
    BY <1>0, <1>4, <2>2, Destroyed, Apartness
  <2>4. Changed(s, t, o, c, x)
    BY <1>1, <2>3, SMT DEF Changed, Without, LsnSet
  <2>5. t \in TunnelState /\ t.byClient[c] = NON /\ t.conn[o] = NON
    BY <2>3, SMT DEF Without
  <2>6. /\ t.lsn[c] = l /\ t.app = s.app /\ t.waiters \subseteq s.waiters /\ t.wire = s.wire /\ t.ep = s.ep /\ t.ups = s.ups
        /\ r.st # "WAITING_RESOLVE" => t.waiters = s.waiters
    BY <1>1, <2>3, SMT DEF Without, LsnSet
  <2>7. x # NON => t.byServer[x] = NON
    BY <1>0, <2>3, SMT DEF Without
  <2>8. Ended(s, t, o, c, x, r)
    BY <1>6, <2>4, <2>5, <2>6, <2>7, Zenon DEF Ended, l
  <2> QED BY <2>1, <2>8
<1>7. CASE ~(r.closed \/ r.sid = NON \/ r.up = NON \/ s.byServer[r.sid] = NON)
  <2>1. PICK t : t = OnClientClosed(s, c)
    OBVIOUS
  <2>2. t = CloseAsync(t1, r.up, x)
    BY <1>0, <1>2, <1>7, <1>8, <2>1, Zenon DEF OnClientClosed
  <2>3. FadedAt(t1, t, x)
    <3>1. t1 \in TunnelState
      BY <1>5 DEF CliSet
    <3> QED BY <1>0, <2>2, <3>1, AsyncClosed
  <2>4. Changed(s, t, o, c, x)
    BY <1>1, <1>5, <2>3, SMT DEF Changed, LsnSet, CliSet, FadedAt
  <2>5. /\ t \in TunnelState /\ t.byClient[c] = NON /\ t.conn[o] = r
        /\ t.lsn[c] = l /\ t.app = s.app /\ t.waiters = s.waiters /\ t.wire = s.wire /\ t.ep = s.ep
        /\ t.byServer = s.byServer /\ Fades(s.ups, t.ups)
    BY <1>1, <1>4, <1>5, <2>3, SMT DEF FadedAt, CliSet, LsnSet
  <2>8. Ended(s, t, o, c, x, r)
    BY <1>0, <1>7, <2>4, <2>5, Zenon DEF Ended, l
  <2> QED BY <2>1, <2>8
<1> QED BY <1>6, <1>7

\* The cluster of c is as it should be, but that its server side may have gone.
Settled(s, o, c, x) ==
    /\ s \in TunnelState /\ Carries(s, o, c, x)
    /\ ObjOK(s, o) /\ (~EarlyAck => FakeOK(s, o)) /\ CliBase(s, c) /\ (x # NON => SrvOK(s, x))
    /\ s.byClient[c] = o /\ s.conn[o] # NON /\ s.conn[o].cid = c /\ s.conn[o].sid = x

\* The step from s to t stays within the cluster and leaves it as it should be.
WorksOut(s, t, o, c, x) ==
    /\ t \in TunnelState /\ Changed(s, t, o, c, x) /\ Carries(t, o, c, x) /\ MovesLeft(s, t, o, c)
    /\ ObjOK(t, o) /\ (~EarlyAck => FakeOK(t, o)) /\ CliOK(t, c) /\ (x # NON => SrvOK(t, x))
    /\ t.lsn[c].st = "none" => s.lsn[c].st = "none"

LEMMA ClosingWorks ==
  ASSUME NEW s, NEW c \in Cids, NEW o \in Objs, NEW x, Settled(s, o, c, x)
  PROVE  WorksOut(s, OnClientClosed(s, c), o, c, x)
<1> DEFINE r == s.conn[o]
<1>0. /\ s \in TunnelState /\ s.byClient[c] = o /\ r # NON /\ r.cid = c /\ r.sid = x
      /\ Carries(s, o, c, x) /\ ObjOK(s, o) /\ CliBase(s, c) /\ (x # NON => SrvOK(s, x))
  BY DEF Settled
<1>1. PICK t : t = OnClientClosed(s, c)
  OBVIOUS
<1>2. Ended(s, t, o, c, x, r)
  BY <1>0, <1>1, ClientClosedEffect
<1>3. c # NON /\ o # NON /\ r \in VpnConnection /\ x \in Sids \cup {NON} /\ s.lsn[c] \in ListenerConn
  BY <1>0, Apartness, LiveConn, ConnFields, LsnFields, Zenon
<1>4. r = s.conn[o]
  OBVIOUS
<1> HIDE DEF r
<1>5. /\ t \in TunnelState /\ Changed(s, t, o, c, x) /\ t.byClient[c] = NON
      /\ t.app = s.app /\ t.waiters \subseteq s.waiters
  BY <1>2 DEF Ended
<1>6. t.lsn[c].st = "closed" /\ ~t.lsn[c].reads /\ ~t.lsn[c].unsent
  BY <1>2, <1>3, ClosedLsnFields, Zenon DEF Ended
<1>7. CliOK(t, c)
  <2>1. ~(c \in t.app /\ c \in t.waiters)
    BY <1>0, <1>5, Zenon DEF CliBase
  <2> QED BY <1>5, <1>6, <2>1, SMT DEF CliOK, CliBase, CliBacked
<1>8. CASE t.conn[o] = NON
  <2>1. /\ x # NON => t.byServer[x] = NON /\ t.ups[x] = s.ups[x]
        /\ r.closed \/ x = NON \/ r.up = NON \/ s.byServer[x] = NON
    <3>1. r # NON
      BY <1>0
    <3> QED BY <1>2, <1>8, <3>1, Zenon DEF Ended
  <2>2. Carries(t, o, c, x)
    BY <1>5, <1>8, <2>1, Zenon DEF Carries
  <2>3. MovesLeft(s, t, o, c)
    BY <1>5, <1>8, Zenon DEF MovesLeft
  <2>4. ObjOK(t, o) /\ FakeOK(t, o)
    BY <1>8, Zenon DEF ObjOK, FakeOK
  <2>5. ASSUME x # NON PROVE SrvOK(t, x)
    <3>1. r.up # NON /\ (r.closed => s.ups[x].st = "gone")
      BY <1>0, <1>4, <2>5, Zenon DEF ObjOK
    <3>2. s.byServer[x] = NON => s.ups[x].st \notin {"opening", "aborting"}
      BY <1>0, <2>5, Zenon DEF SrvOK
    <3>3. s.ups[x].st \notin {"opening", "aborting"}
      BY <2>1, <2>5, <3>1, <3>2, SMT
    <3> QED BY <2>1, <2>5, <3>3, SMT DEF SrvOK
  <2>6. WorksOut(s, t, o, c, x)
    BY <1>5, <1>6, <1>7, <2>2, <2>3, <2>4, <2>5, SMT DEF WorksOut
  <2> QED BY <1>1, <2>6
<1>9. CASE t.conn[o] # NON
  <2>1. /\ t.conn[o] = r /\ x # NON /\ ~r.closed /\ t.byServer = s.byServer /\ s.byServer[x] # NON
        /\ Fades(s.ups, t.ups)
    BY <1>2, <1>9, Zenon DEF Ended
  <2>2. s.byServer[x] = o
    BY <1>0, <2>1, Zenon DEF Carries
  <2>3. Carries(t, o, c, x)
    BY <1>0, <1>5, <2>1, <2>2, Zenon DEF Carries
  <2>4. MovesLeft(s, t, o, c)
    BY <1>4, <1>5, <1>9, <2>1, Zenon DEF MovesLeft
  <2>5. x \in Sids /\ t.ups[x].u = s.ups[x].u
    BY <1>3, <2>1, Zenon DEF Fades
  <2>u. r.mig # NON => r.cid = NON
    BY <1>0, <1>4, Zenon DEF ObjOK
  <2>6. ObjOK(t, o)
    BY <1>0, <1>3, <1>4, <1>5, <1>6, <2>1, <2>2, <2>5, <2>u, SMT DEF ObjOK
  <2>7. FakeOK(t, o) \/ EarlyAck
    <3>1. ~EarlyAck => FakeOK(s, o)
      BY DEF Settled
    <3>2. t.lsn[r.cid].st = "closed"
      BY <1>0, <1>6
    <3> QED BY <1>0, <1>4, <2>1, <3>1, <3>2, SMT DEF FakeOK
  <2>8. SrvOK(t, x)
    <3>1. SrvOK(s, x)
      BY <1>0, <2>1
    <3> QED BY <1>0, <1>4, <2>1, <2>2, <2>5, <3>1, SMT DEF SrvOK, Fades
  <2>9. WorksOut(s, t, o, c, x)
    BY <1>5, <1>6, <1>7, <2>3, <2>4, <2>6, <2>7, <2>8, SMT DEF WorksOut
  <2> QED BY <1>1, <2>9
<1> QED BY <1>8, <1>9

\* t is s but for the connection o, whose record is q.
ConnSet(s, t, o, q) ==
    /\ t \in TunnelState /\ t.conn[o] = q /\ \A p \in Objs : p # o => t.conn[p] = s.conn[p]
    /\ t.byClient = s.byClient /\ t.byServer = s.byServer /\ t.waiters = s.waiters /\ t.ep = s.ep /\ t.app = s.app /\ t.lsn = s.lsn /\ t.ups = s.ups /\ t.wire = s.wire

LEMMA ConnectionSet ==
  ASSUME NEW s \in TunnelState, NEW o \in Objs, NEW q \in (VpnConnection \cup {NON})
  PROVE  ConnSet(s, [s EXCEPT !.conn[o] = q], o, q)
<1> DEFINE t == [s EXCEPT !.conn[o] = q]
<1>1. s.conn \in [Objs -> (VpnConnection \cup {NON})]
  BY StateFields, Zenon
<1>2. [s.conn EXCEPT ![o] = q] \in [Objs -> (VpnConnection \cup {NON})]
  BY <1>1, Zenon
<1>3. t \in TunnelState
  BY <1>2, Zenon DEF TunnelState
<1>4. /\ t.conn = [s.conn EXCEPT ![o] = q]
      /\ t.byClient = s.byClient /\ t.byServer = s.byServer /\ t.waiters = s.waiters /\ t.ep = s.ep /\ t.app = s.app /\ t.lsn = s.lsn /\ t.ups = s.ups /\ t.wire = s.wire
  BY Zenon DEF TunnelState
<1> HIDE DEF t
<1>5. t.conn[o] = q /\ \A p \in Objs : p # o => t.conn[p] = s.conn[p]
  BY <1>1, <1>4, SMT
<1>6. ConnSet(s, t, o, q)
  BY <1>3, <1>4, <1>5 DEF ConnSet
<1> QED BY <1>6 DEF t

\* t is s but for the entry of x, which is b.
SrvSet(s, t, x, b) ==
    /\ t \in TunnelState /\ t.byServer[x] = b /\ \A y \in Sids : y # x => t.byServer[y] = s.byServer[y]
    /\ t.conn = s.conn /\ t.byClient = s.byClient /\ t.waiters = s.waiters /\ t.ep = s.ep /\ t.app = s.app /\ t.lsn = s.lsn /\ t.ups = s.ups /\ t.wire = s.wire

LEMMA ServerTableSet ==
  ASSUME NEW s \in TunnelState, NEW x \in Sids, NEW b \in (Objs \cup {NON})
  PROVE  SrvSet(s, [s EXCEPT !.byServer[x] = b], x, b)
<1> DEFINE t == [s EXCEPT !.byServer[x] = b]
<1>1. s.byServer \in [Sids -> (Objs \cup {NON})]
  BY StateFields, Zenon
<1>2. [s.byServer EXCEPT ![x] = b] \in [Sids -> (Objs \cup {NON})]
  BY <1>1, Zenon
<1>3. t \in TunnelState
  BY <1>2, Zenon DEF TunnelState
<1>4. /\ t.byServer = [s.byServer EXCEPT ![x] = b]
      /\ t.conn = s.conn /\ t.byClient = s.byClient /\ t.waiters = s.waiters /\ t.ep = s.ep /\ t.app = s.app /\ t.lsn = s.lsn /\ t.ups = s.ups /\ t.wire = s.wire
  BY Zenon DEF TunnelState
<1> HIDE DEF t
<1>5. t.byServer[x] = b /\ \A y \in Sids : y # x => t.byServer[y] = s.byServer[y]
  BY <1>1, <1>4, SMT
<1>6. SrvSet(s, t, x, b)
  BY <1>3, <1>4, <1>5 DEF SrvSet
<1> QED BY <1>6 DEF t

\* t is s but for what the upstreams hold of x, which is e.
UpsSet(s, t, x, e) ==
    /\ t \in TunnelState /\ t.ups[x] = e /\ \A y \in Sids : y # x => t.ups[y] = s.ups[y]
    /\ t.conn = s.conn /\ t.byClient = s.byClient /\ t.byServer = s.byServer /\ t.waiters = s.waiters /\ t.ep = s.ep /\ t.app = s.app /\ t.lsn = s.lsn /\ t.wire = s.wire

LEMMA UpstreamSet ==
  ASSUME NEW s \in TunnelState, NEW x \in Sids, NEW e \in UpstreamConn
  PROVE  UpsSet(s, [s EXCEPT !.ups[x] = e], x, e)
<1> DEFINE t == [s EXCEPT !.ups[x] = e]
<1>1. s.ups \in [Sids -> UpstreamConn]
  BY StateFields, Zenon
<1>2. [s.ups EXCEPT ![x] = e] \in [Sids -> UpstreamConn]
  BY <1>1, Zenon
<1>3. t \in TunnelState
  BY <1>2, Zenon DEF TunnelState
<1>4. /\ t.ups = [s.ups EXCEPT ![x] = e]
      /\ t.conn = s.conn /\ t.byClient = s.byClient /\ t.byServer = s.byServer /\ t.waiters = s.waiters /\ t.ep = s.ep /\ t.app = s.app /\ t.lsn = s.lsn /\ t.wire = s.wire
  BY Zenon DEF TunnelState
<1> HIDE DEF t
<1>5. t.ups[x] = e /\ \A y \in Sids : y # x => t.ups[y] = s.ups[y]
  BY <1>1, <1>4, SMT
<1>6. UpsSet(s, t, x, e)
  BY <1>3, <1>4, <1>5 DEF UpsSet
<1> QED BY <1>6 DEF t

\* t is s but for what is on the wire for c, which is w.
WireSet(s, t, c, w) ==
    /\ t \in TunnelState /\ t.wire[c] = w /\ \A d \in Cids : d # c => t.wire[d] = s.wire[d]
    /\ t.conn = s.conn /\ t.byClient = s.byClient /\ t.byServer = s.byServer /\ t.waiters = s.waiters /\ t.ep = s.ep /\ t.app = s.app /\ t.lsn = s.lsn /\ t.ups = s.ups

LEMMA OnWireSet ==
  ASSUME NEW s \in TunnelState, NEW c \in Cids, NEW w \in Seq(1..MaxPkt)
  PROVE  WireSet(s, [s EXCEPT !.wire[c] = w], c, w)
<1> DEFINE t == [s EXCEPT !.wire[c] = w]
<1>1. s.wire \in [Cids -> Seq(1..MaxPkt)]
  BY StateFields, Zenon
<1>2. [s.wire EXCEPT ![c] = w] \in [Cids -> Seq(1..MaxPkt)]
  BY <1>1, Zenon
<1>3. t \in TunnelState
  BY <1>2, Zenon DEF TunnelState
<1>4. /\ t.wire = [s.wire EXCEPT ![c] = w]
      /\ t.conn = s.conn /\ t.byClient = s.byClient /\ t.byServer = s.byServer /\ t.waiters = s.waiters /\ t.ep = s.ep /\ t.app = s.app /\ t.lsn = s.lsn /\ t.ups = s.ups
  BY Zenon DEF TunnelState
<1> HIDE DEF t
<1>5. t.wire[c] = w /\ \A d \in Cids : d # c => t.wire[d] = s.wire[d]
  BY <1>1, <1>4, SMT
<1>6. WireSet(s, t, c, w)
  BY <1>3, <1>4, <1>5 DEF WireSet
<1> QED BY <1>6 DEF t

LEMMA AppSet ==
  ASSUME NEW s \in TunnelState, NEW a \in SUBSET Cids, NEW t, t = [s EXCEPT !.app = a]
  PROVE  /\ t \in TunnelState /\ t.app = a
         /\ t.conn = s.conn /\ t.byClient = s.byClient /\ t.byServer = s.byServer /\ t.waiters = s.waiters
         /\ t.ep = s.ep /\ t.lsn = s.lsn /\ t.ups = s.ups /\ t.wire = s.wire
<1>1. t \in TunnelState
  BY Zenon DEF TunnelState
<1> QED BY <1>1, Zenon DEF TunnelState

LEMMA WaitersSet ==
  ASSUME NEW s \in TunnelState, NEW a \in SUBSET Cids, NEW t, t = [s EXCEPT !.waiters = a]
  PROVE  /\ t \in TunnelState /\ t.waiters = a
         /\ t.conn = s.conn /\ t.byClient = s.byClient /\ t.byServer = s.byServer /\ t.app = s.app
         /\ t.ep = s.ep /\ t.lsn = s.lsn /\ t.ups = s.ups /\ t.wire = s.wire
<1>1. t \in TunnelState
  BY Zenon DEF TunnelState
<1> QED BY <1>1, Zenon DEF TunnelState

LEMMA EpSet ==
  ASSUME NEW s \in TunnelState, NEW e \in Sessions, NEW t, t = [s EXCEPT !.ep = e]
  PROVE  /\ t \in TunnelState /\ t.ep = e
         /\ t.conn = s.conn /\ t.byClient = s.byClient /\ t.byServer = s.byServer /\ t.app = s.app
         /\ t.waiters = s.waiters /\ t.lsn = s.lsn /\ t.ups = s.ups /\ t.wire = s.wire
<1>1. t \in TunnelState
  BY Zenon DEF TunnelState
<1> QED BY <1>1, Zenon DEF TunnelState

\* The listener's record changes within what the cluster allows.
LEMMA ListenerWorks ==
  ASSUME NEW s, NEW c \in Cids, NEW o \in Objs, NEW x, Settled(s, o, c, x), NEW l \in ListenerConn, NEW t,
         LsnSet(s, t, c, l), l.pos = s.lsn[c].pos, l.st \notin {"none", "closed"},
         l.st = "passed" => s.conn[o].st = "WAITING_ACCEPT",
         l.st = "open" => s.conn[o].st \in {"CONNECTED", "CONNECTED_MIGRATING"},
         s.conn[o].proto = "udp" => ~l.unsent,
         s.conn[o].st = "CONNECTED_MIGRATING" /\ s.conn[o].proto = "tcp" /\ s.conn[o].looking => ~l.reads,
         l.st \in {"asked", "passed", "open"} => s.lsn[c].st \in {"asked", "passed", "open"},
         CliBacked(t, c)
  PROVE  WorksOut(s, t, o, c, x)
<1> DEFINE r == s.conn[o]
<1>0. /\ s \in TunnelState /\ s.byClient[c] = o /\ r # NON /\ r.cid = c /\ r.sid = x
      /\ Carries(s, o, c, x) /\ ObjOK(s, o) /\ CliBase(s, c) /\ (x # NON => SrvOK(s, x)) /\ (~EarlyAck => FakeOK(s, o))
  BY DEF Settled
<1>3. c # NON /\ o # NON /\ r \in VpnConnection /\ x \in Sids \cup {NON} /\ s.lsn[c] \in ListenerConn
  BY <1>0, Apartness, LiveConn, ConnFields, LsnFields, Zenon
<1>4. r = s.conn[o]
  OBVIOUS
<1> HIDE DEF r
<1>5. /\ t \in TunnelState /\ t.lsn[c] = l /\ \A d \in Cids : d # c => t.lsn[d] = s.lsn[d]
      /\ t.conn = s.conn /\ t.byClient = s.byClient /\ t.byServer = s.byServer
      /\ t.waiters = s.waiters /\ t.ep = s.ep /\ t.app = s.app /\ t.ups = s.ups /\ t.wire = s.wire
  BY DEF LsnSet
<1>6. Changed(s, t, o, c, x)
  BY <1>5, Zenon DEF Changed
<1>7. Carries(t, o, c, x)
  BY <1>0, <1>5, Zenon DEF Carries
<1>8. MovesLeft(s, t, o, c)
  BY <1>0, <1>3, <1>4, <1>5, Zenon DEF MovesLeft
<1>9. r.mig # NON => r.cid = NON
  BY <1>0, <1>4, Zenon DEF ObjOK
<1>10. ObjOK(t, o)
  BY <1>0, <1>3, <1>4, <1>5, <1>9, SMT DEF ObjOK
<1>11. ~EarlyAck => FakeOK(t, o)
  BY <1>0, <1>4, <1>5, SMT DEF FakeOK
<1>12. CliBase(t, c)
  <2>1. s.wire[c] \o r.buf = Counted(s.lsn[c].pos - 1) <=> t.wire[c] \o r.buf = Counted(l.pos - 1)
    BY <1>5
  <2>2. r.proto = "tcp" /\ r.st # "CONNECTED_MIGRATING" => t.wire[c] \o r.buf = Counted(l.pos - 1)
    BY <1>0, <1>3, <1>4, <2>1, Zenon DEF CliBase
  <2>3. ~(c \in t.app /\ c \in t.waiters)
    BY <1>0, <1>5, Zenon DEF CliBase
  <2> QED BY <1>0, <1>3, <1>4, <1>5, <2>2, <2>3, Zenon DEF CliBase
<1>13. x # NON => SrvOK(t, x)
  BY <1>0, <1>5, Zenon DEF SrvOK
<1> QED BY <1>5, <1>6, <1>7, <1>8, <1>10, <1>11, <1>12, <1>13, Zenon DEF WorksOut, CliOK

LEMMA LsnStateSet ==
  ASSUME NEW l \in ListenerConn, NEW v \in ListenerStates
  PROVE  LET m == [l EXCEPT !.st = v] IN
         m \in ListenerConn /\ m.st = v /\ m.reads = l.reads /\ m.unsent = l.unsent /\ m.pos = l.pos
BY Zenon DEF ListenerConn

LEMMA CloseListenerWorks ==
  ASSUME NEW s, NEW c \in Cids, NEW o \in Objs, NEW x, Settled(s, o, c, x),
         NEW graceful \in BOOLEAN, NEW async \in BOOLEAN, async => CliBacked(s, c)
  PROVE  WorksOut(s, CloseListener(s, c, graceful, async), o, c, x)
<1> DEFINE r == s.conn[o]
           l == s.lsn[c]
<1>0. /\ s \in TunnelState /\ s.byClient[c] = o /\ r # NON /\ r.cid = c /\ r.sid = x
      /\ ObjOK(s, o) /\ CliBase(s, c)
  BY DEF Settled
<1>3. c # NON /\ o # NON /\ r \in VpnConnection /\ l \in ListenerConn /\ r.proto \in {"tcp", "udp"}
  BY <1>0, Apartness, LiveConn, ConnFields, LsnFields, Zenon
<1>4. l.st \notin {"none", "closed"}
  BY <1>0, <1>3, SMT DEF CliBase
<1>b. /\ r.proto = "udp" => ~l.unsent
      /\ r.st = "CONNECTED_MIGRATING" /\ r.proto = "tcp" /\ r.looking => ~l.reads
  BY <1>0, <1>3, Zenon DEF CliBase, ObjOK
<1>5. CASE graceful /\ l.unsent
  <2>1. PICK m : m = [l EXCEPT !.st = "flushing"]
    OBVIOUS
  <2>2. m \in ListenerConn /\ m.st = "flushing" /\ m.reads = l.reads /\ m.unsent = l.unsent /\ m.pos = l.pos
    BY <1>3, <2>1, LsnStateSet, Zenon DEF ListenerStates
  <2>3. PICK t : t = [s EXCEPT !.lsn[c] = m]
    OBVIOUS
  <2>4. CloseListener(s, c, graceful, async) = t
    BY <1>4, <1>5, <2>1, <2>3 DEF CloseListener
  <2>5. LsnSet(s, t, c, m)
    BY <1>0, <2>2, <2>3, ListenerSet
  <2>6. CliBacked(t, c)
    BY <1>0, <1>5, <1>b, <2>2, <2>5, SMT DEF LsnSet, CliBacked
  <2>7. WorksOut(s, t, o, c, x)
    BY <1>b, <2>2, <2>5, <2>6, ListenerWorks
  <2> QED BY <2>4, <2>7
<1>6. CASE ~(graceful /\ l.unsent) /\ async
  <2>1. PICK m : m = [l EXCEPT !.st = "closing"]
    OBVIOUS
  <2>2. m \in ListenerConn /\ m.st = "closing" /\ m.reads = l.reads /\ m.unsent = l.unsent /\ m.pos = l.pos
    BY <1>3, <2>1, LsnStateSet, Zenon DEF ListenerStates
  <2>3. PICK t : t = [s EXCEPT !.lsn[c] = m]
    OBVIOUS
  <2>4. CloseListener(s, c, graceful, async) = t
    BY <1>4, <1>6, <2>1, <2>3 DEF CloseListener
  <2>5. LsnSet(s, t, c, m)
    BY <1>0, <2>2, <2>3, ListenerSet
  <2>6. CliBacked(t, c)
    BY <1>0, <1>6, <2>2, <2>5, SMT DEF LsnSet, CliBacked
  <2>7. WorksOut(s, t, o, c, x)
    BY <1>b, <2>2, <2>5, <2>6, ListenerWorks
  <2> QED BY <2>4, <2>7
<1>7. CASE ~(graceful /\ l.unsent) /\ ~async
  <2>1. CloseListener(s, c, graceful, async) = OnClientClosed(s, c)
    BY <1>4, <1>7 DEF CloseListener
  <2> QED BY <2>1, ClosingWorks
<1> QED BY <1>5, <1>6, <1>7

LEMMA TaskSet ==
  ASSUME NEW r \in VpnConnection, NEW q, q = [r EXCEPT !.task = TRUE]
  PROVE  /\ q \in VpnConnection /\ q.task /\ q.cid = r.cid /\ q.sid = r.sid /\ q.up = r.up /\ q.st = r.st
         /\ q.proto = r.proto /\ q.mig = r.mig /\ q.first = r.first /\ q.looking = r.looking /\ q.fakec = r.fakec
         /\ q.closed = r.closed /\ q.buf = r.buf
<1>1. q \in VpnConnection
  BY Zenon DEF VpnConnection
<1> QED BY <1>1, Zenon DEF VpnConnection

LEMMA StSet ==
  ASSUME NEW r \in VpnConnection, NEW v \in VpnConnectionState, NEW q, q = [r EXCEPT !.st = v]
  PROVE  /\ q \in VpnConnection /\ q.st = v /\ q.cid = r.cid /\ q.sid = r.sid /\ q.up = r.up /\ q.task = r.task
         /\ q.proto = r.proto /\ q.mig = r.mig /\ q.first = r.first /\ q.looking = r.looking /\ q.fakec = r.fakec
         /\ q.closed = r.closed /\ q.buf = r.buf
<1>1. q \in VpnConnection
  BY Zenon DEF VpnConnection
<1> QED BY <1>1, Zenon DEF VpnConnection

\* t is s but for the records of the connection o and of the listener's side of c, and the wire of c.
RecSet(s, t, o, c, q, l, w) ==
    /\ t \in TunnelState
    /\ t.conn[o] = q /\ \A p \in Objs : p # o => t.conn[p] = s.conn[p]
    /\ t.lsn[c] = l /\ \A d \in Cids : d # c => t.lsn[d] = s.lsn[d]
    /\ t.wire[c] = w /\ \A d \in Cids : d # c => t.wire[d] = s.wire[d]
    /\ t.byClient = s.byClient /\ t.byServer = s.byServer /\ t.waiters = s.waiters /\ t.app = s.app /\ t.ups = s.ups

LEMMA RecordsWork ==
  ASSUME NEW s, NEW c \in Cids, NEW o \in Objs, NEW x, Settled(s, o, c, x), NEW t, NEW l, NEW w, NEW q \in VpnConnection,
         RecSet(s, t, o, c, q, l, w), q.cid = c, q.sid = x, q.mig = NON, q.proto = s.conn[o].proto,
         s.conn[o].st \in {"CONNECTED", "CONNECTED_MIGRATING"} => q.st \in {s.conn[o].st, "CONNECTED_MIGRATING"},
         s.conn[o].st = "CONNECTED_MIGRATING" /\ s.conn[o].proto = "tcp" => w = s.wire[c] /\ l.pos = s.lsn[c].pos,
         ObjOK(t, o), ~EarlyAck => FakeOK(t, o), CliOK(t, c), l.st # "none"
  PROVE  WorksOut(s, t, o, c, x)
<1>0. /\ s \in TunnelState /\ s.byClient[c] = o /\ s.conn[o] # NON /\ s.conn[o].sid = x
      /\ Carries(s, o, c, x) /\ (x # NON => SrvOK(s, x))
  BY DEF Settled
<1>1. q # NON /\ c # NON /\ o # NON
  BY Apartness, Zenon
<1>2. Changed(s, t, o, c, x)
  BY Zenon DEF RecSet, Changed
<1>3. Carries(t, o, c, x)
  BY <1>0, Zenon DEF RecSet, Carries
<1>4. MovesLeft(s, t, o, c)
  <2>1. t.conn[o] = q /\ t.lsn[c] = l /\ t.wire[c] = w /\ t.byClient[c] = o
    BY <1>0, Zenon DEF RecSet
  <2> QED BY <1>0, <1>1, <2>1, SMT DEF MovesLeft
<1>5. ASSUME x # NON PROVE SrvOK(t, x)
  <2>1. s.byServer[x] \in {o, NON}
    BY <1>0, <1>5, Zenon DEF Carries
  <2>2. t.byServer[x] = s.byServer[x] /\ t.ups[x] = s.ups[x] /\ t.conn[o] = q
    BY Zenon DEF RecSet
  <2>3. SrvOK(s, x)
    BY <1>0, <1>5
  <2> QED BY <1>1, <2>1, <2>2, <2>3, SMT DEF SrvOK
<1>6. t.lsn[c].st # "none" /\ t \in TunnelState
  BY Zenon DEF RecSet
<1> QED BY <1>2, <1>3, <1>4, <1>5, <1>6, Zenon DEF WorksOut

\* The parts of CliOK, for the records at hand.
CliParts(t, c, o, q, l, w) ==
    /\ t.byClient[c] = o /\ t.conn[o] = q /\ t.lsn[c] = l /\ t.wire[c] = w /\ q # NON /\ q.cid = c
    /\ l.st \notin {"none", "closed"} /\ ~(c \in t.app /\ c \in t.waiters)
    /\ l.st = "passed" => q.st = "WAITING_ACCEPT"
    /\ l.st = "open" => q.st \in {"CONNECTED", "CONNECTED_MIGRATING"}
    /\ q.proto = "udp" => ~l.unsent
    /\ q.proto = "tcp" /\ q.st # "CONNECTED_MIGRATING" => w \o q.buf = Counted(l.pos - 1)
    /\ l.st \in {"passed", "open"} \/ (q.proto = "udp" /\ q.st = "CONNECTED") => q.sid # NON /\ t.byServer[q.sid] = o

LEMMA CliBuilt ==
  ASSUME NEW t, NEW c, NEW o, NEW q, NEW l, NEW w, CliParts(t, c, o, q, l, w)
  PROVE  CliOK(t, c)
<1>1. CliBase(t, c)
  BY Zenon DEF CliBase, CliParts
<1>2. CliBacked(t, c)
  BY Zenon DEF CliBacked, CliParts
<1> QED BY <1>1, <1>2 DEF CliOK

LEMMA CloseClientSideWorks ==
  ASSUME NEW s, NEW c \in Cids, NEW o \in Objs, NEW x, Settled(s, o, c, x),
         NEW graceful \in BOOLEAN, NEW async \in BOOLEAN,
         async => /\ CliBacked(s, c) /\ c \notin s.app /\ c \notin s.waiters
                  /\ s.conn[o].st \notin {"WAITING_RESOLVE", "WAITING_RESPONSE"}
                  /\ s.conn[o].st = "WAITING_ACTION" => x = NON
  PROVE  WorksOut(s, CloseClientSideConnection(s, o, graceful, async), o, c, x)
<1> DEFINE r == s.conn[o]
           l == s.lsn[c]
<1>0. /\ s \in TunnelState /\ s.byClient[c] = o /\ r # NON /\ r.cid = c /\ r.sid = x
      /\ ObjOK(s, o) /\ CliBase(s, c) /\ (~EarlyAck => FakeOK(s, o))
  BY DEF Settled
<1>1. c # NON /\ o # NON /\ r \in VpnConnection /\ l \in ListenerConn /\ r.proto \in {"tcp", "udp"}
      /\ r.st \in VpnConnectionState
  BY <1>0, Apartness, LiveConn, ConnFields, LsnFields, Zenon
<1>2. r.mig = NON /\ r.st # "WAITING_RESPONSE_MIGRATING"
  BY <1>0, <1>1, Zenon DEF ObjOK
<1>3. CASE r.st \in {"WAITING_ACCEPT", "CONNECTED", "CONNECTED_MIGRATING", "REJECTED"}
  <2>1. CloseClientSideConnection(s, o, graceful, async) = CloseListener(s, c, graceful, async)
    BY <1>0, <1>3 DEF CloseClientSideConnection
  <2> QED BY <2>1, CloseListenerWorks
<1>4. CASE r.st \in {"WAITING_RESOLVE", "WAITING_RESPONSE", "WAITING_ACTION"}
  <2>a. r.st \notin {"WAITING_ACCEPT", "CONNECTED", "CONNECTED_MIGRATING", "REJECTED"}
    BY <1>4
  <2>b. l.st \notin {"none", "closed", "passed", "open"} /\ (r.proto = "udp" => ~l.unsent)
    BY <1>0, <1>1, <2>a, SMT DEF CliBase
  <2>c. ~(c \in s.app /\ c \in s.waiters) /\ (r.proto = "tcp" => s.wire[c] \o r.buf = Counted(l.pos - 1))
    <3>1. r.st # "CONNECTED_MIGRATING"
      BY <2>a
    <3> QED BY <1>0, <1>1, <3>1, Zenon DEF CliBase
  <2>1. CASE async
    <3>1. PICK q : q = [r EXCEPT !.task = TRUE]
      OBVIOUS
    <3>2. /\ q \in VpnConnection /\ q.task /\ q.cid = r.cid /\ q.sid = r.sid /\ q.up = r.up /\ q.st = r.st
          /\ q.proto = r.proto /\ q.mig = r.mig /\ q.first = r.first /\ q.looking = r.looking /\ q.fakec = r.fakec
          /\ q.closed = r.closed /\ q.buf = r.buf
      BY <1>1, <3>1, TaskSet
    <3>3. PICK t : t = [s EXCEPT !.conn[o] = q]
      OBVIOUS
    <3>4. CloseClientSideConnection(s, o, graceful, async) = t
      BY <1>4, <2>a, <2>1, <3>1, <3>3 DEF CloseClientSideConnection
    <3>5. ConnSet(s, t, o, q)
      BY <1>0, <3>2, <3>3, ConnectionSet
    <3>6. RecSet(s, t, o, c, q, l, s.wire[c])
      BY <3>5, Zenon DEF ConnSet, RecSet
    <3>7. t \in TunnelState /\ t.conn[o] = q /\ t.lsn[c] = l /\ t.wire[c] = s.wire[c] /\ t.byClient = s.byClient
          /\ t.byServer = s.byServer /\ t.waiters = s.waiters /\ t.app = s.app /\ t.ups = s.ups
      BY <3>6, Zenon DEF RecSet
    <3>8. ObjOK(t, o)
      BY <1>0, <1>1, <1>2, <1>4, <2>1, <2>a, <2>b, <3>2, <3>7, SMT DEF ObjOK
    <3>9. ~EarlyAck => FakeOK(t, o)
      BY <1>0, <1>1, <3>2, <3>7, SMT DEF FakeOK
    <3>10. CliOK(t, c)
      <4>1. /\ ~(c \in t.app /\ c \in t.waiters) /\ l.st \notin {"none", "closed"} /\ ~(l.st \in {"passed", "open"})
            /\ q.proto = "udp" => ~l.unsent
            /\ ~(q.proto = "udp" /\ q.st = "CONNECTED")
        BY <2>a, <2>b, <2>c, <3>2, <3>7, SMT
      <4>2. q.proto = "tcp" /\ q.st # "CONNECTED_MIGRATING" => s.wire[c] \o q.buf = Counted(l.pos - 1)
        BY <2>c, <3>2
      <4>3. t.byClient[c] = o /\ q # NON /\ q.cid = c
        BY <1>0, <3>2, <3>7, Apartness
      <4>4. CliParts(t, c, o, q, l, s.wire[c])
        BY <3>7, <4>1, <4>2, <4>3, Zenon DEF CliParts
      <4> QED BY <4>4, CliBuilt
    <3>11. WorksOut(s, t, o, c, x)
      BY <1>0, <1>2, <2>a, <2>b, <3>2, <3>6, <3>8, <3>9, <3>10, RecordsWork
    <3> QED BY <3>4, <3>11
  <2>2. CASE ~async
    <3>1. PICK q : q = [r EXCEPT !.st = "REJECTED"]
      OBVIOUS
    <3>2. /\ q \in VpnConnection /\ q.st = "REJECTED" /\ q.cid = r.cid /\ q.sid = r.sid /\ q.up = r.up /\ q.task = r.task
          /\ q.proto = r.proto /\ q.mig = r.mig /\ q.first = r.first /\ q.looking = r.looking /\ q.fakec = r.fakec
          /\ q.closed = r.closed /\ q.buf = r.buf
      <4>1. "REJECTED" \in VpnConnectionState
        BY DEF VpnConnectionState
      <4> QED BY <1>1, <3>1, <4>1, StSet
    <3>3. PICK m : m = IF l.st # "asked" THEN l ELSE [l EXCEPT !.st = "rejected"]
      OBVIOUS
    <3>4. m \in ListenerConn /\ m.st \notin {"none", "closed", "asked", "passed", "open"} /\ m.unsent = l.unsent
          /\ m.pos = l.pos /\ m.reads = l.reads
      BY <1>1, <2>b, <3>3, LsnStateSet, Zenon DEF ListenerStates
    <3>5. PICK t1 : t1 = Answer(s, c, FALSE)
      OBVIOUS
    <3>6. LsnSet(s, t1, c, m)
      <4>1. CASE l.st # "asked"
        <5>1. t1 = s /\ m = l
          BY <3>3, <3>5, <4>1 DEF Answer
        <5> QED BY <1>0, <5>1, Zenon DEF LsnSet
      <4>2. CASE l.st = "asked"
        <5>1. t1 = [s EXCEPT !.lsn[c] = m]
          BY <3>3, <3>5, <4>2 DEF Answer
        <5> QED BY <1>0, <3>4, <5>1, ListenerSet
      <4> QED BY <4>1, <4>2
    <3>7. PICK t : t = [t1 EXCEPT !.conn[o] = q]
      OBVIOUS
    <3>8. t1 \in TunnelState /\ t1.conn[o] = r
      BY <3>6, Zenon DEF LsnSet
    <3>9. CloseClientSideConnection(s, o, graceful, async) = t
      <4>1. CloseClientSideConnection(s, o, graceful, async) = [t1 EXCEPT !.conn[o].st = "REJECTED"]
        BY <1>0, <1>4, <2>a, <2>2, <3>5 DEF CloseClientSideConnection
      <4> QED BY <3>1, <3>7, <3>8, <4>1
    <3>10. ConnSet(t1, t, o, q)
      BY <3>2, <3>7, <3>8, ConnectionSet
    <3>11. RecSet(s, t, o, c, q, m, s.wire[c])
      BY <3>6, <3>10, Zenon DEF ConnSet, LsnSet, RecSet
    <3>12. t \in TunnelState /\ t.conn[o] = q /\ t.lsn[c] = m /\ t.wire[c] = s.wire[c] /\ t.byClient = s.byClient
          /\ t.byServer = s.byServer /\ t.waiters = s.waiters /\ t.app = s.app /\ t.ups = s.ups
      BY <3>11, Zenon DEF RecSet
    <3>13. ObjOK(t, o)
      BY <1>0, <1>1, <1>2, <1>4, <2>a, <2>b, <3>2, <3>4, <3>12, SMT DEF ObjOK
    <3>14. ~EarlyAck => FakeOK(t, o)
      <4>1. q.up = "fake" => o \notin Sids \/ EarlyAck
        BY <1>0, <3>2, Zenon DEF FakeOK
      <4> QED BY <1>0, <1>1, <3>2, <3>12, <4>1, SMT DEF FakeOK
    <3>15. CliOK(t, c)
      <4>1. /\ ~(c \in t.app /\ c \in t.waiters) /\ m.st \notin {"none", "closed"} /\ ~(m.st \in {"passed", "open"})
            /\ q.proto = "udp" => ~m.unsent
            /\ ~(q.proto = "udp" /\ q.st = "CONNECTED")
        BY <2>a, <2>b, <2>c, <3>2, <3>4, <3>12, SMT
      <4>2. q.proto = "tcp" /\ q.st # "CONNECTED_MIGRATING" => s.wire[c] \o q.buf = Counted(m.pos - 1)
        BY <2>c, <3>2, <3>4
      <4>3. t.byClient[c] = o /\ q # NON /\ q.cid = c
        BY <1>0, <3>2, <3>12, Apartness
      <4>4. CliParts(t, c, o, q, m, s.wire[c])
        BY <3>12, <4>1, <4>2, <4>3, Zenon DEF CliParts
      <4> QED BY <4>4, CliBuilt
    <3>16. WorksOut(s, t, o, c, x)
      BY <1>0, <1>2, <2>a, <2>b, <3>2, <3>4, <3>11, <3>13, <3>14, <3>15, RecordsWork
    <3> QED BY <3>9, <3>16
  <2> QED BY <2>1, <2>2
<1> QED BY <1>1, <1>2, <1>3, <1>4 DEF VpnConnectionState

-----------------------------------------------------------------------------
(* From the cluster to the tunnel.                                         *)

LEMMA Owner ==
  ASSUME NEW s, TunnelOK(s), NEW o \in Objs, s.conn[o] # NON
  PROVE  Carries(s, o, s.conn[o].cid, s.conn[o].sid) /\ Apart(s, o, s.conn[o].cid, s.conn[o].sid)
<1> DEFINE c == s.conn[o].cid
           x == s.conn[o].sid
<1>0. s \in TunnelState /\ Alone(s)
  BY DEF TunnelOK
<1>1. c \in Cids \cup {NON} /\ x \in Sids \cup {NON}
  BY <1>0, LiveConn, ConnFields, Zenon
<1>2. Apart(s, o, c, x)
  BY <1>0, Zenon DEF Alone, Apart
<1>3. ASSUME c # NON PROVE s.byClient[c] \in {o, NON}
  <2>1. c \in Cids /\ CliOK(s, c)
    BY <1>1, <1>3, Zenon DEF TunnelOK
  <2>2. s.byClient[c] \in Objs \cup {NON}
    BY <1>0, <2>1, StateFields, Zenon
  <2>3. s.byClient[c] # NON => s.conn[s.byClient[c]] # NON /\ s.conn[s.byClient[c]].cid = c
    BY <2>1, Zenon DEF CliOK, CliBase
  <2> QED BY <1>2, <1>3, <2>2, <2>3, Zenon DEF Apart
<1>4. ASSUME x # NON PROVE s.byServer[x] \in {o, NON}
  <2>1. x \in Sids /\ SrvOK(s, x)
    BY <1>1, <1>4, Zenon DEF TunnelOK
  <2>2. s.byServer[x] \in Objs \cup {NON}
    BY <1>0, <2>1, StateFields, Zenon
  <2>3. s.byServer[x] # NON => s.conn[s.byServer[x]] # NON /\ s.conn[s.byServer[x]].sid = x
    BY <2>1, Zenon DEF SrvOK
  <2> QED BY <1>2, <1>4, <2>2, <2>3, Zenon DEF Apart
<1>5. Carries(s, o, c, x)
  BY <1>3, <1>4, Zenon DEF Carries
<1> QED BY <1>2, <1>5

LEMMA SettledOf ==
  ASSUME NEW s, TunnelOK(s), NEW c \in Cids, NEW o, s.byClient[c] = o, o # NON
  PROVE  /\ o \in Objs /\ s.conn[o] # NON /\ s.conn[o].cid = c /\ Settled(s, o, c, s.conn[o].sid)
         /\ CliOK(s, c) /\ s \in TunnelState
<1>0. s \in TunnelState /\ CliOK(s, c)
  BY Zenon DEF TunnelOK
<1>1. o \in Objs
  BY <1>0, StateFields, Zenon
<1>2. s.conn[o] # NON /\ s.conn[o].cid = c
  BY <1>0, Zenon DEF CliOK, CliBase
<1>3. Carries(s, o, c, s.conn[o].sid)
  BY <1>1, <1>2, Owner
<1>4. ObjOK(s, o) /\ (~EarlyAck => FakeOK(s, o)) /\ CliBase(s, c)
  BY <1>0, <1>1, Zenon DEF TunnelOK, CliOK
<1>5. s.conn[o].sid # NON => SrvOK(s, s.conn[o].sid)
  <2>1. s.conn[o].sid \in Sids \cup {NON}
    BY <1>0, <1>1, <1>2, LiveConn, ConnFields, Zenon
  <2> QED BY <2>1, Zenon DEF TunnelOK
<1> QED BY <1>0, <1>1, <1>2, <1>3, <1>4, <1>5, Zenon DEF Settled

LEMMA WorksThrough ==
  ASSUME NEW s \in TunnelState, NEW v \in TunnelState, NEW t, NEW o \in Objs, NEW c \in Cids, NEW x,
         Changed(s, v, o, c, x), MovesLeft(s, v, o, c), v.lsn[c].st = "none" => s.lsn[c].st = "none",
         WorksOut(v, t, o, c, x)
  PROVE  WorksOut(s, t, o, c, x)
<1>1. /\ t \in TunnelState /\ Changed(v, t, o, c, x) /\ Carries(t, o, c, x) /\ MovesLeft(v, t, o, c)
      /\ ObjOK(t, o) /\ (~EarlyAck => FakeOK(t, o)) /\ CliOK(t, c) /\ (x # NON => SrvOK(t, x))
      /\ t.lsn[c].st = "none" => v.lsn[c].st = "none"
  BY DEF WorksOut
<1>2. Changed(s, t, o, c, x)
  BY <1>1, SMT DEF Changed
<1>3. MovesLeft(s, t, o, c)
  BY <1>1, SMT DEF MovesLeft
<1> QED BY <1>1, <1>2, <1>3, Zenon DEF WorksOut

LEMMA ClusterDone ==
  ASSUME NEW s, TunnelOK(s), NEW t, NEW o \in Objs, NEW c \in Cids, NEW x \in Sids \cup {NON},
         Carries(s, o, c, x), Apart(s, o, c, x), s.conn[o] # NON, WorksOut(s, t, o, c, x)
  PROVE  TunnelOK(t)
<1>1. /\ t \in TunnelState /\ Changed(s, t, o, c, x) /\ Carries(t, o, c, x) /\ MovesLeft(s, t, o, c)
      /\ ObjOK(t, o) /\ (~EarlyAck => FakeOK(t, o)) /\ CliOK(t, c) /\ (x # NON => SrvOK(t, x))
      /\ t.lsn[c].st = "none" => s.lsn[c].st = "none"
  BY DEF WorksOut
<1>2. s \in TunnelState /\ \A d \in Cids : CliOK(s, d) /\ MovesOK(s, d)
  BY Zenon DEF TunnelOK
<1>3. s.conn[o] # NON => s.conn[o].cid \in {c, NON}
  BY DEF Carries
<1>4. ASSUME NEW d \in Cids PROVE MovesOK(t, d)
  <2>1. CliOK(s, d) /\ MovesOK(s, d)
    BY <1>2
  <2>2. c \in Cids \cup {NON}
    OBVIOUS
  <2> QED BY <1>1, <1>2, <1>3, <2>1, <2>2, MovesKept
<1>5. o \in Cids => s.lsn[o].st # "none"
  BY <1>2, Zenon DEF CliOK, CliBase
<1>6. c \in Cids \cup {NON}
  OBVIOUS
<1>7. \A d \in Cids : MovesOK(t, d)
  BY <1>4
<1> QED BY <1>1, <1>5, <1>6, <1>7, ClusterStep

-----------------------------------------------------------------------------
(* Steps outside one cluster, and of one record.                           *)

LEMMA Became ==
  ASSUME NEW t, TunnelOK(t), Becomes(t)
  PROVE  TunnelOK(State)'
<1>1. t \in TunnelState
  BY DEF TunnelOK
<1>2. t = [conn |-> t.conn, byClient |-> t.byClient, byServer |-> t.byServer, waiters |-> t.waiters,
           ep |-> t.ep, app |-> t.app, lsn |-> t.lsn, ups |-> t.ups, wire |-> t.wire]
  BY <1>1, SMT DEF TunnelState
<1>3. State' = t
  BY <1>2, Zenon DEF State, Becomes
<1> QED BY <1>3

\* An upstream is asked to close a connection, whoever carries it.
LEMMA FadedOK ==
  ASSUME NEW s, TunnelOK(s), NEW t, NEW x, FadedAt(s, t, x)
  PROVE  TunnelOK(t)
<1>0. /\ s \in TunnelState /\ t \in TunnelState /\ t.conn = s.conn /\ t.byClient = s.byClient
      /\ t.byServer = s.byServer /\ t.waiters = s.waiters /\ t.app = s.app /\ t.lsn = s.lsn
      /\ t.wire = s.wire /\ Fades(s.ups, t.ups)
  BY DEF TunnelOK, FadedAt
<1>1. ASSUME NEW o \in Objs PROVE ObjOK(t, o)
  <2>1. ObjOK(s, o)
    BY Zenon DEF TunnelOK
  <2>2. s.conn[o] # NON => s.conn[o].sid \in Sids \cup {NON}
    BY <1>0, LiveConn, ConnFields, Zenon
  <2>3. s.conn[o] # NON /\ s.conn[o].sid # NON =>
          /\ t.ups[s.conn[o].sid].u = s.ups[s.conn[o].sid].u
          /\ s.ups[s.conn[o].sid].st = "gone" => t.ups[s.conn[o].sid].st = "gone"
    BY <1>0, <2>2, Zenon DEF Fades
  <2> QED BY <1>0, <2>1, <2>3, SMT DEF ObjOK
<1>2. ASSUME NEW o \in Objs, ~EarlyAck PROVE FakeOK(t, o)
  <2>1. FakeOK(s, o)
    BY <1>2, Zenon DEF TunnelOK
  <2> QED BY <1>0, <2>1, Zenon DEF FakeOK
<1>3. ASSUME NEW c \in Cids PROVE CliOK(t, c) /\ MovesOK(t, c)
  <2>1. CliOK(s, c) /\ MovesOK(s, c)
    BY Zenon DEF TunnelOK
  <2> QED BY <1>0, <2>1, Zenon DEF CliOK, CliBase, CliBacked, MovesOK
<1>4. ASSUME NEW y \in Sids PROVE SrvOK(t, y)
  <2>1. SrvOK(s, y)
    BY Zenon DEF TunnelOK
  <2> QED BY <1>0, <2>1, Zenon DEF SrvOK, Fades
<1>5. Alone(t)
  <2>1. Alone(s)
    BY DEF TunnelOK
  <2> QED BY <1>0, <2>1, SMT DEF Alone
<1> QED BY <1>0, <1>1, <1>2, <1>3, <1>4, <1>5, Zenon DEF TunnelOK

LEMMA MovesSame ==
  ASSUME NEW s, NEW t, NEW d, MovesOK(s, d), t.conn = s.conn, t.byClient[d] = s.byClient[d],
         t.wire[d] = s.wire[d], t.lsn[d].pos = s.lsn[d].pos
  PROVE  MovesOK(t, d)
BY Zenon DEF MovesOK

\* No connection that carries c migrates.
Resting(s, c) == \A p \in Objs : s.conn[p] # NON /\ s.conn[p].cid = c => s.conn[p].st # "CONNECTED_MIGRATING"

\* The listener's side of an id that is not filed changes.
LEMMA UnfiledListener ==
  ASSUME NEW s, TunnelOK(s), NEW t, NEW c \in Cids, NEW l, LsnSet(s, t, c, l), s.byClient[c] = NON,
         s.lsn[c].st # "none", l.st # "none", l.reads => s.lsn[c].reads \/ Resting(s, c),
         l.st \in {"asked", "passed", "open"} => s.lsn[c].st \in {"asked", "passed", "open"}
  PROVE  TunnelOK(t)
<1>0. /\ s \in TunnelState /\ t \in TunnelState /\ t.conn = s.conn /\ t.byClient = s.byClient
      /\ t.byServer = s.byServer /\ t.waiters = s.waiters /\ t.app = s.app /\ t.ups = s.ups
      /\ t.wire = s.wire /\ t.lsn[c] = l /\ \A d \in Cids : d # c => t.lsn[d] = s.lsn[d]
  BY DEF TunnelOK, LsnSet
<1>a. ASSUME NEW d \in Cids
      PROVE  /\ t.lsn[d].st = "none" => s.lsn[d].st = "none"
             /\ t.lsn[d].reads => s.lsn[d].reads \/ Resting(s, d)
             /\ t.lsn[d].st \in {"asked", "passed", "open"} => s.lsn[d].st \in {"asked", "passed", "open"}
  BY <1>0, Zenon
<1>1. ASSUME NEW o \in Objs PROVE ObjOK(t, o)
  <2>1. ObjOK(s, o)
    BY Zenon DEF TunnelOK
  <2>2. s.conn[o] # NON => s.conn[o].cid \in Cids \cup {NON} /\ s.conn[o].mig \in Cids \cup {NON}
    BY <1>0, LiveConn, ConnFields, Zenon
  <2>3. s.conn[o] # NON /\ s.conn[o].cid # NON =>
             /\ t.lsn[s.conn[o].cid].st = "none" => s.lsn[s.conn[o].cid].st = "none"
             /\ t.lsn[s.conn[o].cid].reads => s.lsn[s.conn[o].cid].reads \/ s.conn[o].st # "CONNECTED_MIGRATING"
    BY <1>a, <2>2, Zenon DEF Resting
  <2>4. s.conn[o] # NON /\ s.conn[o].mig # NON => (t.lsn[s.conn[o].mig].st = "none" => s.lsn[s.conn[o].mig].st = "none")
    BY <1>a, <2>2, Zenon
  <2> QED BY <1>0, <2>1, <2>3, <2>4, SMTT(150) DEF ObjOK
<1>2. ASSUME NEW o \in Objs, ~EarlyAck PROVE FakeOK(t, o)
  <2>1. FakeOK(s, o)
    BY <1>2, Zenon DEF TunnelOK
  <2>2. s.conn[o] # NON => s.conn[o].cid \in Cids \cup {NON}
    BY <1>0, LiveConn, ConnFields, Zenon
  <2>3. s.conn[o] # NON /\ s.conn[o].cid # NON =>
             (t.lsn[s.conn[o].cid].st \in {"asked", "passed", "open"} => s.lsn[s.conn[o].cid].st \in {"asked", "passed", "open"})
    BY <1>a, <2>2, Zenon
  <2> QED BY <1>0, <2>1, <2>3, SMT DEF FakeOK
<1>3. ASSUME NEW d \in Cids PROVE CliOK(t, d) /\ MovesOK(t, d)
  <2>1. CliOK(s, d) /\ MovesOK(s, d)
    BY Zenon DEF TunnelOK
  <2>2. CASE d = c
    <3>1. t.byClient[c] = NON /\ t.lsn[c].st # "none" /\ ~(c \in t.app /\ c \in t.waiters)
      BY <1>0, <2>1, <2>2, Zenon DEF CliOK, CliBase
    <3> QED BY <2>2, <3>1, Zenon DEF CliOK, CliBase, CliBacked, MovesOK
  <2>3. CASE d # c
    <3>1. t.lsn[d] = s.lsn[d]
      BY <1>0, <2>3
    <3>2. CliBase(t, d)
      BY <1>0, <2>1, <3>1, Zenon DEF CliOK, CliBase
    <3>3. CliBacked(t, d)
      BY <1>0, <2>1, <3>1, Zenon DEF CliOK, CliBacked
    <3>4. MovesOK(t, d)
      <4>1. t.byClient[d] = s.byClient[d] /\ t.wire[d] = s.wire[d] /\ t.lsn[d].pos = s.lsn[d].pos
        BY <1>0, <3>1
      <4> QED BY <1>0, <2>1, <4>1, MovesSame
    <3> QED BY <3>2, <3>3, <3>4 DEF CliOK
  <2> QED BY <2>2, <2>3
<1>4. ASSUME NEW y \in Sids PROVE SrvOK(t, y)
  <2>1. SrvOK(s, y)
    BY Zenon DEF TunnelOK
  <2> QED BY <1>0, <2>1, Zenon DEF SrvOK
<1>5. Alone(t)
  <2>1. Alone(s)
    BY DEF TunnelOK
  <2> QED BY <1>0, <2>1, SMT DEF Alone
<1> QED BY <1>0, <1>1, <1>2, <1>3, <1>4, <1>5, Zenon DEF TunnelOK

LEMMA FiledStep ==
  ASSUME NEW s, TunnelOK(s), NEW c \in Cids, NEW o, s.byClient[c] = o, o # NON, NEW t,
         WorksOut(s, t, o, c, s.conn[o].sid)
  PROVE  TunnelOK(t)
<1>1. /\ o \in Objs /\ s.conn[o] # NON /\ s.conn[o].cid = c /\ Settled(s, o, c, s.conn[o].sid)
      /\ s \in TunnelState
  BY SettledOf
<1>2. Carries(s, o, c, s.conn[o].sid) /\ Apart(s, o, c, s.conn[o].sid)
  BY <1>1, Owner
<1>3. s.conn[o].sid \in Sids \cup {NON}
  BY <1>1, LiveConn, ConnFields, Zenon
<1> QED BY <1>1, <1>2, <1>3, ClusterDone

\* The flags that no part of the invariant depends on.
SameButFlags(r, q) ==
    /\ q \in VpnConnection /\ q.cid = r.cid /\ q.sid = r.sid /\ q.up = r.up /\ q.st = r.st
    /\ q.proto = r.proto /\ q.mig = r.mig /\ q.first = r.first /\ q.fakec = r.fakec /\ q.closed = r.closed
    /\ (q.task => r.task) /\ q.buf = r.buf /\ (q.looking => r.looking)

LEMMA RecordStep ==
  ASSUME NEW s, TunnelOK(s), NEW o \in Objs, NEW t, NEW q, s.conn[o] # NON, ConnSet(s, t, o, q),
         SameButFlags(s.conn[o], q)
  PROVE  TunnelOK(t)
<1>0. PICK r : r = s.conn[o]
  OBVIOUS
<1>1. /\ t \in TunnelState /\ t.conn[o] = q /\ \A p \in Objs : p # o => t.conn[p] = s.conn[p]
      /\ t.byClient = s.byClient /\ t.byServer = s.byServer /\ t.waiters = s.waiters /\ t.app = s.app
      /\ t.lsn = s.lsn /\ t.ups = s.ups /\ t.wire = s.wire
  BY DEF ConnSet
<1>2. s \in TunnelState /\ r # NON /\ q # NON /\ r \in VpnConnection
  BY <1>0, LiveConn, Apartness, Zenon DEF TunnelOK, SameButFlags
<1>3. /\ q.cid = r.cid /\ q.sid = r.sid /\ q.up = r.up /\ q.st = r.st
      /\ q.proto = r.proto /\ q.mig = r.mig /\ q.first = r.first /\ q.fakec = r.fakec /\ q.closed = r.closed
      /\ (q.task => r.task) /\ q.buf = r.buf /\ (q.looking => r.looking)
  BY <1>0 DEF SameButFlags
<1>4. r.cid \in Cids \cup {NON} /\ r.sid \in Sids \cup {NON}
  BY <1>2, ConnFields, Zenon
<1>5. Carries(s, o, r.cid, r.sid) /\ Apart(s, o, r.cid, r.sid)
  BY <1>0, Owner
<1>6. Changed(s, t, o, r.cid, r.sid)
  BY <1>1, Zenon DEF Changed
<1>7. Carries(t, o, r.cid, r.sid)
  BY <1>1, <1>3, <1>5, Zenon DEF Carries
<1>8. ObjOK(t, o)
  <2>1. ObjOK(s, o)
    BY Zenon DEF TunnelOK
  <2> QED BY <1>0, <1>1, <1>2, <1>3, <2>1, SMT DEF ObjOK
<1>9. ASSUME ~EarlyAck PROVE FakeOK(t, o)
  <2>1. FakeOK(s, o)
    BY <1>9, Zenon DEF TunnelOK
  <2> QED BY <1>0, <1>1, <1>2, <1>3, <2>1, SMT DEF FakeOK
<1>10. MovesLeft(s, t, o, r.cid)
  <2>1. r.cid # NON => s.byClient[r.cid] \in {o, NON}
    BY <1>5, Zenon DEF Carries
  <2> QED BY <1>0, <1>1, <1>2, <1>3, <2>1, SMT DEF MovesLeft
<1>11. ASSUME NEW d \in Cids PROVE MovesOK(t, d)
  <2>1. CliOK(s, d) /\ MovesOK(s, d)
    BY Zenon DEF TunnelOK
  <2> QED BY <1>0, <1>1, <1>2, <1>4, <1>6, <1>10, <2>1, MovesKept
<1>12. ASSUME r.cid # NON PROVE CliOK(t, r.cid)
  <2>1. r.cid \in Cids
    BY <1>4, <1>12
  <2>2. CliOK(s, r.cid)
    BY <2>1, Zenon DEF TunnelOK
  <2>3. s.byClient[r.cid] \in {o, NON}
    BY <1>5, <1>12, Zenon DEF Carries
  <2>4. CASE s.byClient[r.cid] = NON
    <3>1. t.byClient[r.cid] = NON /\ s.lsn[r.cid].st # "none"
      <4>1. ObjOK(s, o)
        BY Zenon DEF TunnelOK
      <4> QED BY <1>0, <1>1, <1>2, <1>12, <2>4, <4>1, Zenon DEF ObjOK
    <3> QED BY <1>1, <2>2, <3>1, Zenon DEF CliOK, CliBase, CliBacked
  <2>5. CASE s.byClient[r.cid] = o
    <3>0. PICK l : l = s.lsn[r.cid]
      OBVIOUS
    <3>1. PICK w : w = s.wire[r.cid]
      OBVIOUS
    <3>2. o # NON
      BY Apartness, Zenon
    <3>3. /\ l.st \notin {"none", "closed"} /\ ~(r.cid \in s.app /\ r.cid \in s.waiters)
          /\ l.st = "passed" => r.st = "WAITING_ACCEPT"
          /\ l.st = "open" => r.st \in {"CONNECTED", "CONNECTED_MIGRATING"}
          /\ r.proto = "udp" => ~l.unsent
          /\ r.proto = "tcp" /\ r.st # "CONNECTED_MIGRATING" => w \o r.buf = Counted(l.pos - 1)
          /\ l.st \in {"passed", "open"} \/ (r.proto = "udp" /\ r.st = "CONNECTED") => r.sid # NON /\ s.byServer[r.sid] = o
      BY <1>0, <2>2, <2>5, <3>0, <3>1, <3>2, Zenon DEF CliOK, CliBase, CliBacked
    <3>4. CliParts(t, r.cid, o, q, l, w)
      BY <1>1, <1>2, <1>3, <2>5, <3>0, <3>1, <3>3, Zenon DEF CliParts
    <3> QED BY <3>4, CliBuilt
  <2> QED BY <2>3, <2>4, <2>5
<1>13. ASSUME r.sid # NON PROVE SrvOK(t, r.sid)
  <2>1. r.sid \in Sids /\ s.byServer[r.sid] \in {o, NON}
    BY <1>4, <1>5, <1>13, Zenon DEF Carries
  <2>2. SrvOK(s, r.sid)
    BY <2>1, Zenon DEF TunnelOK
  <2> QED BY <1>1, <1>2, <1>3, <2>1, <2>2, SMT DEF SrvOK
<1>14. o \in Cids /\ o # r.cid => s.lsn[o].st # "none"
  BY <1>0, <1>2, Zenon DEF TunnelOK, CliOK, CliBase
<1>15. \A d \in Cids : MovesOK(t, d)
  BY <1>11
<1>16. r.cid # NON => CliOK(t, r.cid) /\ (t.lsn[r.cid].st = "none" => s.lsn[r.cid].st = "none")
  BY <1>1, <1>12
<1> QED BY <1>1, <1>4, <1>5, <1>6, <1>7, <1>8, <1>9, <1>13, <1>14, <1>15, <1>16, ClusterStep

LEMMA StateIs ==
  /\ State.conn = conn /\ State.byClient = byClient /\ State.byServer = byServer /\ State.waiters = waiters
  /\ State.ep = ep /\ State.app = app /\ State.lsn = lsn /\ State.ups = ups /\ State.wire = wire
BY DEF State

LEMMA ListenerStep ==
  ASSUME NEW s, TunnelOK(s), NEW c \in Cids, NEW l \in ListenerConn, NEW t, LsnSet(s, t, c, l),
         l.st = s.lsn[c].st, l.pos = s.lsn[c].pos, l.st # "none",
         s.byClient[c] = NON => (l.reads => s.lsn[c].reads \/ Resting(s, c)),
         s.byClient[c] # NON =>
            /\ s.conn[s.byClient[c]].proto = "udp" => ~l.unsent
            /\ s.conn[s.byClient[c]].st = "CONNECTED_MIGRATING" /\ s.conn[s.byClient[c]].proto = "tcp"
                  /\ s.conn[s.byClient[c]].looking => ~l.reads
  PROVE  TunnelOK(t)
<1>1. CASE s.byClient[c] = NON
  BY <1>1, UnfiledListener
<1>2. CASE s.byClient[c] # NON
  <2>1. PICK o : o = s.byClient[c]
    OBVIOUS
  <2>2. /\ o \in Objs /\ s.conn[o] # NON /\ s.conn[o].cid = c /\ Settled(s, o, c, s.conn[o].sid)
        /\ CliOK(s, c) /\ s \in TunnelState
    BY <1>2, <2>1, SettledOf
  <2>3. CliBacked(t, c)
    BY <2>2, Zenon DEF CliOK, CliBacked, LsnSet
  <2>4. /\ l.st \notin {"none", "closed"}
        /\ l.st = "passed" => s.conn[o].st = "WAITING_ACCEPT"
        /\ l.st = "open" => s.conn[o].st \in {"CONNECTED", "CONNECTED_MIGRATING"}
    BY <1>2, <2>1, <2>2, Zenon DEF CliOK, CliBase
  <2>5. WorksOut(s, t, o, c, s.conn[o].sid)
    BY <1>2, <2>1, <2>2, <2>3, <2>4, ListenerWorks
  <2> QED BY <1>2, <2>1, <2>5, FiledStep
<1> QED BY <1>1, <1>2

LEMMA ReadsSet ==
  ASSUME NEW l \in ListenerConn, NEW b \in BOOLEAN, NEW m, m = [l EXCEPT !.reads = b]
  PROVE  m \in ListenerConn /\ m.reads = b /\ m.st = l.st /\ m.unsent = l.unsent /\ m.pos = l.pos
BY Zenon DEF ListenerConn

LEMMA ReadsOff ==
  ASSUME NEW l \in ListenerConn, NEW m, m = [l EXCEPT !.reads = FALSE]
  PROVE  m \in ListenerConn /\ ~m.reads /\ m.st = l.st /\ m.unsent = l.unsent /\ m.pos = l.pos
BY Zenon DEF ListenerConn

LEMMA UnsentSet ==
  ASSUME NEW l \in ListenerConn, NEW b \in BOOLEAN, NEW m, m = [l EXCEPT !.unsent = b]
  PROVE  m \in ListenerConn /\ m.unsent = b /\ m.st = l.st /\ m.reads = l.reads /\ m.pos = l.pos
BY Zenon DEF ListenerConn

LEMMA SyncCloseOK ==
  ASSUME NEW s, TunnelOK(s), NEW c \in Cids, NEW o, s.byClient[c] = o, o # NON, NEW graceful \in BOOLEAN
  PROVE  TunnelOK(CloseClientSideConnection(s, o, graceful, FALSE))
<1>1. o \in Objs /\ Settled(s, o, c, s.conn[o].sid)
  BY SettledOf
<1>2. WorksOut(s, CloseClientSideConnection(s, o, graceful, FALSE), o, c, s.conn[o].sid)
  BY <1>1, CloseClientSideWorks
<1> QED BY <1>2, FiledStep

-----------------------------------------------------------------------------
(* The events of the listener.                                             *)

LEMMA ClientClosedOK ==
  ASSUME NEW s, TunnelOK(s), NEW c \in Cids, s.lsn[c].st # "none"
  PROVE  TunnelOK(OnClientClosed(s, c))
<1>0. s \in TunnelState
  BY DEF TunnelOK
<1>1. CASE s.byClient[c] = NON
  <2>1. PICK l : l = ClosedLsn(s.lsn[c])
    OBVIOUS
  <2>2. l \in ListenerConn /\ l.st = "closed" /\ ~l.reads
    BY <1>0, <2>1, LsnFields, ClosedLsnFields, Zenon
  <2>3. OnClientClosed(s, c) = [s EXCEPT !.lsn[c] = l]
    BY <1>1, <2>1, Zenon DEF OnClientClosed
  <2>4. LsnSet(s, [s EXCEPT !.lsn[c] = l], c, l)
    BY <1>0, <2>2, ListenerSet
  <2>5. TunnelOK([s EXCEPT !.lsn[c] = l])
    BY <1>1, <2>2, <2>4, UnfiledListener
  <2> QED BY <2>3, <2>5
<1>2. CASE s.byClient[c] # NON
  <2>1. PICK o : o = s.byClient[c]
    OBVIOUS
  <2>2. o \in Objs /\ Settled(s, o, c, s.conn[o].sid)
    BY <1>2, <2>1, SettledOf
  <2>3. WorksOut(s, OnClientClosed(s, c), o, c, s.conn[o].sid)
    BY <2>2, ClosingWorks
  <2> QED BY <1>2, <2>1, <2>3, FiledStep
<1> QED BY <1>1, <1>2

LEMMA ClientClosedStep ==
  ASSUME TunnelOK(State), NEW c \in Cids, ClientClosed(c)
  PROVE  TunnelOK(State)'
<1>1. State.lsn[c].st # "none"
  BY StateIs DEF ClientClosed
<1>2. TunnelOK(OnClientClosed(State, c))
  BY <1>1, ClientClosedOK
<1> QED BY <1>2, Became DEF ClientClosed

LEMMA ClientDataSentStep ==
  ASSUME TunnelOK(State), NEW c \in Cids, ClientDataSent(c)
  PROVE  TunnelOK(State)'
<1>1. PICK s : s = State
  OBVIOUS
<1>2. s \in TunnelState /\ CliOK(s, c) /\ s.lsn[c].unsent /\ TunnelOK(s)
  BY <1>1, StateIs, Zenon DEF ClientDataSent, TunnelOK
<1>3. PICK l : l = [s.lsn[c] EXCEPT !.unsent = FALSE]
  OBVIOUS
<1>4. s.lsn[c] \in ListenerConn
  BY <1>2, LsnFields
<1>5. l \in ListenerConn /\ l.unsent = FALSE /\ l.st = s.lsn[c].st /\ l.reads = s.lsn[c].reads /\ l.pos = s.lsn[c].pos
  BY <1>3, <1>4, Zenon DEF ListenerConn
<1>6. LsnSet(s, [s EXCEPT !.lsn[c] = l], c, l)
  BY <1>2, <1>5, ListenerSet
<1>7. l.st # "none"
  BY <1>2, <1>5, Zenon DEF CliOK, CliBase
<1>8. s.byClient[c] # NON => (s.conn[s.byClient[c]].st = "CONNECTED_MIGRATING" /\ s.conn[s.byClient[c]].proto = "tcp"
                  /\ s.conn[s.byClient[c]].looking => ~l.reads)
  <2>1. s.byClient[c] # NON => /\ s.byClient[c] \in Objs /\ s.conn[s.byClient[c]] # NON /\ s.conn[s.byClient[c]].cid = c
    BY <1>2, SettledOf
  <2>2. s.byClient[c] # NON => ObjOK(s, s.byClient[c])
    BY <1>2, <2>1, Zenon DEF TunnelOK
  <2>3. c # NON
    BY Apartness, Zenon
  <2> QED BY <1>5, <2>1, <2>2, <2>3, Zenon DEF ObjOK
<1>9. TunnelOK([s EXCEPT !.lsn[c] = l])
  BY <1>2, <1>5, <1>6, <1>7, <1>8, ListenerStep
<1>10. [s EXCEPT !.lsn[c] = l] = [s EXCEPT !.lsn[c].unsent = FALSE]
  BY <1>3
<1>11. Becomes([s EXCEPT !.lsn[c] = l])
  BY <1>1, <1>10 DEF ClientDataSent
<1> QED BY <1>9, <1>11, Became

LEMMA ConnectionAcceptedStep ==
  ASSUME TunnelOK(State), NEW c \in Cids, ConnectionAccepted(c)
  PROVE  TunnelOK(State)'
<1>1. PICK s : s = State
  OBVIOUS
<1>2. PICK o : o = s.byClient[c]
  OBVIOUS
<1>3. PICK r : r = s.conn[o]
  OBVIOUS
<1>4. PICK k : k = s.lsn[c]
  OBVIOUS
<1>5. PICK v : v = [k EXCEPT !.st = "open"]
  OBVIOUS
<1>6. PICK t1 : t1 = [s EXCEPT !.lsn[c] = v]
  OBVIOUS
<1>7. k.st = "passed" /\ s \in TunnelState /\ k \in ListenerConn /\ TunnelOK(s) /\ CliOK(s, c)
  BY <1>1, <1>4, StateIs, LsnFields, Zenon DEF ConnectionAccepted, TunnelOK
<1>8. v \in ListenerConn /\ v.st = "open" /\ v.reads = k.reads /\ v.unsent = k.unsent /\ v.pos = k.pos
  BY <1>5, <1>7, LsnStateSet, Zenon DEF ListenerStates
<1>9. LsnSet(s, t1, c, v)
  BY <1>6, <1>7, <1>8, ListenerSet
<1>10. o # NON => r.st = "WAITING_ACCEPT"
  BY <1>2, <1>3, <1>4, <1>7, Zenon DEF CliOK, CliBase
<1>11. [State EXCEPT !.lsn[c].st = "open"] = t1
  BY <1>1, <1>4, <1>5, <1>6
<1>12. CASE o = NON
  <2>1. Becomes(t1)
    BY <1>1, <1>2, <1>11, <1>12, StateIs DEF ConnectionAccepted
  <2>2. TunnelOK(t1)
    BY <1>2, <1>4, <1>7, <1>8, <1>9, <1>12, UnfiledListener
  <2> QED BY <2>1, <2>2, Became
<1>13. CASE o # NON
  <2>1. PICK t : t = TurnRead([t1 EXCEPT !.conn[o].st = "CONNECTED"], c, TRUE)
    OBVIOUS
  <2>2. Becomes(t)
    BY <1>1, <1>2, <1>3, <1>10, <1>11, <1>13, <2>1, StateIs DEF ConnectionAccepted
  <2>3. /\ o \in Objs /\ r # NON /\ r.cid = c /\ Settled(s, o, c, r.sid)
    BY <1>2, <1>3, <1>7, <1>13, SettledOf
  <2>4. PICK q : q = [r EXCEPT !.st = "CONNECTED"]
    OBVIOUS
  <2>5. PICK l : l = [v EXCEPT !.reads = TRUE]
    OBVIOUS
  <2>6. PICK t2 : t2 = [t1 EXCEPT !.conn[o] = q]
    OBVIOUS
  <2>7. t1 \in TunnelState /\ t1.conn[o] = r /\ t1.lsn[c] = v
    BY <1>3, <1>9 DEF LsnSet
  <2>8. t2 = [t1 EXCEPT !.conn[o].st = "CONNECTED"]
    BY <2>4, <2>6, <2>7
  <2>9. r \in VpnConnection
    BY <1>3, <1>7, <2>3, LiveConn
  <2>10. /\ q \in VpnConnection /\ q.st = "CONNECTED" /\ q.cid = r.cid /\ q.sid = r.sid /\ q.up = r.up /\ q.task = r.task
         /\ q.proto = r.proto /\ q.mig = r.mig /\ q.first = r.first /\ q.looking = r.looking /\ q.fakec = r.fakec
         /\ q.closed = r.closed /\ q.buf = r.buf
    <3>1. "CONNECTED" \in VpnConnectionState
      BY DEF VpnConnectionState
    <3> QED BY <2>4, <2>9, <3>1, StSet
  <2>11. ConnSet(t1, t2, o, q)
    BY <2>3, <2>6, <2>7, <2>10, ConnectionSet
  <2>12. t2 \in TunnelState /\ t2.lsn[c] = v
    BY <2>7, <2>11 DEF ConnSet
  <2>13. l \in ListenerConn /\ l.reads = TRUE /\ l.st = v.st /\ l.unsent = v.unsent /\ l.pos = v.pos
    BY <1>8, <2>5, ReadsSet
  <2>14. t = [t2 EXCEPT !.lsn[c] = l]
    BY <2>1, <2>5, <2>8, <2>12 DEF TurnRead
  <2>15. LsnSet(t2, t, c, l)
    BY <2>12, <2>13, <2>14, ListenerSet
  <2>16. RecSet(s, t, o, c, q, l, s.wire[c])
    BY <1>9, <2>11, <2>15, SMT DEF LsnSet, ConnSet, RecSet
  <2>17. t \in TunnelState /\ t.conn[o] = q /\ t.lsn[c] = l /\ t.wire[c] = s.wire[c] /\ t.byClient = s.byClient
         /\ t.byServer = s.byServer /\ t.waiters = s.waiters /\ t.app = s.app /\ t.ups = s.ups
    BY <2>16, Zenon DEF RecSet
  <2>18. ObjOK(s, o) /\ CliBase(s, c) /\ CliBacked(s, c) /\ (~EarlyAck => FakeOK(s, o))
    BY <1>7, <2>3, Zenon DEF CliOK, Settled
  <2>19. r.sid # NON /\ s.byServer[r.sid] = o
    BY <1>2, <1>3, <1>4, <1>7, <1>13, <2>18, Zenon DEF CliBacked
  <2>a. r.mig = NON /\ q # NON /\ c # NON
    BY <1>3, <1>10, <1>13, <2>3, <2>10, <2>18, Apartness, Zenon DEF ObjOK
  <2>20. ObjOK(t, o)
    <3>1. t.lsn[c].st = "open" /\ q.cid = c /\ r.st = "WAITING_ACCEPT" /\ q.st = "CONNECTED"
      BY <1>8, <1>10, <1>13, <2>3, <2>10, <2>13, <2>17
    <3>2. q.sid = r.sid /\ t.byServer[r.sid] = o /\ t.ups[r.sid] = s.ups[r.sid] /\ r.sid # NON
      BY <2>10, <2>17, <2>19
    <3> QED BY <1>3, <2>3, <2>10, <2>17, <2>18, <2>a, <3>1, <3>2, SMT DEF ObjOK
  <2>21. ~EarlyAck => FakeOK(t, o)
    BY <1>3, <1>4, <1>7, <1>10, <1>13, <2>3, <2>10, <2>17, <2>18, SMT DEF FakeOK
  <2>22. CliOK(t, c)
    <3>1. /\ ~(c \in t.app /\ c \in t.waiters) /\ l.st = "open"
          /\ (q.proto = "udp" => ~l.unsent)
      BY <1>2, <1>3, <1>4, <1>8, <1>13, <2>10, <2>13, <2>17, <2>18, Zenon DEF CliBase
    <3>2. q.proto = "tcp" => s.wire[c] \o r.buf = Counted(k.pos - 1)
      BY <1>2, <1>3, <1>4, <1>10, <1>13, <2>10, <2>18, Zenon DEF CliBase
    <3>3. l.pos = k.pos /\ q.buf = r.buf
      BY <1>8, <2>10, <2>13
    <3>4. q.proto = "tcp" => s.wire[c] \o q.buf = Counted(l.pos - 1)
      BY <3>2, <3>3
    <3>5. t.byClient[c] = o
      BY <1>2, <2>17
    <3>6. q.cid = c /\ q.sid # NON /\ t.byServer[q.sid] = o /\ q.st = "CONNECTED"
      BY <2>3, <2>10, <2>17, <2>19
    <3>7. CliParts(t, c, o, q, l, s.wire[c])
      BY <2>17, <2>a, <3>1, <3>4, <3>5, <3>6 DEF CliParts
    <3> QED BY <3>7, CliBuilt
  <2>23. WorksOut(s, t, o, c, r.sid)
    BY <1>3, <1>8, <1>10, <1>13, <2>3, <2>10, <2>13, <2>16, <2>20, <2>21, <2>22, <2>a, RecordsWork
  <2>24. TunnelOK(t)
    BY <1>2, <1>3, <1>7, <1>13, <2>23, FiledStep
  <2> QED BY <2>2, <2>24, Became
<1> QED BY <1>12, <1>13

LEMMA CompleteConnectRequestTaskStep ==
  ASSUME TunnelOK(State), NEW o \in Objs, CompleteConnectRequestTask(o)
  PROVE  TunnelOK(State)'
<1>1. PICK s : s = State
  OBVIOUS
<1>2. PICK r : r = s.conn[o]
  OBVIOUS
<1>3. s \in TunnelState /\ TunnelOK(s) /\ ObjOK(s, o) /\ r # NON /\ r.task /\ r \in VpnConnection
  BY <1>1, <1>2, StateIs, LiveConn, Zenon DEF CompleteConnectRequestTask, TunnelOK
<1>4. r.cid \in Cids /\ r.sid = NON /\ r.st \in {"WAITING_ACTION", "REJECTED"} /\ s.byClient[r.cid] = o
  BY <1>2, <1>3, ConnFields, Zenon DEF ObjOK
<1>5. PICK q : q = [r EXCEPT !.task = FALSE]
  OBVIOUS
<1>6. q \in VpnConnection
  BY <1>3, <1>5, Zenon DEF VpnConnection
<1>7. /\ q.cid = r.cid /\ q.sid = r.sid /\ q.up = r.up /\ q.st = r.st
      /\ q.proto = r.proto /\ q.mig = r.mig /\ q.first = r.first /\ q.fakec = r.fakec /\ q.closed = r.closed
      /\ ~q.task /\ q.buf = r.buf /\ q.looking = r.looking
  BY <1>3, <1>5, Zenon DEF VpnConnection
<1>8. PICK t1 : t1 = [s EXCEPT !.conn[o] = q]
  OBVIOUS
<1>9. t1 = [State EXCEPT !.conn[o].task = FALSE]
  BY <1>1, <1>2, <1>5, <1>8
<1>10. ConnSet(s, t1, o, q)
  BY <1>3, <1>6, <1>8, ConnectionSet
<1>11. SameButFlags(r, q)
  BY <1>6, <1>7 DEF SameButFlags
<1>12. TunnelOK(t1)
  BY <1>2, <1>3, <1>10, <1>11, RecordStep
<1>13. t1.byClient = s.byClient /\ t1.conn[o] = q
  BY <1>10 DEF ConnSet
<1>14. PICK t : t = CloseClientSideConnection(t1, o, FALSE, FALSE)
  OBVIOUS
<1>15. TunnelOK(t)
  <2>1. o # NON /\ t1.byClient[r.cid] = o
    BY <1>4, <1>13, Apartness
  <2> QED BY <1>4, <1>12, <1>14, <2>1, SyncCloseOK
<1>16. Becomes(t)
  <2>1. conn[o] = r
    BY <1>1, <1>2, StateIs
  <2>2. CASE r.st = "WAITING_ACTION"
    <3>1. t = [Answer(t1, r.cid, FALSE) EXCEPT !.conn[o].st = "REJECTED"]
      BY <1>7, <1>13, <1>14, <2>2 DEF CloseClientSideConnection
    <3>2. r.st \in {"WAITING_RESOLVE", "WAITING_RESPONSE", "WAITING_ACTION"}
      BY <2>2
    <3> QED BY <1>9, <2>1, <3>1, <3>2, Zenon DEF CompleteConnectRequestTask
  <2>3. CASE r.st = "REJECTED"
    <3>1. t = CloseListener(t1, r.cid, FALSE, FALSE)
      BY <1>7, <1>13, <1>14, <2>3 DEF CloseClientSideConnection
    <3>2. r.st \notin {"WAITING_RESOLVE", "WAITING_RESPONSE", "WAITING_ACTION"}
      BY <2>3
    <3> QED BY <1>9, <2>1, <3>1, <3>2, Zenon DEF CompleteConnectRequestTask
  <2> QED BY <1>4, <2>2, <2>3
<1> QED BY <1>15, <1>16, Became

LEMMA SendingCleared ==
  ASSUME NEW r \in VpnConnection, NEW b \in BOOLEAN, NEW q, q = [r EXCEPT !.sending = b]
  PROVE  SameButFlags(r, q)
<1>1. q \in VpnConnection
  BY Zenon DEF VpnConnection
<1>2. /\ q.cid = r.cid /\ q.sid = r.sid /\ q.up = r.up /\ q.st = r.st
      /\ q.proto = r.proto /\ q.mig = r.mig /\ q.first = r.first /\ q.fakec = r.fakec /\ q.closed = r.closed
      /\ q.task = r.task /\ q.buf = r.buf /\ q.looking = r.looking
  BY Zenon DEF VpnConnection
<1> QED BY <1>1, <1>2 DEF SameButFlags

LEMMA BufSet ==
  ASSUME NEW r \in VpnConnection, NEW b \in Seq(1..MaxPkt), NEW q, q = [r EXCEPT !.buf = b]
  PROVE  /\ q \in VpnConnection /\ q.buf = b /\ q.cid = r.cid /\ q.sid = r.sid /\ q.up = r.up /\ q.st = r.st
         /\ q.proto = r.proto /\ q.mig = r.mig /\ q.first = r.first /\ q.fakec = r.fakec /\ q.closed = r.closed
         /\ q.task = r.task /\ q.looking = r.looking
<1>1. q \in VpnConnection
  BY Zenon DEF VpnConnection
<1> QED BY <1>1, Zenon DEF VpnConnection

\* The records of a filed connection change, its state and its routing do not.
DataMoved(s, r, o, c, q, l, w) ==
    /\ q \in VpnConnection /\ q.cid = r.cid /\ q.sid = r.sid /\ q.up = r.up /\ q.st = r.st
    /\ q.proto = r.proto /\ q.mig = r.mig /\ q.closed = r.closed
    /\ (q.task => r.task) /\ (q.looking => r.looking) /\ (q.fakec => r.fakec) /\ (q.first => r.first)
    /\ l.st = s.lsn[c].st /\ (r.proto = "udp" => ~l.unsent)
    /\ r.st = "CONNECTED_MIGRATING" /\ r.proto = "tcp" =>
         q.buf = <<>> /\ w = s.wire[c] /\ l.pos = s.lsn[c].pos /\ (q.looking => ~l.reads)
    /\ r.proto = "tcp" /\ r.st # "CONNECTED_MIGRATING" => w \o q.buf = Counted(l.pos - 1)

LEMMA DataStep ==
  ASSUME NEW s, TunnelOK(s), NEW c \in Cids, NEW o, s.byClient[c] = o, o # NON, NEW t, NEW l, NEW w,
         NEW q, RecSet(s, t, o, c, q, l, w), DataMoved(s, s.conn[o], o, c, q, l, w), ~EarlyAck => FakeOK(t, o)
  PROVE  TunnelOK(t)
<1>1. PICK r : r = s.conn[o]
  OBVIOUS
<1>a. /\ q \in VpnConnection /\ q.cid = r.cid /\ q.sid = r.sid /\ q.up = r.up /\ q.st = r.st
      /\ q.proto = r.proto /\ q.mig = r.mig /\ q.closed = r.closed
      /\ (q.task => r.task) /\ (q.looking => r.looking) /\ (q.fakec => r.fakec) /\ (q.first => r.first)
      /\ l.st = s.lsn[c].st /\ (r.proto = "udp" => ~l.unsent)
      /\ r.st = "CONNECTED_MIGRATING" /\ r.proto = "tcp" =>
           q.buf = <<>> /\ w = s.wire[c] /\ l.pos = s.lsn[c].pos /\ (q.looking => ~l.reads)
      /\ r.proto = "tcp" /\ r.st # "CONNECTED_MIGRATING" => w \o q.buf = Counted(l.pos - 1)
  BY <1>1 DEF DataMoved
<1>2. /\ o \in Objs /\ r # NON /\ r.cid = c /\ Settled(s, o, c, r.sid)
      /\ CliOK(s, c) /\ s \in TunnelState
  BY <1>1, SettledOf
<1>3. ObjOK(s, o) /\ CliBase(s, c) /\ CliBacked(s, c)
  BY <1>2, Zenon DEF CliOK, Settled
<1>4. t \in TunnelState /\ t.conn[o] = q /\ t.lsn[c] = l /\ t.wire[c] = w /\ t.byClient = s.byClient
      /\ t.byServer = s.byServer /\ t.waiters = s.waiters /\ t.app = s.app /\ t.ups = s.ups
  BY Zenon DEF RecSet
<1>5. q # NON /\ c # NON /\ q.cid = c
  BY <1>2, <1>a, Apartness, Zenon
<1>6. /\ l.st \notin {"none", "closed"} /\ ~(c \in s.app /\ c \in s.waiters)
      /\ l.st = "passed" => r.st = "WAITING_ACCEPT"
      /\ l.st = "open" => r.st \in {"CONNECTED", "CONNECTED_MIGRATING"}
      /\ l.st \in {"passed", "open"} \/ (r.proto = "udp" /\ r.st = "CONNECTED") => r.sid # NON /\ s.byServer[r.sid] = o
  BY <1>1, <1>3, <1>a, Zenon DEF CliBase, CliBacked
<1>7. r.mig = NON
  BY <1>1, <1>2, <1>3, <1>5, Zenon DEF ObjOK
<1>8. ObjOK(t, o)
  BY <1>1, <1>2, <1>3, <1>4, <1>5, <1>6, <1>7, <1>a, SMT DEF ObjOK
<1>9. CliOK(t, c)
  <2>1. t.byClient[c] = o /\ ~(c \in t.app /\ c \in t.waiters) /\ q.st = r.st /\ q.proto = r.proto /\ q.sid = r.sid
    BY <1>1, <1>4, <1>6, <1>a
  <2>2. l.st \in {"passed", "open"} \/ (q.proto = "udp" /\ q.st = "CONNECTED") => q.sid # NON /\ t.byServer[q.sid] = o
    BY <1>4, <1>6, <2>1
  <2>3. q.proto = "udp" => ~l.unsent
    BY <1>a
  <2>4. CliParts(t, c, o, q, l, w)
    BY <1>4, <1>5, <1>6, <1>a, <2>1, <2>2, <2>3 DEF CliParts
  <2> QED BY <2>4, CliBuilt
<1>10. WorksOut(s, t, o, c, r.sid)
  BY <1>1, <1>2, <1>5, <1>6, <1>7, <1>8, <1>9, <1>a, RecordsWork
<1> QED BY <1>1, <1>10, FiledStep

LEMMA SendBufferedDataStep ==
  ASSUME TunnelOK(State), NEW o \in Objs, SendBufferedData(o)
  PROVE  TunnelOK(State)'
<1>1. PICK s0 : s0 = State
  OBVIOUS
<1>2. PICK r0 : r0 = s0.conn[o]
  OBVIOUS
<1>3. s0 \in TunnelState /\ TunnelOK(s0) /\ r0 # NON /\ r0 \in VpnConnection /\ conn[o] = r0
  BY <1>1, <1>2, StateIs, LiveConn, Zenon DEF SendBufferedData, TunnelOK
<1>4. PICK r : r = [r0 EXCEPT !.sending = FALSE]
  OBVIOUS
<1>5. SameButFlags(r0, r)
  BY <1>3, <1>4, SendingCleared
<1>6. PICK s : s = [s0 EXCEPT !.conn[o] = r]
  OBVIOUS
<1>7. ConnSet(s0, s, o, r)
  BY <1>3, <1>5, <1>6, ConnectionSet DEF SameButFlags
<1>8. TunnelOK(s)
  BY <1>2, <1>3, <1>5, <1>7, RecordStep
<1>9. s = [State EXCEPT !.conn[o].sending = FALSE]
  BY <1>1, <1>2, <1>4, <1>6
<1>10. s \in TunnelState /\ s.conn[o] = r /\ s.byClient = s0.byClient /\ s.lsn = s0.lsn /\ r \in VpnConnection
       /\ r.buf = r0.buf /\ r.cid = r0.cid /\ r.up = r0.up
  BY <1>5, <1>7 DEF ConnSet, SameButFlags
<1>11. CASE r0.cid = NON \/ r0.up \in {NON, "fake"} \/ byClient[r0.cid] # o
  <2>1. Becomes(s)
    BY <1>3, <1>9, <1>11, Zenon DEF SendBufferedData
  <2> QED BY <1>8, <2>1, Became
<1>12. CASE ~(r0.cid = NON \/ r0.up \in {NON, "fake"} \/ byClient[r0.cid] # o)
  <2>1. PICK c : c = r0.cid
    OBVIOUS
  <2>2. PICK k \in 0..Len(r.buf) : Becomes(TurnRead(Sent(s, o, k), c, k = Len(r.buf)))
    BY <1>3, <1>9, <1>10, <1>12, <2>1, Zenon DEF SendBufferedData
  <2>3. PICK yes : yes = (k = Len(r.buf))
    OBVIOUS
  <2>4. c \in Cids /\ s.byClient[c] = o /\ o # NON /\ r # NON /\ r.cid = c /\ r.up # "fake" /\ yes \in BOOLEAN
    BY <1>1, <1>3, <1>10, <1>12, <2>1, <2>3, ConnFields, Apartness, StateIs, Zenon
  <2>5. PICK b : b = SubSeq(r.buf, k + 1, Len(r.buf))
    OBVIOUS
  <2>6. PICK w : w = s.wire[c] \o SubSeq(r.buf, 1, k)
    OBVIOUS
  <2>7. r.buf \in Seq(1..MaxPkt) /\ s.wire[c] \in Seq(1..MaxPkt) /\ s.lsn[c] \in ListenerConn
    BY <1>10, <2>4, ConnFields, StateFields, LsnFields, Zenon
  <2>8. b \in Seq(1..MaxPkt) /\ w \in Seq(1..MaxPkt) /\ w \o b = s.wire[c] \o r.buf
        /\ (r.buf = <<>> => b = <<>> /\ w = s.wire[c])
    <3>1. PICK S : S = 1..MaxPkt
      OBVIOUS
    <3>2. k \in 0..Len(r.buf) /\ r.buf \in Seq(S) /\ s.wire[c] \in Seq(S)
      BY <2>2, <2>7, <3>1
    <3>3. Drained(s.wire[c], r.buf, k, w, b, S)
      BY <2>5, <2>6, <3>2, SplitSeq, Zenon
    <3> QED BY <3>1, <3>3, Zenon DEF Drained
  <2>10. PICK q : q = [r EXCEPT !.buf = b]
    OBVIOUS
  <2>11. /\ q \in VpnConnection /\ q.buf = b /\ q.cid = r.cid /\ q.sid = r.sid /\ q.up = r.up /\ q.st = r.st
         /\ q.proto = r.proto /\ q.mig = r.mig /\ q.first = r.first /\ q.fakec = r.fakec /\ q.closed = r.closed
         /\ q.task = r.task /\ q.looking = r.looking
    BY <1>10, <2>8, <2>10, BufSet
  <2>12. PICK l : l = [s.lsn[c] EXCEPT !.reads = yes]
    OBVIOUS
  <2>13. l \in ListenerConn /\ l.st = s.lsn[c].st /\ l.unsent = s.lsn[c].unsent /\ l.pos = s.lsn[c].pos
    BY <2>4, <2>7, <2>12, ReadsSet
  <2>14. PICK t1 : t1 = [s EXCEPT !.conn[o] = q]
    OBVIOUS
  <2>15. ConnSet(s, t1, o, q)
    BY <1>10, <2>11, <2>14, ConnectionSet
  <2>16. t1 \in TunnelState /\ t1.wire = s.wire /\ t1.lsn = s.lsn
    BY <2>15 DEF ConnSet
  <2>17. PICK t2 : t2 = [t1 EXCEPT !.wire[c] = w]
    OBVIOUS
  <2>18. WireSet(t1, t2, c, w)
    BY <2>4, <2>8, <2>16, <2>17, OnWireSet
  <2>19. t2 \in TunnelState /\ t2.lsn = s.lsn
    BY <2>16, <2>18 DEF WireSet
  <2>20. PICK t : t = [t2 EXCEPT !.lsn[c] = l]
    OBVIOUS
  <2>21. LsnSet(t2, t, c, l)
    BY <2>4, <2>13, <2>19, <2>20, ListenerSet
  <2>22. Sent(s, o, k) = t2
    BY <1>10, <2>4, <2>5, <2>6, <2>10, <2>14, <2>17, StateFields, SMT DEF Sent, TunnelState
  <2>23. TurnRead(Sent(s, o, k), c, yes) = t
    BY <2>12, <2>19, <2>20, <2>22 DEF TurnRead
  <2>24. RecSet(s, t, o, c, q, l, w)
    BY <2>15, <2>18, <2>21, SMT DEF ConnSet, WireSet, LsnSet, RecSet
  <2>25. ObjOK(s, o) /\ CliOK(s, c) /\ (~EarlyAck => FakeOK(s, o))
    BY <1>8, <2>4, Zenon DEF TunnelOK
  <2>26. ~EarlyAck => FakeOK(t, o)
    <3>1. t.conn[o] = q
      BY <2>24 DEF RecSet
    <3> QED BY <2>4, <2>11, <3>1, Zenon DEF FakeOK
  <2>27. r.st = "CONNECTED_MIGRATING" /\ r.proto = "tcp" => r.buf = <<>> /\ ~r.looking
    <3>1. c # NON
      BY <2>4, Apartness, Zenon
    <3> QED BY <1>10, <2>4, <2>25, <3>1, Zenon DEF ObjOK
  <2>28. r.proto = "udp" => ~s.lsn[c].unsent
    BY <1>10, <2>4, <2>25, Zenon DEF CliOK, CliBase
  <2>29. r.proto = "tcp" /\ r.st # "CONNECTED_MIGRATING" => s.wire[c] \o r.buf = Counted(s.lsn[c].pos - 1)
    BY <1>10, <2>4, <2>25, Zenon DEF CliOK, CliBase
  <2>30. q.proto = "tcp" /\ q.st # "CONNECTED_MIGRATING" => w \o q.buf = Counted(l.pos - 1)
    BY <2>8, <2>11, <2>13, <2>29
  <2>31. TunnelOK(t)
    <3>1. DataMoved(s, r, o, c, q, l, w)
      BY <2>8, <2>11, <2>13, <2>27, <2>28, <2>30 DEF DataMoved
    <3>2. DataMoved(s, s.conn[o], o, c, q, l, w)
      BY <1>10, <3>1
    <3> QED BY <1>8, <2>4, <2>24, <2>26, <3>2, DataStep
  <2>32. Becomes(t)
    BY <2>2, <2>3, <2>23
  <2> QED BY <2>31, <2>32, Became
<1> QED BY <1>11, <1>12

LEMMA LookingCleared ==
  ASSUME NEW r \in VpnConnection, NEW q, q = [r EXCEPT !.looking = FALSE]
  PROVE  SameButFlags(r, q) /\ ~q.looking
<1>1. q \in VpnConnection
  BY Zenon DEF VpnConnection
<1>2. /\ q.cid = r.cid /\ q.sid = r.sid /\ q.up = r.up /\ q.st = r.st
      /\ q.proto = r.proto /\ q.mig = r.mig /\ q.first = r.first /\ q.fakec = r.fakec /\ q.closed = r.closed
      /\ q.task = r.task /\ q.buf = r.buf /\ ~q.looking
  BY Zenon DEF VpnConnection
<1> QED BY <1>1, <1>2 DEF SameButFlags

LEMMA SameFlagsStep ==
  ASSUME NEW s, TunnelOK(s), NEW o \in Objs, NEW q, s.conn[o] # NON, SameButFlags(s.conn[o], q)
  PROVE  TunnelOK([s EXCEPT !.conn[o] = q]) /\ ConnSet(s, [s EXCEPT !.conn[o] = q], o, q)
<1>1. s \in TunnelState /\ q \in VpnConnection
  BY DEF TunnelOK, SameButFlags
<1>2. ConnSet(s, [s EXCEPT !.conn[o] = q], o, q)
  BY <1>1, ConnectionSet
<1> QED BY <1>2, RecordStep

LEMMA UpsStateSet ==
  ASSUME NEW s \in TunnelState, NEW x \in Sids, NEW e \in {"unused", "opening", "aborting", "open", "closing", "gone"},
         NEW t, t = [s EXCEPT !.ups[x].st = e], NEW g, g = [s.ups[x] EXCEPT !.st = e]
  PROVE  UpsSet(s, t, x, g) /\ g \in UpstreamConn /\ g.st = e /\ g.u = s.ups[x].u
<1>1. s.ups[x] \in UpstreamConn
  BY UpsFields
<1>2. g \in UpstreamConn /\ g.st = e /\ g.u = s.ups[x].u
  BY <1>1, Zenon DEF UpstreamConn
<1>3. t = [s EXCEPT !.ups[x] = g]
  OBVIOUS
<1> QED BY <1>2, <1>3, UpstreamSet

\* An upstream moves on with a connection, whoever carries it.
LEMMA UpsStateStep ==
  ASSUME NEW s, TunnelOK(s), NEW x \in Sids, NEW e \in {"open", "closing"}, NEW t, t = [s EXCEPT !.ups[x].st = e],
         s.ups[x].st # "gone"
  PROVE  TunnelOK(t) /\ FadedAt(s, t, x)
<1>1. PICK g : g = [s.ups[x] EXCEPT !.st = e]
  OBVIOUS
<1>2. s \in TunnelState /\ e \in {"unused", "opening", "aborting", "open", "closing", "gone"}
  BY DEF TunnelOK
<1>3. UpsSet(s, t, x, g) /\ g.st = e /\ g.u = s.ups[x].u
  BY <1>1, <1>2, UpsStateSet
<1>4. Fades(s.ups, t.ups)
  BY <1>3, SMT DEF Fades, UpsSet
<1>5. FadedAt(s, t, x)
  BY <1>3, <1>4, Zenon DEF FadedAt, UpsSet
<1> QED BY <1>5, FadedOK

LEMMA ServerFiled ==
  ASSUME NEW s, TunnelOK(s), NEW x \in Sids, NEW o, s.byServer[x] = o, o # NON
  PROVE  o \in Objs /\ s.conn[o] # NON /\ s.conn[o].sid = x /\ s.conn[o] \in VpnConnection /\ s \in TunnelState
<1>1. s \in TunnelState /\ SrvOK(s, x)
  BY Zenon DEF TunnelOK
<1>2. s.byServer[x] \in Objs \cup {NON}
  BY <1>1, StateFields, Zenon
<1>3. o \in Objs
  BY <1>2
<1>4. s.conn[o] # NON /\ s.conn[o].sid = x
  BY <1>1, Zenon DEF SrvOK
<1> QED BY <1>1, <1>3, <1>4, LiveConn

LEMMA UpstreamReadStep ==
  ASSUME TunnelOK(State), NEW x \in Sids, UpstreamRead(x)
  PROVE  TunnelOK(State)'
<1>1. PICK s : s = State
  OBVIOUS
<1>2. PICK o : o = s.byServer[x]
  OBVIOUS
<1>3. PICK r : r = s.conn[o]
  OBVIOUS
<1>4. PICK c : c = r.cid
  OBVIOUS
<1>5. TunnelOK(s) /\ s \in TunnelState /\ byServer[x] = o /\ conn[o] = r /\ r.cid = c
  BY <1>1, <1>2, <1>3, <1>4, StateIs, Zenon DEF TunnelOK
<1>6. ups[x].st = "open" /\ o # NON /\ c # NON /\ s.byClient[c] = o /\ s.ups[x].st = "open"
  BY <1>1, <1>5, StateIs, Zenon DEF UpstreamRead
<1>7. o \in Objs
  BY <1>2, <1>5, <1>6, ServerFiled
<1>8. r # NON
  BY <1>2, <1>3, <1>5, <1>6, ServerFiled
<1>9. r \in VpnConnection /\ c \in Cids
  BY <1>3, <1>4, <1>5, <1>6, <1>7, <1>8, LiveConn, ConnFields, Zenon
<1>10. \/ Becomes([s EXCEPT !.conn[o].looking = FALSE])
       \/ Becomes(CloseClientSideConnection(s, o, TRUE, FALSE))
       \/ Becomes([s EXCEPT !.lsn[c].unsent = @ \/ (r.proto = "tcp" /\ lsn[c].st = "open")])
       \/ Becomes([s EXCEPT !.ups[x].st = "closing"])
  BY <1>1, <1>5, Zenon DEF UpstreamRead
<1>11. CASE Becomes([s EXCEPT !.conn[o].looking = FALSE])
  <2>1. PICK q : q = [r EXCEPT !.looking = FALSE]
    OBVIOUS
  <2>2. SameButFlags(r, q)
    BY <1>9, <2>1, LookingCleared
  <2>3. TunnelOK([s EXCEPT !.conn[o] = q])
    BY <1>3, <1>5, <1>7, <1>8, <2>2, SameFlagsStep
  <2>4. [s EXCEPT !.conn[o] = q] = [s EXCEPT !.conn[o].looking = FALSE]
    BY <1>3, <2>1
  <2> QED BY <1>11, <2>3, <2>4, Became
<1>12. CASE Becomes(CloseClientSideConnection(s, o, TRUE, FALSE))
  BY <1>5, <1>6, <1>9, <1>12, SyncCloseOK, Became
<1>13. CASE Becomes([s EXCEPT !.lsn[c].unsent = @ \/ (r.proto = "tcp" /\ lsn[c].st = "open")])
  <2>1. PICK b : b = (s.lsn[c].unsent \/ (r.proto = "tcp" /\ lsn[c].st = "open"))
    OBVIOUS
  <2>2. PICK l : l = [s.lsn[c] EXCEPT !.unsent = b]
    OBVIOUS
  <2>3. s.lsn[c] \in ListenerConn /\ b \in BOOLEAN
    <3>1. s.lsn[c] \in ListenerConn /\ s.lsn[c].unsent \in BOOLEAN
      BY <1>5, <1>9, LsnFields
    <3> QED BY <2>1, <3>1
  <2>4. l \in ListenerConn /\ l.unsent = b /\ l.st = s.lsn[c].st /\ l.reads = s.lsn[c].reads /\ l.pos = s.lsn[c].pos
    BY <2>2, <2>3, UnsentSet
  <2>5. LsnSet(s, [s EXCEPT !.lsn[c] = l], c, l)
    BY <1>5, <1>9, <2>4, ListenerSet
  <2>6. ObjOK(s, o) /\ CliOK(s, c)
    BY <1>5, <1>7, <1>9, Zenon DEF TunnelOK
  <2>7. /\ l.st # "none" /\ (r.proto = "udp" => ~s.lsn[c].unsent)
        /\ (r.st = "CONNECTED_MIGRATING" /\ r.proto = "tcp" /\ r.looking => ~s.lsn[c].reads)
    BY <1>3, <1>4, <1>6, <1>8, <2>4, <2>6, Zenon DEF ObjOK, CliOK, CliBase
  <2>8. r.proto = "udp" => ~l.unsent
    BY <2>1, <2>4, <2>7
  <2>9. TunnelOK([s EXCEPT !.lsn[c] = l])
    BY <1>3, <1>5, <1>6, <1>9, <2>4, <2>5, <2>7, <2>8, ListenerStep
  <2>10. [s EXCEPT !.lsn[c] = l] = [s EXCEPT !.lsn[c].unsent = @ \/ (r.proto = "tcp" /\ lsn[c].st = "open")]
    BY <2>1, <2>2
  <2> QED BY <1>13, <2>9, <2>10, Became
<1>14. CASE Becomes([s EXCEPT !.ups[x].st = "closing"])
  <2>1. TunnelOK([s EXCEPT !.ups[x].st = "closing"])
    BY <1>5, <1>6, UpsStateStep
  <2> QED BY <1>14, <2>1, Became
<1> QED BY <1>10, <1>11, <1>12, <1>13, <1>14

LEMMA UpstreamDataSentStep ==
  ASSUME TunnelOK(State), NEW x \in Sids, UpstreamDataSent(x)
  PROVE  TunnelOK(State)'
<1>1. PICK s : s = State
  OBVIOUS
<1>2. PICK o : o = s.byServer[x]
  OBVIOUS
<1>3. PICK r : r = s.conn[o]
  OBVIOUS
<1>4. PICK c : c = r.cid
  OBVIOUS
<1>5. TunnelOK(s) /\ s \in TunnelState /\ byServer[x] = o /\ conn[o] = r /\ r.cid = c
  BY <1>1, <1>2, <1>3, <1>4, StateIs, Zenon DEF TunnelOK
<1>6. o # NON /\ c # NON /\ r.st = "CONNECTED"
  BY <1>5, Zenon DEF UpstreamDataSent
<1>7. o \in Objs
  BY <1>2, <1>5, <1>6, ServerFiled
<1>8. r # NON
  BY <1>2, <1>3, <1>5, <1>6, ServerFiled
<1>9. r \in VpnConnection /\ c \in Cids
  BY <1>3, <1>4, <1>5, <1>6, <1>7, <1>8, LiveConn, ConnFields, Zenon
<1>25. PICK on \in BOOLEAN : Becomes([TurnRead(State, c, on) EXCEPT !.conn[o].sending = r.buf # <<>>])
  BY <1>5, Zenon DEF UpstreamDataSent
<1>10. PICK l : l = [s.lsn[c] EXCEPT !.reads = on]
  OBVIOUS
<1>11. s.lsn[c] \in ListenerConn
  BY <1>5, <1>9, LsnFields
<1>12. l \in ListenerConn /\ l.st = s.lsn[c].st /\ l.unsent = s.lsn[c].unsent /\ l.pos = s.lsn[c].pos
  BY <1>10, <1>11, Zenon DEF ListenerConn
<1>13. PICK t : t = [s EXCEPT !.lsn[c] = l]
  OBVIOUS
<1>14. LsnSet(s, t, c, l)
  BY <1>5, <1>9, <1>12, <1>13, ListenerSet
<1>15. ObjOK(s, o) /\ CliOK(s, c) /\ Alone(s) /\ Carries(s, o, c, r.sid)
  BY <1>3, <1>5, <1>7, <1>8, <1>9, Owner, Zenon DEF TunnelOK
<1>16. Resting(s, c)
  BY <1>3, <1>5, <1>6, <1>7, <1>8, <1>15, SMT DEF Resting, Alone
<1>17. s.byClient[c] \in {o, NON} /\ l.st # "none"
  BY <1>3, <1>5, <1>6, <1>8, <1>12, <1>15, Zenon DEF Carries, ObjOK
<1>18. s.byClient[c] # NON => s.conn[s.byClient[c]] = r /\ (r.proto = "udp" => ~l.unsent)
  BY <1>3, <1>12, <1>15, <1>17, Zenon DEF CliOK, CliBase
<1>19. TunnelOK(t)
  BY <1>5, <1>6, <1>9, <1>12, <1>14, <1>16, <1>17, <1>18, ListenerStep
<1>20. t.conn[o] = r
  BY <1>3, <1>14 DEF LsnSet
<1>21. PICK q : q = [r EXCEPT !.sending = (r.buf # <<>>)]
  OBVIOUS
<1>22. SameButFlags(r, q)
  <2>1. PICK b : b = (r.buf # <<>>)
    OBVIOUS
  <2>2. b \in BOOLEAN /\ q = [r EXCEPT !.sending = b]
    BY <1>21, <2>1
  <2> QED BY <1>9, <2>2, SendingCleared
<1>23. TunnelOK([t EXCEPT !.conn[o] = q])
  BY <1>7, <1>8, <1>19, <1>20, <1>22, SameFlagsStep
<1>24. Becomes([t EXCEPT !.conn[o] = q])
  <2>1. TurnRead(State, c, on) = t
    BY <1>1, <1>10, <1>13 DEF TurnRead
  <2>2. Becomes([t EXCEPT !.conn[o].sending = (r.buf # <<>>)])
    BY <1>25, <2>1, Zenon
  <2> QED BY <1>20, <1>21, <2>2
<1> QED BY <1>23, <1>24, Became

-----------------------------------------------------------------------------
(* The events of the upstreams.                                            *)

\* v is s without the entry of x; the listener may have been told to stop reading from c.
ServerLost(s, v, c, x) ==
    /\ v \in TunnelState /\ v.byServer[x] = NON /\ \A y \in Sids : y # x => v.byServer[y] = s.byServer[y]
    /\ v.conn = s.conn /\ v.byClient = s.byClient /\ v.waiters = s.waiters /\ v.app = s.app
    /\ v.ups = s.ups /\ v.wire = s.wire /\ \A d \in Cids : d # c => v.lsn[d] = s.lsn[d]
    /\ v.lsn[c].st = s.lsn[c].st /\ v.lsn[c].unsent = s.lsn[c].unsent /\ v.lsn[c].pos = s.lsn[c].pos
    /\ v.lsn[c].reads => s.lsn[c].reads

LEMMA LostCloseOK ==
  ASSUME NEW s, TunnelOK(s), NEW x \in Sids, NEW o, s.byServer[x] = o, o # NON, s.ups[x].st \notin {"opening", "aborting"},
         NEW c, c = s.conn[o].cid, c # NON, s.byClient[c] # NON, NEW v, ServerLost(s, v, c, x), NEW graceful \in BOOLEAN
  PROVE  TunnelOK(CloseClientSideConnection(v, o, graceful, FALSE))
<1>1. PICK r : r = s.conn[o]
  OBVIOUS
<1>2. o \in Objs /\ r # NON /\ r.sid = x /\ r \in VpnConnection /\ s \in TunnelState
  BY <1>1, ServerFiled
<1>3. c \in Cids /\ x # NON
  BY <1>1, <1>2, ConnFields, Apartness, Zenon
<1>4. Carries(s, o, c, x)
  BY <1>1, <1>2, Owner
<1>5. s.byClient[c] = o
  BY <1>4, Zenon DEF Carries
<1>6. /\ v \in TunnelState /\ v.byServer[x] = NON /\ \A y \in Sids : y # x => v.byServer[y] = s.byServer[y]
      /\ v.conn = s.conn /\ v.byClient = s.byClient /\ v.waiters = s.waiters /\ v.app = s.app
      /\ v.ups = s.ups /\ v.wire = s.wire /\ \A d \in Cids : d # c => v.lsn[d] = s.lsn[d]
      /\ v.lsn[c].st = s.lsn[c].st /\ v.lsn[c].unsent = s.lsn[c].unsent /\ v.lsn[c].pos = s.lsn[c].pos
      /\ v.lsn[c].reads => s.lsn[c].reads
  BY DEF ServerLost
<1>7. ObjOK(s, o) /\ (~EarlyAck => FakeOK(s, o)) /\ CliBase(s, c)
  BY <1>2, <1>3, Zenon DEF TunnelOK, CliOK
<1>8. Settled(v, o, c, x)
  <2>1. Carries(v, o, c, x)
    BY <1>1, <1>2, <1>4, <1>6, Zenon DEF Carries
  <2>2. ObjOK(v, o)
    <3>1. r.mig = NON /\ r.cid = c
      BY <1>1, <1>2, <1>3, <1>7, Zenon DEF ObjOK
    <3> QED BY <1>1, <1>2, <1>3, <1>5, <1>6, <1>7, <3>1, SMTT(60) DEF ObjOK
  <2>3. ~EarlyAck => FakeOK(v, o)
    BY <1>1, <1>6, <1>7, SMT DEF FakeOK
  <2>4. CliBase(v, c)
    <3>1. v.wire[c] = s.wire[c] /\ v.lsn[c].pos = s.lsn[c].pos /\ v.byClient[c] = o /\ v.conn[o] = r
      BY <1>1, <1>5, <1>6
    <3>2. r.proto = "tcp" /\ r.st # "CONNECTED_MIGRATING" => s.wire[c] \o r.buf = Counted(s.lsn[c].pos - 1)
      BY <1>1, <1>5, <1>7, Zenon DEF CliBase
    <3>3. /\ r # NON /\ r.cid = c /\ s.lsn[c].st \notin {"none", "closed"} /\ ~(c \in s.app /\ c \in s.waiters)
          /\ s.lsn[c].st = "passed" => r.st = "WAITING_ACCEPT"
          /\ s.lsn[c].st = "open" => r.st \in {"CONNECTED", "CONNECTED_MIGRATING"}
          /\ r.proto = "udp" => ~s.lsn[c].unsent
      BY <1>1, <1>5, <1>7, Zenon DEF CliBase
    <3> QED BY <1>6, <3>1, <3>2, <3>3, Zenon DEF CliBase
  <2>5. SrvOK(v, x)
    BY <1>6, Zenon DEF SrvOK
  <2> QED BY <1>1, <1>2, <1>5, <1>6, <1>7, <2>1, <2>2, <2>3, <2>4, <2>5, Zenon DEF Settled
<1>9. PICK t : t = CloseClientSideConnection(v, o, graceful, FALSE)
  OBVIOUS
<1>10. WorksOut(v, t, o, c, x)
  BY <1>2, <1>3, <1>8, <1>9, CloseClientSideWorks
<1>11. Changed(s, v, o, c, x)
  BY <1>6, Zenon DEF Changed
<1>12. MovesLeft(s, v, o, c)
  BY <1>1, <1>2, <1>5, <1>6, Zenon DEF MovesLeft
<1>13. WorksOut(s, t, o, c, x)
  BY <1>2, <1>3, <1>6, <1>10, <1>11, <1>12, WorksThrough
<1>14. TunnelOK(t)
  BY <1>1, <1>2, <1>3, <1>5, <1>13, FiledStep
<1> QED BY <1>9, <1>14

\* The connection of an upstream that has ended it and that no client holds is deleted.
LEMMA DestroyOK ==
  ASSUME NEW s, TunnelOK(s), NEW x \in Sids, NEW o, s.byServer[x] = o, o # NON, s.ups[x].st \notin {"opening", "aborting"},
         s.conn[o].cid = NON \/ s.byClient[s.conn[o].cid] = NON
  PROVE  TunnelOK(DestroyConnection(s, o))
<1>1. PICK r : r = s.conn[o]
  OBVIOUS
<1>2. o \in Objs /\ r # NON /\ r.sid = x /\ r \in VpnConnection /\ s \in TunnelState
  BY <1>1, ServerFiled
<1>3. PICK c : c = r.cid
  OBVIOUS
<1>4. c \in Cids \cup {NON} /\ x # NON /\ x \in Sids \cup {NON}
  BY <1>2, <1>3, ConnFields, Apartness, Zenon
<1>5. Carries(s, o, c, x) /\ Apart(s, o, c, x)
  BY <1>1, <1>2, <1>3, Owner
<1>6. PICK t : t = DestroyConnection(s, o)
  OBVIOUS
<1>7. Without(s, t, o, r)
  BY <1>1, <1>2, <1>6, Destroyed
<1>8. /\ t \in TunnelState
      /\ t.conn[o] = NON /\ \A p \in Objs : p # o => t.conn[p] = s.conn[p]
      /\ \A d \in Cids : t.byClient[d] = IF d = c THEN NON ELSE s.byClient[d]
      /\ \A y \in Sids : t.byServer[y] = IF y = x THEN NON ELSE s.byServer[y]
      /\ t.waiters \subseteq s.waiters /\ \A d \in Cids : d # c => (d \in t.waiters <=> d \in s.waiters)
      /\ t.ep = s.ep /\ t.app = s.app /\ t.lsn = s.lsn /\ t.ups = s.ups /\ t.wire = s.wire
  BY <1>2, <1>3, <1>7 DEF Without
<1>9. Changed(s, t, o, c, x)
  BY <1>8, Zenon DEF Changed
<1>10. c # NON => t.byClient[c] = NON
  BY <1>4, <1>8, Zenon
<1>11. t.byServer[x] = NON
  BY <1>8, Zenon
<1>12. Carries(t, o, c, x)
  BY <1>8, <1>10, <1>11, Zenon DEF Carries
<1>13. MovesLeft(s, t, o, c)
  BY <1>8, <1>10, Zenon DEF MovesLeft
<1>14. ASSUME NEW d \in Cids PROVE MovesOK(t, d)
  <2>1. CliOK(s, d) /\ MovesOK(s, d)
    BY Zenon DEF TunnelOK
  <2>2. s.conn[o] # NON => s.conn[o].cid \in {c, NON}
    BY <1>1, <1>3
  <2> QED BY <1>2, <1>4, <1>8, <1>9, <1>13, <2>1, <2>2, MovesKept
<1>15. ObjOK(t, o) /\ FakeOK(t, o)
  BY <1>8, Zenon DEF ObjOK, FakeOK
<1>16. ASSUME c # NON PROVE CliOK(t, c) /\ t.lsn[c].st # "none"
  <2>1. c \in Cids
    BY <1>4, <1>16
  <2>2. ObjOK(s, o) /\ CliBase(s, c)
    BY <1>2, <2>1, Zenon DEF TunnelOK, CliOK
  <2>3. s.lsn[c].st # "none" /\ ~(c \in s.app /\ c \in s.waiters)
    BY <1>1, <1>2, <1>3, <1>16, <2>2, Zenon DEF ObjOK, CliBase
  <2>4. t.lsn[c].st # "none" /\ ~(c \in t.app /\ c \in t.waiters) /\ t.byClient[c] = NON
    BY <1>8, <1>10, <1>16, <2>3
  <2> QED BY <2>4, Zenon DEF CliOK, CliBase, CliBacked
<1>17. SrvOK(t, x)
  BY <1>8, <1>11, Zenon DEF SrvOK
<1>18. o \in Cids /\ o # c => s.lsn[o].st # "none"
  BY <1>1, <1>2, Zenon DEF TunnelOK, CliOK, CliBase
<1>19. \A d \in Cids : MovesOK(t, d)
  BY <1>14
<1>20. c # NON => CliOK(t, c) /\ (t.lsn[c].st = "none" => s.lsn[c].st = "none")
  BY <1>16
<1>21. TunnelOK(t)
  BY <1>2, <1>4, <1>5, <1>8, <1>9, <1>12, <1>15, <1>17, <1>18, <1>19, <1>20, ClusterStep
<1> QED BY <1>6, <1>21

LEMMA ConnectionClosedOK ==
  ASSUME NEW s, TunnelOK(s), NEW x \in Sids, s.ups[x].st \notin {"opening", "aborting"}
  PROVE  TunnelOK(OnConnectionClosed(s, x))
<1>1. PICK o : o = s.byServer[x]
  OBVIOUS
<1>2. CASE o = NON
  BY <1>1, <1>2, Zenon DEF OnConnectionClosed
<1>3. CASE o # NON
  <2>1. PICK r : r = s.conn[o]
    OBVIOUS
  <2>2. PICK c : c = r.cid
    OBVIOUS
  <2>3. o \in Objs /\ r # NON /\ r.sid = x /\ r \in VpnConnection /\ s \in TunnelState
    BY <1>1, <1>3, <2>1, ServerFiled
  <2>4. CASE c # NON /\ s.byClient[c] # NON
    <3>1. c \in Cids
      BY <2>2, <2>3, <2>4, ConnFields, Zenon
    <3>2. PICK v1 : v1 = [s EXCEPT !.byServer[x] = NON]
      OBVIOUS
    <3>3. SrvSet(s, v1, x, NON)
      BY <2>3, <3>2, ServerTableSet
    <3>4. v1 \in TunnelState /\ v1.lsn = s.lsn
      BY <3>3 DEF SrvSet
    <3>5. PICK l : l = [s.lsn[c] EXCEPT !.reads = FALSE]
      OBVIOUS
    <3>6. s.lsn[c] \in ListenerConn
      BY <2>3, <3>1, LsnFields
    <3>7. l \in ListenerConn /\ l.st = s.lsn[c].st /\ l.unsent = s.lsn[c].unsent /\ l.pos = s.lsn[c].pos /\ ~l.reads
      BY <3>5, <3>6, Zenon DEF ListenerConn
    <3>8. PICK v : v = [v1 EXCEPT !.lsn[c] = l]
      OBVIOUS
    <3>9. LsnSet(v1, v, c, l)
      BY <3>1, <3>4, <3>7, <3>8, ListenerSet
    <3>10. ServerLost(s, v, c, x)
      BY <3>3, <3>7, <3>9, SMT DEF ServerLost, SrvSet, LsnSet
    <3>11. TunnelOK(CloseClientSideConnection(v, o, TRUE, FALSE))
      BY <1>1, <1>3, <2>1, <2>2, <2>4, <3>10, LostCloseOK
    <3>12. v = TurnRead([s EXCEPT !.byServer[x] = NON], c, FALSE)
      BY <3>2, <3>4, <3>5, <3>8 DEF TurnRead
    <3>13. OnConnectionClosed(s, x) = CloseClientSideConnection(v, o, TRUE, FALSE)
      BY <1>1, <1>3, <2>1, <2>2, <2>4, <3>12, Zenon DEF OnConnectionClosed
    <3> QED BY <3>11, <3>13
  <2>5. CASE ~(c # NON /\ s.byClient[c] # NON)
    <3>1. TunnelOK(DestroyConnection(s, o))
      BY <1>1, <1>3, <2>1, <2>2, <2>5, DestroyOK
    <3>2. OnConnectionClosed(s, x) = DestroyConnection(s, o)
      BY <1>1, <1>3, <2>1, <2>2, <2>5, Zenon DEF OnConnectionClosed
    <3> QED BY <3>1, <3>2
  <2> QED BY <2>4, <2>5
<1> QED BY <1>2, <1>3

\* The upstream has ended x.
LEMMA GoneOK ==
  ASSUME NEW s, TunnelOK(s), NEW x \in Sids, NEW t, t = [s EXCEPT !.ups[x].st = "gone"]
  PROVE  TunnelOK(t) /\ t.ups[x].st = "gone" /\ FadedAt(s, t, x)
<1>1. PICK g : g = [s.ups[x] EXCEPT !.st = "gone"]
  OBVIOUS
<1>2. s \in TunnelState
  BY DEF TunnelOK
<1>3. UpsSet(s, t, x, g) /\ g.st = "gone" /\ g.u = s.ups[x].u
  BY <1>1, <1>2, UpsStateSet
<1>4. Fades(s.ups, t.ups) /\ t.ups[x].st = "gone"
  BY <1>3, SMT DEF Fades, UpsSet
<1>5. FadedAt(s, t, x)
  BY <1>3, <1>4, Zenon DEF FadedAt, UpsSet
<1> QED BY <1>4, <1>5, FadedOK

LEMMA UpstreamClosedStep ==
  ASSUME TunnelOK(State), NEW x \in Sids, UpstreamClosed(x)
  PROVE  TunnelOK(State)'
<1>1. PICK t : t = [State EXCEPT !.ups[x].st = "gone"]
  OBVIOUS
<1>2. TunnelOK(t) /\ t.ups[x].st = "gone"
  BY <1>1, GoneOK
<1>3. TunnelOK(OnConnectionClosed(t, x))
  BY <1>2, ConnectionClosedOK
<1>4. Becomes(OnConnectionClosed(t, x))
  BY <1>1, Zenon DEF UpstreamClosed
<1> QED BY <1>3, <1>4, Became

LEMMA UpstreamErrorStep ==
  ASSUME TunnelOK(State), NEW x \in Sids, UpstreamError(x)
  PROVE  TunnelOK(State)'
<1>0. PICK u : u = ups[x].u
  OBVIOUS
<1>1. PICK s : s = [State EXCEPT !.ups[x].st = "gone"]
  OBVIOUS
<1>2. TunnelOK(s) /\ s.ups[x].st = "gone" /\ s \in TunnelState
  BY <1>1, GoneOK DEF TunnelOK
<1>3. Becomes(OnConnectionError(s, u, x))
  BY <1>0, <1>1, Zenon DEF UpstreamError
<1>4. PICK o : o = s.byServer[x]
  OBVIOUS
<1>5. PICK r : r = s.conn[o]
  OBVIOUS
<1>6. CASE o = NON
  <2>1. OnConnectionError(s, u, x) = s
    BY <1>4, <1>6, Zenon DEF OnConnectionError
  <2> QED BY <1>2, <1>3, <2>1, Became
<1>7. CASE o # NON /\ r.st = "WAITING_RESPONSE_MIGRATING"
  <2>1. PICK t : t = IF s.byClient[r.mig] = NON THEN s ELSE CloseAsync(s, u, s.conn[s.byClient[r.mig]].sid)
    OBVIOUS
  <2>2. OnConnectionError(s, u, x) = CloseAsync(t, r.up, x)
    BY <1>4, <1>5, <1>7, <2>1, Zenon DEF OnConnectionError
  <2>3. o \in Objs /\ r # NON /\ r \in VpnConnection
    BY <1>2, <1>4, <1>5, <1>7, ServerFiled
  <2>4. r.mig \in Cids
    <3>1. ObjOK(s, o)
      BY <1>2, <2>3, Zenon DEF TunnelOK
    <3> QED BY <1>5, <1>7, <2>3, <3>1, ConnFields, Zenon DEF ObjOK
  <2>5. TunnelOK(t)
    <3>1. CASE s.byClient[r.mig] = NON
      BY <1>2, <2>1, <3>1
    <3>2. CASE s.byClient[r.mig] # NON
      <4>1. PICK y : y = s.conn[s.byClient[r.mig]].sid
        OBVIOUS
      <4>2. y \in Sids \cup {NON}
        <5>1. s.byClient[r.mig] \in Objs /\ s.conn[s.byClient[r.mig]] # NON
          BY <1>2, <2>4, <3>2, SettledOf
        <5> QED BY <1>2, <4>1, <5>1, LiveConn, ConnFields, Zenon
      <4>3. FadedAt(s, t, y)
        BY <1>2, <2>1, <3>2, <4>1, <4>2, AsyncClosed
      <4> QED BY <1>2, <4>3, FadedOK
    <3> QED BY <3>1, <3>2
  <2>6. t \in TunnelState /\ x \in Sids \cup {NON}
    BY <2>5 DEF TunnelOK
  <2>7. FadedAt(t, CloseAsync(t, r.up, x), x)
    BY <2>6, AsyncClosed
  <2>8. TunnelOK(CloseAsync(t, r.up, x))
    BY <2>5, <2>7, FadedOK
  <2> QED BY <1>3, <2>2, <2>8, Became
<1>8. CASE o # NON /\ r.st # "WAITING_RESPONSE_MIGRATING"
  <2>1. PICK c : c = r.cid
    OBVIOUS
  <2>2. CASE c # NON /\ s.byClient[c] # NON
    <3>1. PICK v : v = [s EXCEPT !.byServer[x] = NON]
      OBVIOUS
    <3>2. SrvSet(s, v, x, NON)
      BY <1>2, <3>1, ServerTableSet
    <3>3. ServerLost(s, v, c, x)
      BY <3>2, Zenon DEF ServerLost, SrvSet
    <3>4. TunnelOK(CloseClientSideConnection(v, o, FALSE, FALSE))
      BY <1>2, <1>4, <1>5, <1>8, <2>1, <2>2, <3>3, LostCloseOK
    <3>5. OnConnectionError(s, u, x) = CloseClientSideConnection(v, o, FALSE, FALSE)
      BY <1>4, <1>5, <1>8, <2>1, <2>2, <3>1, Zenon DEF OnConnectionError
    <3> QED BY <1>3, <3>4, <3>5, Became
  <2>3. CASE ~(c # NON /\ s.byClient[c] # NON)
    <3>1. TunnelOK(DestroyConnection(s, o))
      BY <1>2, <1>4, <1>5, <1>8, <2>1, <2>3, DestroyOK
    <3>2. OnConnectionError(s, u, x) = DestroyConnection(s, o)
      BY <1>4, <1>5, <1>8, <2>1, <2>3, Zenon DEF OnConnectionError
    <3> QED BY <1>3, <3>1, <3>2, Became
  <2> QED BY <2>2, <2>3
<1> QED BY <1>6, <1>7, <1>8

LEMMA UnfiledConn ==
  ASSUME NEW s, TunnelOK(s), NEW o \in Objs, NEW r, r = s.conn[o], r # NON, r.cid = NON \/ s.byClient[r.cid] = NON,
         NEW t, NEW q \in VpnConnection, ConnSet(s, t, o, q), q.cid = r.cid, q.sid = r.sid, q.mig = NON,
         ObjOK(t, o), ~EarlyAck => FakeOK(t, o)
  PROVE  TunnelOK(t)
<1>1. /\ t \in TunnelState /\ t.conn[o] = q /\ \A p \in Objs : p # o => t.conn[p] = s.conn[p]
      /\ t.byClient = s.byClient /\ t.byServer = s.byServer /\ t.waiters = s.waiters /\ t.app = s.app
      /\ t.lsn = s.lsn /\ t.ups = s.ups /\ t.wire = s.wire
  BY DEF ConnSet
<1>2. s \in TunnelState /\ q # NON /\ r \in VpnConnection
  BY LiveConn, Apartness, Zenon DEF TunnelOK
<1>3. r.cid \in Cids \cup {NON} /\ r.sid \in Sids \cup {NON}
  BY <1>2, ConnFields, Zenon
<1>4. Carries(s, o, r.cid, r.sid) /\ Apart(s, o, r.cid, r.sid)
  BY Owner
<1>5. Changed(s, t, o, r.cid, r.sid)
  BY <1>1, Zenon DEF Changed
<1>6. Carries(t, o, r.cid, r.sid)
  BY <1>1, <1>4, Zenon DEF Carries
<1>7. MovesLeft(s, t, o, r.cid)
  BY <1>1, Zenon DEF MovesLeft
<1>8. ASSUME NEW d \in Cids PROVE MovesOK(t, d)
  <2>1. CliOK(s, d) /\ MovesOK(s, d)
    BY Zenon DEF TunnelOK
  <2> QED BY <1>1, <1>2, <1>3, <1>5, <1>7, <2>1, MovesKept
<1>9. ASSUME r.cid # NON PROVE CliOK(t, r.cid)
  <2>1. r.cid \in Cids
    BY <1>3, <1>9
  <2>2. CliOK(s, r.cid) /\ ObjOK(s, o)
    BY <2>1, Zenon DEF TunnelOK
  <2>3. t.byClient[r.cid] = NON /\ s.lsn[r.cid].st # "none"
    BY <1>1, <1>9, <2>2, Zenon DEF ObjOK
  <2> QED BY <1>1, <2>2, <2>3, Zenon DEF CliOK, CliBase, CliBacked
<1>10. ASSUME r.sid # NON PROVE SrvOK(t, r.sid)
  <2>1. r.sid \in Sids /\ s.byServer[r.sid] \in {o, NON}
    BY <1>3, <1>4, <1>10, Zenon DEF Carries
  <2>2. SrvOK(s, r.sid)
    BY <2>1, Zenon DEF TunnelOK
  <2> QED BY <1>1, <1>2, <2>1, <2>2, SMT DEF SrvOK
<1>11. o \in Cids /\ o # r.cid => s.lsn[o].st # "none"
  BY <1>2, Zenon DEF TunnelOK, CliOK, CliBase
<1>12. \A d \in Cids : MovesOK(t, d)
  BY <1>8
<1>13. r.cid # NON => CliOK(t, r.cid) /\ (t.lsn[r.cid].st = "none" => s.lsn[r.cid].st = "none")
  BY <1>1, <1>9
<1> QED BY <1>1, <1>3, <1>4, <1>5, <1>6, <1>10, <1>11, <1>12, <1>13, ClusterStep

\* The result is told to a listener that waits for it.
LEMMA AnswerSet ==
  ASSUME NEW s \in TunnelState, NEW c \in Cids, NEW pass \in BOOLEAN, NEW l, l = s.lsn[c], NEW m,
         m = IF l.st # "asked" THEN l ELSE [l EXCEPT !.st = IF pass THEN "passed" ELSE "rejected"]
  PROVE  /\ LsnSet(s, Answer(s, c, pass), c, m) /\ m \in ListenerConn
         /\ m.st = (IF l.st # "asked" THEN l.st ELSE IF pass THEN "passed" ELSE "rejected")
         /\ m.reads = l.reads /\ m.unsent = l.unsent /\ m.pos = l.pos
<1>1. l \in ListenerConn
  BY LsnFields
<1>2. PICK v : v = IF pass THEN "passed" ELSE "rejected"
  OBVIOUS
<1>3. v \in ListenerStates
  BY <1>2 DEF ListenerStates
<1>4. CASE l.st # "asked"
  <2>1. m = l /\ Answer(s, c, pass) = s
    BY <1>4 DEF Answer
  <2>2. LsnSet(s, s, c, l)
    BY Zenon DEF LsnSet
  <2> QED BY <1>1, <1>4, <2>1, <2>2
<1>5. CASE l.st = "asked"
  <2>1. m = [l EXCEPT !.st = v]
    BY <1>2, <1>5
  <2>2. m \in ListenerConn /\ m.st = v /\ m.reads = l.reads /\ m.unsent = l.unsent /\ m.pos = l.pos
    BY <1>1, <1>3, <2>1, Zenon DEF ListenerConn
  <2>3. Answer(s, c, pass) = [s EXCEPT !.lsn[c] = m]
    BY <1>2, <1>5, <2>1 DEF Answer
  <2>4. LsnSet(s, [s EXCEPT !.lsn[c] = m], c, m)
    BY <2>2, ListenerSet
  <2> QED BY <1>2, <1>5, <2>2, <2>3, <2>4
<1> QED BY <1>4, <1>5

LEMMA ResponseOK ==
  ASSUME NEW s, TunnelOK(s), NEW x \in Sids, NEW o, s.byServer[x] = o, o # NON, s.conn[o].st = "WAITING_RESPONSE"
  PROVE  TunnelOK(Answer([s EXCEPT !.conn[o].st = "WAITING_ACCEPT"], s.conn[o].cid, TRUE))
<1>1. PICK r : r = s.conn[o]
  OBVIOUS
<1>2. o \in Objs /\ r # NON /\ r.sid = x /\ r \in VpnConnection /\ s \in TunnelState
  BY <1>1, ServerFiled
<1>3. ObjOK(s, o) /\ (~EarlyAck => FakeOK(s, o))
  BY <1>2, Zenon DEF TunnelOK
<1>4. PICK c : c = r.cid
  OBVIOUS
<1>5. c \in Cids /\ c # NON /\ x # NON /\ r.mig = NON /\ s.lsn[c].st # "none"
  <2>1. r.cid # NON /\ r.mig = NON /\ s.lsn[r.cid].st # "none"
    BY <1>1, <1>2, <1>3, Zenon DEF ObjOK
  <2> QED BY <1>2, <1>4, <2>1, ConnFields, Apartness, Zenon
<1>6. PICK q : q = [r EXCEPT !.st = "WAITING_ACCEPT"]
  OBVIOUS
<1>7. /\ q \in VpnConnection /\ q.st = "WAITING_ACCEPT" /\ q.cid = r.cid /\ q.sid = r.sid /\ q.up = r.up /\ q.task = r.task
      /\ q.proto = r.proto /\ q.mig = r.mig /\ q.first = r.first /\ q.looking = r.looking /\ q.fakec = r.fakec
      /\ q.closed = r.closed /\ q.buf = r.buf
  <2>1. "WAITING_ACCEPT" \in VpnConnectionState
    BY DEF VpnConnectionState
  <2> QED BY <1>2, <1>6, <2>1, StSet
<1>8. PICK t1 : t1 = [s EXCEPT !.conn[o] = q]
  OBVIOUS
<1>9. ConnSet(s, t1, o, q)
  BY <1>2, <1>7, <1>8, ConnectionSet
<1>10. t1 = [s EXCEPT !.conn[o].st = "WAITING_ACCEPT"]
  BY <1>1, <1>6, <1>8
<1>11. PICK l : l = s.lsn[c]
  OBVIOUS
<1>12. PICK m : m = IF l.st # "asked" THEN l ELSE [l EXCEPT !.st = IF TRUE THEN "passed" ELSE "rejected"]
  OBVIOUS
<1>13. PICK t : t = Answer(t1, c, TRUE)
  OBVIOUS
<1>14. t1 \in TunnelState /\ t1.lsn[c] = l /\ t1.conn[o] = q
  BY <1>9, <1>11 DEF ConnSet
<1>15. /\ LsnSet(t1, t, c, m) /\ m \in ListenerConn
       /\ m.st = (IF l.st # "asked" THEN l.st ELSE IF TRUE THEN "passed" ELSE "rejected")
       /\ m.reads = l.reads /\ m.unsent = l.unsent /\ m.pos = l.pos
  <2>1. PICK b : b = TRUE
    OBVIOUS
  <2>2. b \in BOOLEAN /\ t = Answer(t1, c, b) /\ l = t1.lsn[c]
        /\ m = IF l.st # "asked" THEN l ELSE [l EXCEPT !.st = IF b THEN "passed" ELSE "rejected"]
    BY <1>12, <1>13, <1>14, <2>1
  <2>3. /\ LsnSet(t1, t, c, m) /\ m \in ListenerConn
        /\ m.st = (IF l.st # "asked" THEN l.st ELSE IF b THEN "passed" ELSE "rejected")
        /\ m.reads = l.reads /\ m.unsent = l.unsent /\ m.pos = l.pos
    BY <1>5, <1>14, <2>2, AnswerSet
  <2> QED BY <2>1, <2>3
<1>16. m.st = IF l.st # "asked" THEN l.st ELSE "passed"
  BY <1>15
<1>17. RecSet(s, t, o, c, q, m, s.wire[c])
  BY <1>9, <1>15, SMT DEF LsnSet, ConnSet, RecSet
<1>18. t \in TunnelState /\ t.conn[o] = q /\ t.lsn[c] = m /\ t.wire[c] = s.wire[c] /\ t.byClient = s.byClient
       /\ t.byServer = s.byServer /\ t.waiters = s.waiters /\ t.app = s.app /\ t.ups = s.ups
  BY <1>17, Zenon DEF RecSet
<1>19. q # NON /\ m.st # "none"
  BY <1>5, <1>7, <1>11, <1>16, Apartness
<1>20. CASE s.byClient[c] = NON
  <2>1. ObjOK(t1, o)
    BY <1>1, <1>2, <1>3, <1>4, <1>5, <1>7, <1>9, <1>14, <1>19, SMT DEF ObjOK, ConnSet
  <2>2. ~EarlyAck => FakeOK(t1, o)
    BY <1>1, <1>2, <1>3, <1>4, <1>5, <1>7, <1>9, <1>14, SMT DEF FakeOK, ConnSet
  <2>3. TunnelOK(t1)
    BY <1>1, <1>2, <1>4, <1>5, <1>7, <1>9, <1>20, <2>1, <2>2, UnfiledConn
  <2>4. t1.byClient[c] = NON /\ t1.lsn[c].st # "none"
    BY <1>5, <1>9, <1>20 DEF ConnSet
  <2>5. TunnelOK(t)
    BY <1>5, <1>14, <1>15, <1>16, <1>19, <2>3, <2>4, UnfiledListener
  <2> QED BY <1>1, <1>4, <1>10, <1>13, <2>5
<1>21. CASE s.byClient[c] # NON
  <2>0. s.byClient[c] = o
    <3>1. Carries(s, o, c, x)
      BY <1>1, <1>2, <1>4, Owner
    <3> QED BY <1>5, <1>21, <3>1, Zenon DEF Carries
  <2>1. Settled(s, o, c, x) /\ CliBase(s, c)
    BY <1>1, <1>2, <1>5, <2>0, SettledOf DEF CliOK
  <2>2. l.st \notin {"none", "closed", "passed", "open"}
    BY <1>1, <1>11, <1>21, <2>0, <2>1, SMT DEF CliBase
  <2>3. ObjOK(t, o)
    <3>1. t.lsn[c].st # "none" /\ q.cid = c /\ r.st = "WAITING_RESPONSE" /\ t.byServer[r.sid] = o /\ t.ups[r.sid] = s.ups[r.sid]
      BY <1>1, <1>2, <1>4, <1>7, <1>18, <1>19
    <3> QED BY <1>1, <1>2, <1>3, <1>4, <1>5, <1>7, <1>18, <1>19, <3>1, SMT DEF ObjOK
  <2>4. ~EarlyAck => FakeOK(t, o)
    BY <1>1, <1>2, <1>3, <1>4, <1>7, <1>11, <1>16, <1>18, SMT DEF FakeOK
  <2>5. CliOK(t, c)
    <3>1. /\ ~(c \in t.app /\ c \in t.waiters) /\ m.st \notin {"none", "closed", "open"}
          /\ (q.proto = "udp" => ~m.unsent)
      BY <1>1, <1>7, <1>11, <1>15, <1>16, <1>18, <1>21, <2>0, <2>1, <2>2, Zenon DEF CliBase
    <3>2. q.proto = "tcp" => s.wire[c] \o r.buf = Counted(l.pos - 1)
      BY <1>1, <1>7, <1>11, <1>21, <2>0, <2>1, Zenon DEF CliBase
    <3>3. q.proto = "tcp" => s.wire[c] \o q.buf = Counted(m.pos - 1)
      BY <1>7, <1>15, <3>2
    <3>4. t.byClient[c] = o /\ q.cid = c /\ q.sid # NON /\ t.byServer[q.sid] = o /\ q.st = "WAITING_ACCEPT"
      BY <1>2, <1>4, <1>5, <1>7, <1>18, <2>0
    <3>5. CliParts(t, c, o, q, m, s.wire[c])
      BY <1>18, <1>19, <3>1, <3>3, <3>4 DEF CliParts
    <3> QED BY <3>5, CliBuilt
  <2>6. WorksOut(s, t, o, c, x)
    BY <1>1, <1>2, <1>4, <1>5, <1>7, <1>17, <1>19, <2>1, <2>3, <2>4, <2>5, RecordsWork
  <2>7. TunnelOK(t)
    BY <1>1, <1>2, <1>5, <2>0, <2>6, FiledStep
  <2> QED BY <1>1, <1>4, <1>10, <1>13, <2>7
<1> QED BY <1>20, <1>21

\* The record of the connection that is left: it loses the client id.
Left(q, a, b) ==
    /\ a \in VpnConnection /\ a.cid = NON /\ a.buf = b /\ a.sid = q.sid /\ a.up = q.up /\ a.st = q.st
    /\ a.proto = q.proto /\ a.mig = q.mig /\ a.first = q.first /\ a.fakec = q.fakec /\ a.closed = q.closed
    /\ a.task = q.task /\ a.looking = q.looking

LEMMA LeftRecord ==
  ASSUME NEW q \in VpnConnection, NEW b \in Seq(1..MaxPkt), NEW a, a = [q EXCEPT !.cid = NON, !.buf = b]
  PROVE  Left(q, a, b)
<1>1. a \in VpnConnection
  BY Zenon DEF VpnConnection
<1>2. /\ a.cid = NON /\ a.buf = b /\ a.sid = q.sid /\ a.up = q.up /\ a.st = q.st
      /\ a.proto = q.proto /\ a.mig = q.mig /\ a.first = q.first /\ a.fakec = q.fakec /\ a.closed = q.closed
      /\ a.task = q.task /\ a.looking = q.looking
  BY Zenon DEF VpnConnection
<1> QED BY <1>1, <1>2 DEF Left

\* SwitchUpstream, first the connection that is left.
LEMMA SourceLeft ==
  ASSUME NEW s, TunnelOK(s), NEW c \in Cids, NEW src, s.byClient[c] = src, src # NON, NEW q, q = s.conn[src],
         q.st = "CONNECTED_MIGRATING" \/ (q.proto = "udp" /\ q.st = "CONNECTED"),
         NEW b \in Seq(1..MaxPkt), q.proto = "tcp" => b = q.buf,
         NEW a, Left(q, a, b), NEW t1, ConnSet(s, t1, src, a), NEW t, CliSet(t1, t, c, NON)
  PROVE  TunnelOK(t)
<1>1. src \in Objs /\ q # NON /\ q.cid = c /\ Settled(s, src, c, q.sid) /\ CliOK(s, c) /\ s \in TunnelState
  BY SettledOf
<1>2. q \in VpnConnection /\ c # NON
  BY <1>1, LiveConn, Apartness
<1>3. PICK x : x = q.sid
  OBVIOUS
<1>4. x \in Sids \cup {NON}
  BY <1>2, <1>3, ConnFields, Zenon
<1>5. a \in VpnConnection
  BY DEF Left
<1>6. /\ a.cid = NON /\ a.buf = b /\ a.sid = q.sid /\ a.up = q.up /\ a.st = q.st
      /\ a.proto = q.proto /\ a.mig = q.mig /\ a.first = q.first /\ a.fakec = q.fakec /\ a.closed = q.closed
      /\ a.task = q.task /\ a.looking = q.looking
  BY DEF Left
<1>11. /\ t \in TunnelState /\ t.conn[src] = a /\ \A p \in Objs : p # src => t.conn[p] = s.conn[p]
       /\ t.byClient[c] = NON /\ \A d \in Cids : d # c => t.byClient[d] = s.byClient[d]
       /\ t.byServer = s.byServer /\ t.waiters = s.waiters /\ t.app = s.app
       /\ t.lsn = s.lsn /\ t.ups = s.ups /\ t.wire = s.wire
  <2>1. /\ t \in TunnelState /\ t.conn = t1.conn
        /\ t.byClient[c] = NON /\ \A d \in Cids : d # c => t.byClient[d] = t1.byClient[d]
        /\ t.byServer = t1.byServer /\ t.waiters = t1.waiters /\ t.app = t1.app
        /\ t.lsn = t1.lsn /\ t.ups = t1.ups /\ t.wire = t1.wire
    BY DEF CliSet
  <2>2. /\ t1.conn[src] = a /\ \A p \in Objs : p # src => t1.conn[p] = s.conn[p]
        /\ t1.byClient = s.byClient /\ t1.byServer = s.byServer /\ t1.waiters = s.waiters /\ t1.app = s.app
        /\ t1.lsn = s.lsn /\ t1.ups = s.ups /\ t1.wire = s.wire
    BY DEF ConnSet
  <2>a. t.conn = t1.conn
    BY <2>1
  <2>b. t1.conn[src] = a /\ \A p \in Objs : p # src => t1.conn[p] = s.conn[p]
    BY <2>2
  <2>3. t.conn[src] = a /\ \A p \in Objs : p # src => t.conn[p] = s.conn[p]
    BY <2>a, <2>b, Zenon
  <2>4. t.byClient[c] = NON /\ \A d \in Cids : d # c => t.byClient[d] = s.byClient[d]
    BY <2>1, <2>2
  <2>5. t.byServer = s.byServer /\ t.waiters = s.waiters /\ t.app = s.app
        /\ t.lsn = s.lsn /\ t.ups = s.ups /\ t.wire = s.wire
    BY <2>1, <2>2
  <2> QED BY <2>1, <2>3, <2>4, <2>5
<1>12. Carries(s, src, c, x) /\ Apart(s, src, c, x)
  BY <1>1, <1>3, Owner
<1>13. Changed(s, t, src, c, x)
  BY <1>11, Zenon DEF Changed
<1>14. Carries(t, src, c, x)
  BY <1>3, <1>6, <1>11, <1>12, Zenon DEF Carries
<1>15. ObjOK(s, src) /\ CliBase(s, c) /\ CliBacked(s, c)
  BY <1>1, Zenon DEF CliOK, Settled
<1>16. q.mig = NON /\ a # NON /\ NON \notin s.app /\ NON \notin s.waiters
  BY <1>1, <1>2, <1>5, <1>15, StateFields, Apartness, Zenon DEF ObjOK
<1>17. ObjOK(t, src)
  <2>1. q.st = "CONNECTED" => q.sid # NON /\ s.byServer[q.sid] = src
    BY <1>15, Zenon DEF CliBacked
  <2>2. ~q.task
    BY <1>1, <1>15, SMT DEF ObjOK
  <2> QED BY <1>1, <1>6, <1>11, <1>15, <1>16, <2>1, <2>2, SMT DEF ObjOK
<1>18. ~EarlyAck => FakeOK(t, src)
  <2>1. ~EarlyAck => FakeOK(s, src)
    BY <1>1 DEF Settled
  <2> QED BY <1>1, <1>6, <1>11, <2>1, SMT DEF FakeOK
<1>19. CliOK(t, c) /\ t.lsn[c].st # "none"
  <2>1. s.lsn[c].st # "none" /\ ~(c \in s.app /\ c \in s.waiters)
    BY <1>15, Zenon DEF CliBase
  <2> QED BY <1>11, <2>1, Zenon DEF CliOK, CliBase, CliBacked
<1>20. ASSUME x # NON PROVE SrvOK(t, x)
  <2>1. s.byServer[x] \in {src, NON} /\ SrvOK(s, x)
    BY <1>4, <1>12, <1>20, Zenon DEF Carries, TunnelOK
  <2> QED BY <1>3, <1>6, <1>11, <1>16, <2>1, SMT DEF SrvOK
<1>21. MovesLeft(s, t, src, c)
  BY <1>6, <1>11, <1>16, Zenon DEF MovesLeft
<1>22. ASSUME NEW d \in Cids PROVE MovesOK(t, d)
  <2>1. CliOK(s, d) /\ MovesOK(s, d)
    BY Zenon DEF TunnelOK
  <2>2. c \in Cids \cup {NON} /\ (s.conn[src] # NON => s.conn[src].cid \in {c, NON})
    BY <1>1
  <2> QED BY <1>1, <1>4, <1>11, <1>13, <1>21, <2>1, <2>2, MovesKept
<1>23. \A d \in Cids : MovesOK(t, d)
  BY <1>22
<1>24. src \in Cids /\ src # c => s.lsn[src].st # "none"
  BY <1>1, Zenon DEF TunnelOK, CliOK, CliBase
<1>25. c \in Cids \cup {NON} /\ (c # NON => CliOK(t, c) /\ (t.lsn[c].st = "none" => s.lsn[c].st = "none"))
  BY <1>19
<1> QED
  BY <1>1, <1>4, <1>11, <1>12, <1>13, <1>14, <1>17, <1>18, <1>20, <1>23, <1>24, <1>25, ClusterStep

\* What the new connection finds when it takes over the client id c: nobody has it.
Vacant(s, o, c, r) ==
    /\ s.byClient[c] = NON /\ (\A p \in Objs : s.conn[p] # NON => s.conn[p].cid # c)
    /\ c \notin s.app /\ c \notin s.waiters /\ s.lsn[c].st \notin {"none", "closed", "passed"}
    /\ r.proto = "udp" => ~s.lsn[c].unsent
    /\ r.proto = "tcp" => s.wire[c] \o r.buf = Counted(s.lsn[c].pos - 1)
    /\ \A p \in Objs : p # o /\ s.conn[p] # NON /\ s.conn[p].mig = c => r.proto = "udp" /\ s.conn[p].proto = "udp"

\* The record of the new connection then.
Taken(r, a, c, b) ==
    /\ a \in VpnConnection /\ a.cid = c /\ a.buf = b /\ a.sid = r.sid /\ a.up = r.up /\ a.st = "CONNECTED"
    /\ a.proto = r.proto /\ a.mig = NON /\ a.first = r.first /\ a.fakec = r.fakec /\ a.closed = r.closed
    /\ a.task = r.task /\ a.looking = r.looking

LEMMA TakenRecord ==
  ASSUME NEW r \in VpnConnection, NEW c \in Cids, NEW b \in Seq(1..MaxPkt), NEW g \in BOOLEAN, NEW a,
         a = [r EXCEPT !.cid = c, !.st = "CONNECTED", !.mig = NON, !.buf = b, !.sending = g]
  PROVE  Taken(r, a, c, b)
<1>1. c \in Cids \cup {NON} /\ NON \in Cids \cup {NON} /\ "CONNECTED" \in VpnConnectionState
  BY DEF VpnConnectionState
<1>2. a \in VpnConnection
  BY <1>1, Zenon DEF VpnConnection
<1>3. /\ a.cid = c /\ a.buf = b /\ a.sid = r.sid /\ a.up = r.up /\ a.st = "CONNECTED"
      /\ a.proto = r.proto /\ a.mig = NON /\ a.first = r.first /\ a.fakec = r.fakec /\ a.closed = r.closed
      /\ a.task = r.task /\ a.looking = r.looking
  BY Zenon DEF VpnConnection
<1> QED BY <1>2, <1>3 DEF Taken

LEMMA TargetTakes ==
  ASSUME NEW s, TunnelOK(s), NEW c \in Cids, NEW x \in Sids, NEW o, s.byServer[x] = o, o # NON, NEW r, r = s.conn[o],
         r.mig = c, Vacant(s, o, c, r), NEW b, r.proto = "tcp" => b = r.buf, NEW a, Taken(r, a, c, b),
         NEW t1, ConnSet(s, t1, o, a), NEW t, CliSet(t1, t, c, o)
  PROVE  TunnelOK(t)
<1>1. o \in Objs /\ r # NON /\ r.sid = x /\ r \in VpnConnection /\ s \in TunnelState
  BY ServerFiled
<1>2. ObjOK(s, o) /\ (~EarlyAck => FakeOK(s, o)) /\ SrvOK(s, x) /\ c # NON /\ x # NON
  BY <1>1, Apartness, Zenon DEF TunnelOK
<1>3. r.cid = NON /\ o \in Sids /\ r.st = "WAITING_RESPONSE_MIGRATING"
  BY <1>1, <1>2, Zenon DEF ObjOK
<1>4. a \in VpnConnection
  BY DEF Taken
<1>5. /\ a.cid = c /\ a.buf = b /\ a.sid = x /\ a.up = r.up /\ a.st = "CONNECTED"
      /\ a.proto = r.proto /\ a.mig = NON /\ a.first = r.first /\ a.fakec = r.fakec /\ a.closed = r.closed
      /\ a.task = r.task /\ a.looking = r.looking
  BY <1>1 DEF Taken
<1>10. t \in TunnelState /\ t.conn[o] = a /\ (\A p \in Objs : p # o => t.conn[p] = s.conn[p])
  <2>1. t.conn = t1.conn /\ t \in TunnelState
    BY DEF CliSet
  <2>2. t1.conn[o] = a /\ \A p \in Objs : p # o => t1.conn[p] = s.conn[p]
    BY DEF ConnSet
  <2> QED BY <2>1, <2>2, Zenon
<1>11. t.byClient[c] = o /\ \A d \in Cids : d # c => t.byClient[d] = s.byClient[d]
  <2>1. t.byClient[c] = o /\ \A d \in Cids : d # c => t.byClient[d] = t1.byClient[d]
    BY DEF CliSet
  <2>2. t1.byClient = s.byClient
    BY DEF ConnSet
  <2> QED BY <2>1, <2>2, Zenon
<1>12. t.byServer = s.byServer /\ t.waiters = s.waiters /\ t.app = s.app /\ t.lsn = s.lsn /\ t.ups = s.ups /\ t.wire = s.wire
  BY Zenon DEF ConnSet, CliSet
<1>v. /\ s.byClient[c] = NON /\ (\A p \in Objs : s.conn[p] # NON => s.conn[p].cid # c)
      /\ c \notin s.app /\ c \notin s.waiters /\ s.lsn[c].st \notin {"none", "closed", "passed"}
      /\ r.proto = "udp" => ~s.lsn[c].unsent
      /\ r.proto = "tcp" => s.wire[c] \o r.buf = Counted(s.lsn[c].pos - 1)
      /\ \A p \in Objs : p # o /\ s.conn[p] # NON /\ s.conn[p].mig = c => r.proto = "udp" /\ s.conn[p].proto = "udp"
  BY DEF Vacant
<1>13. Carries(s, o, c, x) /\ Apart(s, o, c, x)
  <2>1. Carries(s, o, r.cid, r.sid) /\ Apart(s, o, r.cid, r.sid)
    BY <1>1, Owner
  <2> QED BY <1>1, <1>3, <1>v, <2>1, Zenon DEF Carries, Apart
<1>14. Changed(s, t, o, c, x)
  BY <1>10, <1>11, <1>12, Zenon DEF Changed
<1>15. Carries(t, o, c, x)
  BY <1>5, <1>10, <1>11, <1>12, Zenon DEF Carries
<1>16. a # NON
  BY <1>4, Apartness
<1>17. ObjOK(t, o)
  <2>1. t.byClient[a.cid] = o /\ t.lsn[a.cid] = s.lsn[c] /\ t.ups[a.sid] = s.ups[r.sid] /\ a.sid = r.sid
    BY <1>1, <1>5, <1>11, <1>12
  <2>2. ~r.task
    BY <1>1, <1>2, <1>3, Zenon DEF ObjOK
  <2>3. r.fakec => r.up = "fake"
    BY <1>1, <1>2, Zenon DEF ObjOK
  <2> QED BY <1>1, <1>2, <1>3, <1>5, <1>10, <1>12, <1>16, <1>v, <2>1, <2>2, <2>3, SMT DEF ObjOK
<1>18. ~EarlyAck => FakeOK(t, o)
  BY <1>1, <1>2, <1>3, <1>5, <1>10, SMT DEF FakeOK
<1>19. CliOK(t, c)
  <2>1. PICK l : l = s.lsn[c]
    OBVIOUS
  <2>2. PICK w : w = s.wire[c]
    OBVIOUS
  <2>3. t.lsn[c] = l /\ t.wire[c] = w /\ ~(c \in t.app /\ c \in t.waiters) /\ l.st \notin {"none", "closed", "passed"}
        /\ (a.proto = "udp" => ~l.unsent)
    BY <1>5, <1>12, <1>v, <2>1, <2>2
  <2>4. a.proto = "tcp" => w \o a.buf = Counted(l.pos - 1)
    <3>1. a.proto = "tcp" => s.wire[c] \o r.buf = Counted(s.lsn[c].pos - 1) /\ a.buf = r.buf
      BY <1>5, <1>v
    <3> QED BY <2>1, <2>2, <3>1
  <2>5. CliParts(t, c, o, a, l, w)
    BY <1>2, <1>5, <1>10, <1>11, <1>12, <1>16, <2>3, <2>4 DEF CliParts
  <2> QED BY <2>5, CliBuilt
<1>20. SrvOK(t, x)
  BY <1>2, <1>5, <1>10, <1>12, <1>16, ZenonT(60) DEF SrvOK
<1>21. ASSUME NEW d \in Cids PROVE MovesOK(t, d)
  <2>0. d # NON
    BY Apartness, Zenon
  <2>1. CASE d = c
    <3>1. ASSUME NEW p \in Objs, t.conn[p] # NON, t.conn[p].mig = d
          PROVE  a.proto = t.conn[p].proto /\ t.conn[p].proto = "udp" /\ a.st = "CONNECTED"
      <4>1. p # o
        BY <1>5, <1>10, <2>0, <3>1
      <4>2. t.conn[p] = s.conn[p]
        BY <1>10, <4>1
      <4> QED BY <1>5, <1>v, <2>1, <3>1, <4>1, <4>2, Zenon
    <3>2. t.byClient[d] = o /\ t.conn[t.byClient[d]] = a
      BY <1>10, <1>11, <2>1
    <3>3. ASSUME NEW p \in Objs, t.conn[p] # NON, t.conn[p].mig = d
          PROVE  /\ t.conn[t.byClient[d]].proto = t.conn[p].proto
                 /\ t.conn[p].proto = "udp" /\ t.conn[t.byClient[d]].st = "CONNECTED" /\ t.conn[p].proto # "tcp"
      BY <3>1, <3>2, <3>3
    <3> QED BY <3>3, Zenon DEF MovesOK
  <2>2. CASE d # c
    <3>1. CliOK(s, d) /\ MovesOK(s, d)
      BY Zenon DEF TunnelOK
    <3>2. t.byClient[d] = s.byClient[d] /\ t.wire[d] = s.wire[d] /\ t.lsn[d] = s.lsn[d]
      BY <1>11, <1>12, <2>2
    <3> SUFFICES ASSUME s.byClient[d] # NON PROVE MovesOK(t, d)
      BY <3>2, Zenon DEF MovesOK
    <3>3. s.byClient[d] \in Objs /\ s.conn[s.byClient[d]].cid = d
      BY SettledOf
    <3>4. s.byClient[d] # o
      BY <1>3, <2>0, <3>3
    <3>5. t.conn[s.byClient[d]] = s.conn[s.byClient[d]]
      BY <1>10, <3>3, <3>4
    <3>6. \A p \in Objs : t.conn[p] # NON /\ t.conn[p].mig = d => s.conn[p] = t.conn[p]
      BY <1>5, <1>10, <2>0, Zenon
    <3> QED BY <3>1, <3>2, <3>5, <3>6, ZenonT(60) DEF MovesOK
  <2> QED BY <2>1, <2>2
<1>22. \A d \in Cids : MovesOK(t, d)
  BY <1>21
<1>23. c \in Cids \cup {NON} /\ (c # NON => CliOK(t, c) /\ (t.lsn[c].st = "none" => s.lsn[c].st = "none"))
       /\ x \in Sids \cup {NON}
  BY <1>12, <1>19
<1>24. o \in Cids /\ o # c => s.lsn[o].st # "none"
  BY <1>1, Zenon DEF TunnelOK, CliOK, CliBase
<1> QED
  BY <1>1, <1>10, <1>13, <1>14, <1>15, <1>17, <1>18, <1>20, <1>22, <1>23, <1>24, ClusterStep

\* The close of the connection src, which has no client any more, concerns nobody else.
LEMMA CloseNowOK ==
  ASSUME NEW s, TunnelOK(s), NEW u, NEW src \in Objs, NEW q, q = s.conn[src], q # NON, q.cid = NON, NEW y, y = q.sid,
         NEW o \in Objs, o # src, NEW c \in Cids, NEW v, v = CloseNow(s, u, y)
  PROVE  TunnelOK(v) /\ v.conn[o] = s.conn[o] /\ v.byClient[c] = s.byClient[c] /\ v.lsn[c] = s.lsn[c]
<1>0. s \in TunnelState /\ q \in VpnConnection /\ c # NON
  BY LiveConn, Apartness, Zenon DEF TunnelOK
<1>1. y \in Sids \cup {NON}
  BY <1>0, ConnFields, Zenon
<1>2. CASE u = "endpoint" \/ ~Held(s, u, y)
  <2>1. v = CloseAsync(s, u, y)
    BY <1>2, Zenon DEF CloseNow
  <2>2. FadedAt(s, v, y)
    BY <1>0, <1>1, <2>1, AsyncClosed
  <2>3. TunnelOK(v)
    BY <2>2, FadedOK
  <2> QED BY <2>2, <2>3 DEF FadedAt
<1>3. CASE ~(u = "endpoint" \/ ~Held(s, u, y))
  <2>1. y \in Sids
    BY <1>1, <1>3 DEF Held
  <2>2. PICK t : t = [s EXCEPT !.ups[y].st = "gone"]
    OBVIOUS
  <2>3. v = OnConnectionClosed(t, y)
    BY <1>3, <2>2, Zenon DEF CloseNow
  <2>4. TunnelOK(t) /\ t.ups[y].st = "gone" /\ FadedAt(s, t, y)
    BY <2>1, <2>2, GoneOK
  <2>5. TunnelOK(v)
    BY <2>1, <2>3, <2>4, ConnectionClosedOK
  <2>6. t \in TunnelState /\ t.conn = s.conn /\ t.byClient = s.byClient /\ t.lsn = s.lsn /\ t.byServer = s.byServer
    BY <2>4 DEF FadedAt
  <2>7. s.byServer[y] \in {src, NON}
    <3>1. Carries(s, src, q.cid, q.sid)
      BY Owner
    <3>2. y # NON
      BY <2>1, Apartness
    <3> QED BY <3>1, <3>2, Zenon DEF Carries
  <2>8. CASE t.byServer[y] = NON
    <3>1. v = t
      BY <2>3, <2>8, Zenon DEF OnConnectionClosed
    <3> QED BY <2>5, <2>6, <3>1
  <2>9. CASE t.byServer[y] = src
    <3>0. src # NON /\ t.conn[src] = q
      BY <2>6, Apartness
    <3>1. v = DestroyConnection(t, src)
      BY <2>3, <2>9, <3>0, Zenon DEF OnConnectionClosed
    <3>2. Without(t, v, src, q)
      BY <2>6, <3>0, <3>1, Destroyed
    <3>3. v.conn[o] = t.conn[o] /\ v.byClient[c] = t.byClient[c] /\ v.lsn = t.lsn
      BY <1>0, <3>2, Zenon DEF Without
    <3> QED BY <2>5, <2>6, <3>3
  <2> QED BY <2>6, <2>7, <2>8, <2>9
<1> QED BY <1>2, <1>3

\* What the connection r, once opened, finds of the connection q that it replaces.
Replaces(s, o, r, src, q, c) ==
    /\ o \in Objs /\ src \in Objs /\ o # src /\ r \in VpnConnection /\ q \in VpnConnection /\ q # NON
    /\ q.proto = r.proto /\ (q.st = "CONNECTED_MIGRATING" \/ (q.proto = "udp" /\ q.st = "CONNECTED"))
    /\ c \notin s.app /\ c \notin s.waiters /\ s.lsn[c].st \notin {"none", "closed", "passed"}
    /\ (r.proto = "udp" => ~s.lsn[c].unsent)
    /\ (r.proto = "tcp" => s.wire[c] \o r.buf = Counted(s.lsn[c].pos - 1))
    /\ \A p \in Objs : p # o /\ s.conn[p] # NON /\ s.conn[p].mig = c => r.proto = "udp" /\ s.conn[p].proto = "udp"

LEMMA CarriedOn ==
  ASSUME NEW s, TunnelOK(s), NEW c \in Cids, NEW x \in Sids, NEW o, s.byServer[x] = o, o # NON, NEW r, r = s.conn[o],
         r.mig = c, NEW src, s.byClient[c] = src, src # NON, NEW q, q = s.conn[src]
  PROVE  Replaces(s, o, r, src, q, c)
<1>1. o \in Objs /\ r # NON /\ r.sid = x /\ r \in VpnConnection /\ s \in TunnelState
  BY ServerFiled
<1>2. src \in Objs /\ q # NON /\ q.cid = c /\ CliOK(s, c)
  BY SettledOf
<1>3. ObjOK(s, o) /\ ObjOK(s, src) /\ MovesOK(s, c) /\ c # NON
  BY <1>1, <1>2, Apartness, Zenon DEF TunnelOK
<1>4. o # src
  BY <1>1, <1>2, <1>3, Zenon DEF ObjOK
<1>5. /\ q.proto = r.proto /\ (q.st = "CONNECTED_MIGRATING" \/ (r.proto = "udp" /\ q.st = "CONNECTED"))
      /\ r.proto = "tcp" => /\ s.wire[c] \o r.buf = Counted(s.lsn[c].pos - 1)
                            /\ \A y \in Objs : s.conn[y] # NON /\ s.conn[y].mig = c => y = o
  BY <1>1, <1>3, Zenon DEF MovesOK
<1>6. c \notin s.app /\ c \notin s.waiters
  BY <1>2, <1>3, <1>5, SMT DEF ObjOK
<1>7. s.lsn[c].st \notin {"none", "closed", "passed"} /\ (q.proto = "udp" => ~s.lsn[c].unsent)
  BY <1>2, <1>5, SMT DEF CliOK, CliBase
<1>8. q \in VpnConnection /\ r.proto \in {"tcp", "udp"}
  BY <1>1, <1>2, LiveConn, ConnFields, Zenon
<1>9. ASSUME NEW p \in Objs, p # o, s.conn[p] # NON, s.conn[p].mig = c PROVE r.proto = "udp" /\ s.conn[p].proto = "udp"
  <2>1. q.proto = s.conn[p].proto
    BY <1>3, <1>9, Zenon DEF MovesOK
  <2>2. r.proto = "udp"
    BY <1>5, <1>8, <1>9
  <2> QED BY <1>5, <2>1, <2>2
<1> QED BY <1>1, <1>2, <1>4, <1>5, <1>6, <1>7, <1>8, <1>9 DEF Replaces

LEMMA SwitchOK ==
  ASSUME NEW s, TunnelOK(s), NEW x \in Sids, NEW o, s.byServer[x] = o, o # NON,
         s.conn[o].st = "WAITING_RESPONSE_MIGRATING"
  PROVE  TunnelOK(SwitchUpstream(s, o, x))
<1>1. PICK r : r = s.conn[o]
  OBVIOUS
<1>2. PICK c : c = r.mig
  OBVIOUS
<1>3. o \in Objs /\ r # NON /\ r.sid = x /\ r \in VpnConnection /\ s \in TunnelState
  BY <1>1, ServerFiled
<1>4. c \in Cids /\ c # NON /\ ObjOK(s, o)
  <2>1. ObjOK(s, o)
    BY <1>3, Zenon DEF TunnelOK
  <2>2. r.mig # NON
    BY <1>1, <1>3, <2>1, Zenon DEF ObjOK
  <2> QED BY <1>2, <1>3, <2>1, <2>2, ConnFields, Zenon
<1>5. PICK src : src = s.byClient[c]
  OBVIOUS
<1>6. CASE src = NON
  <2>1. SwitchUpstream(s, o, x) = CloseAsync(s, r.up, x)
    BY <1>1, <1>2, <1>5, <1>6, Zenon DEF SwitchUpstream
  <2>2. FadedAt(s, CloseAsync(s, r.up, x), x)
    BY <1>3, AsyncClosed
  <2> QED BY <2>1, <2>2, FadedOK
<1>7. CASE src # NON
  <2>1. PICK q : q = s.conn[src]
    OBVIOUS
  <2>2. /\ o \in Objs /\ src \in Objs /\ o # src /\ r \in VpnConnection /\ q \in VpnConnection /\ q # NON
        /\ q.proto = r.proto /\ (q.st = "CONNECTED_MIGRATING" \/ (q.proto = "udp" /\ q.st = "CONNECTED"))
        /\ c \notin s.app /\ c \notin s.waiters /\ s.lsn[c].st \notin {"none", "closed", "passed"}
        /\ (r.proto = "udp" => ~s.lsn[c].unsent)
        /\ (r.proto = "tcp" => s.wire[c] \o r.buf = Counted(s.lsn[c].pos - 1))
        /\ \A p \in Objs : p # o /\ s.conn[p] # NON /\ s.conn[p].mig = c => r.proto = "udp" /\ s.conn[p].proto = "udp"
    <3>1. Replaces(s, o, r, src, q, c)
      BY <1>1, <1>2, <1>4, <1>5, <1>7, <2>1, CarriedOn
    <3> QED BY <3>1 DEF Replaces
  <2>3. PICK b1 : b1 = IF r.proto = "udp" THEN r.buf ELSE q.buf
    OBVIOUS
  <2>4. PICK b : b = IF r.proto = "udp" THEN q.buf ELSE r.buf
    OBVIOUS
  <2>5. b1 \in Seq(1..MaxPkt) /\ b \in Seq(1..MaxPkt) /\ (q.proto = "tcp" => b1 = q.buf) /\ (r.proto = "tcp" => b = r.buf)
    <3>1. r.buf \in Seq(1..MaxPkt) /\ q.buf \in Seq(1..MaxPkt)
      BY <2>2, ConnFields
    <3>2. b1 \in {r.buf, q.buf} /\ b \in {r.buf, q.buf}
      BY <2>3, <2>4, Zenon
    <3>3. (q.proto = "tcp" => b1 = q.buf) /\ (r.proto = "tcp" => b = r.buf)
      BY <2>2, <2>3, <2>4, Zenon
    <3> QED BY <3>1, <3>2, <3>3, Zenon
  <2>6. PICK g : g = (b # <<>>)
    OBVIOUS
  <2>7. PICK a1 : a1 = [q EXCEPT !.cid = NON, !.buf = b1]
    OBVIOUS
  <2>8. PICK a : a = [r EXCEPT !.cid = c, !.st = "CONNECTED", !.mig = NON, !.buf = b, !.sending = g]
    OBVIOUS
  <2>9. PICK s1 : s1 = [s EXCEPT !.conn[src] = a1]
    OBVIOUS
  <2>10. PICK s2 : s2 = [s1 EXCEPT !.byClient[c] = NON]
    OBVIOUS
  <2>11. /\ TunnelOK(s2) /\ a1 \in VpnConnection /\ a1.cid = NON /\ a1.sid = q.sid /\ a1.up = q.up
         /\ ConnSet(s, s1, src, a1) /\ CliSet(s1, s2, c, NON)
    <3>1. Left(q, a1, b1)
      BY <2>2, <2>5, <2>7, LeftRecord
    <3>2. a1 \in VpnConnection /\ a1.cid = NON /\ a1.sid = q.sid /\ a1.up = q.up
      BY <3>1 DEF Left
    <3>3. ConnSet(s, s1, src, a1)
      BY <1>3, <2>2, <2>9, <3>2, ConnectionSet
    <3>4. CliSet(s1, s2, c, NON)
      BY <1>4, <2>10, <3>3, ClientTableSet DEF ConnSet
    <3>5. TunnelOK(s2)
      BY <1>4, <1>5, <1>7, <2>1, <2>2, <2>5, <3>1, <3>3, <3>4, SourceLeft
    <3> QED BY <3>2, <3>3, <3>4, <3>5
  <2>12. Taken(r, a, c, b)
    BY <1>4, <2>2, <2>5, <2>6, <2>8, TakenRecord
  <2>13. PICK s3 : s3 = [s2 EXCEPT !.conn[o] = a]
    OBVIOUS
  <2>14. PICK s4 : s4 = [s3 EXCEPT !.byClient[c] = o]
    OBVIOUS
  <2>15. s2.conn = s1.conn /\ s2.byServer = s.byServer /\ s2.lsn = s.lsn /\ s2.wire = s.wire /\ s2.app = s.app /\ s2.waiters = s.waiters
         /\ s2.byClient[c] = NON /\ s2 \in TunnelState
    BY <2>11, Zenon DEF ConnSet, CliSet
  <2>16. s1.conn[src] = a1 /\ (\A p \in Objs : p # src => s1.conn[p] = s.conn[p])
    BY <2>11 DEF ConnSet
  <2>17. s2.conn[src] = a1 /\ (\A p \in Objs : p # src => s2.conn[p] = s.conn[p]) /\ s2.conn[o] = r
    BY <1>1, <2>2, <2>15, <2>16, Zenon
  <2>18. Vacant(s2, o, c, r)
    <3>1. ASSUME NEW p \in Objs, s2.conn[p] # NON PROVE s2.conn[p].cid # c
      <4>1. CASE p = src
        BY <1>4, <2>11, <2>17, <4>1
      <4>2. CASE p # src
        <5>1. s2.conn[p] = s.conn[p] /\ q.cid = c
          BY <1>4, <1>5, <1>7, <2>1, <2>17, <4>2, SettledOf
        <5>2. Alone(s)
          BY DEF TunnelOK
        <5> QED BY <1>4, <2>1, <2>2, <3>1, <4>2, <5>1, <5>2, Zenon DEF Alone
      <4> QED BY <4>1, <4>2
    <3>2. ASSUME NEW p \in Objs, p # o, s2.conn[p] # NON, s2.conn[p].mig = c PROVE r.proto = "udp" /\ s2.conn[p].proto = "udp"
      <4>1. p # src
        <5>1. q.mig = NON /\ a1.mig = q.mig
          <6>1. ObjOK(s, src) /\ q.cid = c
            BY <1>4, <1>5, <1>7, <2>1, SettledOf DEF Settled
          <6>2. q.mig = NON
            BY <1>4, <2>1, <2>2, <6>1, Zenon DEF ObjOK
          <6>3. a1.mig = q.mig
            BY <2>2, <2>7, Zenon DEF VpnConnection
          <6> QED BY <6>2, <6>3
        <5> QED BY <1>4, <2>17, <3>2, <5>1
      <4> QED BY <2>2, <2>17, <3>2, <4>1, Zenon
    <3>3. r.proto = "tcp" => s2.wire[c] \o r.buf = Counted(s2.lsn[c].pos - 1)
      BY <2>2, <2>15, Zenon
    <3>4. c \notin s2.app /\ c \notin s2.waiters /\ s2.lsn[c].st \notin {"none", "closed", "passed"}
          /\ (r.proto = "udp" => ~s2.lsn[c].unsent)
      BY <2>2, <2>15
    <3> QED BY <2>15, <3>1, <3>2, <3>3, <3>4, Zenon DEF Vacant
  <2>19. ConnSet(s2, s3, o, a)
    BY <2>2, <2>12, <2>13, <2>15, ConnectionSet DEF Taken
  <2>20. s3 \in TunnelState /\ s3.conn[o] = a /\ s3.conn[src] = a1 /\ s3.byClient = s2.byClient
    BY <2>2, <2>17, <2>19, Zenon DEF ConnSet
  <2>21. CliSet(s3, s4, c, o)
    BY <1>4, <2>2, <2>14, <2>20, ClientTableSet
  <2>22. TunnelOK(s4)
    BY <1>2, <1>3, <1>4, <2>5, <2>11, <2>12, <2>15, <2>17, <2>18, <2>19, <2>21, TargetTakes
  <2>23. s4.conn[o] = a /\ s4.conn[src] = a1 /\ s4.byClient[c] = o /\ a.st = "CONNECTED" /\ a.buf = b
    BY <2>12, <2>20, <2>21 DEF CliSet, Taken
  <2>24. PICK v : v = IF q.up = NON THEN s4 ELSE CloseNow(s4, q.up, q.sid)
    OBVIOUS
  <2>25. TunnelOK(v) /\ v.conn[o] = a /\ v.byClient[c] = o
    <3>1. CASE q.up = NON
      BY <2>22, <2>23, <2>24, <3>1
    <3>2. CASE q.up # NON
      <4>1. v = CloseNow(s4, q.up, q.sid) /\ a1 # NON /\ a1.sid = q.sid
        BY <2>11, <2>24, <3>2, Apartness
      <4>0. a1 = s4.conn[src] /\ a1.cid = NON
        BY <2>11, <2>23
      <4>2. TunnelOK(v) /\ v.conn[o] = s4.conn[o] /\ v.byClient[c] = s4.byClient[c]
        BY <1>4, <2>2, <2>22, <4>0, <4>1, CloseNowOK, SMTT(60)
      <4> QED BY <2>23, <4>2
    <3> QED BY <3>1, <3>2
  <2>26. s4 = [s EXCEPT !.conn[src] = a1, !.conn[o] = a, !.byClient[c] = o]
    <3>1. [[s.byClient EXCEPT ![c] = NON] EXCEPT ![c] = o] = [s.byClient EXCEPT ![c] = o]
      BY <1>3, <1>4, StateFields
    <3>2. s4 = [s EXCEPT !.conn = [[@ EXCEPT ![src] = a1] EXCEPT ![o] = a],
                         !.byClient = [[@ EXCEPT ![c] = NON] EXCEPT ![c] = o]]
      BY <1>3, <2>9, <2>10, <2>13, <2>14, Zenon DEF TunnelState
    <3>3. s4 = [s EXCEPT !.conn = [[@ EXCEPT ![src] = a1] EXCEPT ![o] = a], !.byClient = [@ EXCEPT ![c] = o]]
      BY <3>1, <3>2
    <3> QED BY <3>3
  <2>27. SwitchUpstream(s, o, x) = IF b # <<>> THEN v ELSE TurnRead(v, c, TRUE)
    <3>1. SwitchUpstream(s, o, x) = IF v.conn[o].buf # <<>> THEN v ELSE TurnRead(v, c, TRUE)
      <4>1. a1 = [q EXCEPT !.cid = NON, !.buf = IF r.proto = "udp" THEN r.buf ELSE @]
        BY <2>3, <2>7
      <4>2. a = [r EXCEPT !.cid = r.mig, !.st = "CONNECTED", !.mig = NON, !.buf = b, !.sending = b # <<>>]
        BY <1>2, <2>6, <2>8
      <4>3. s4 = TakeOver(s, o, src)
        BY <1>1, <1>2, <2>1, <2>4, <2>26, <4>1, <4>2 DEF TakeOver
      <4> QED BY <1>1, <1>2, <1>5, <1>7, <2>1, <2>24, <4>3 DEF SwitchUpstream
    <3> QED BY <2>23, <2>25, <3>1
  <2>28. TunnelOK(TurnRead(v, c, TRUE))
    <3>1. v \in TunnelState /\ CliOK(v, c) /\ v.lsn[c] \in ListenerConn
      BY <1>4, <2>25, LsnFields, Zenon DEF TunnelOK
    <3>2. PICK l : l = [v.lsn[c] EXCEPT !.reads = TRUE]
      OBVIOUS
    <3>3. l \in ListenerConn /\ l.st = v.lsn[c].st /\ l.unsent = v.lsn[c].unsent /\ l.pos = v.lsn[c].pos
      BY <3>1, <3>2, Zenon DEF ListenerConn
    <3>4. LsnSet(v, [v EXCEPT !.lsn[c] = l], c, l)
      BY <1>4, <3>1, <3>3, ListenerSet
    <3>5. TurnRead(v, c, TRUE) = [v EXCEPT !.lsn[c] = l]
      BY <3>2 DEF TurnRead
    <3>6. l.st # "none" /\ (a.proto = "udp" => ~l.unsent) /\ o # NON
      BY <2>25, <3>1, <3>3, Zenon DEF CliOK, CliBase
    <3>7. v.byClient[c] # NON /\ v.conn[v.byClient[c]] = a
      BY <2>25, <3>6
    <3>8. TunnelOK([v EXCEPT !.lsn[c] = l])
      BY <1>4, <2>23, <2>25, <3>3, <3>4, <3>6, <3>7, ListenerStep
    <3> QED BY <3>5, <3>8
  <2> QED BY <2>25, <2>27, <2>28
<1> QED BY <1>6, <1>7

LEMMA UpstreamOpenedStep ==
  ASSUME TunnelOK(State), NEW x \in Sids, UpstreamOpened(x)
  PROVE  TunnelOK(State)'
<1>0. PICK u : u = ups[x].u
  OBVIOUS
<1>1. PICK e : e = IF ups[x].st = "opening" THEN "open" ELSE "closing"
  OBVIOUS
<1>2. PICK s : s = [State EXCEPT !.ups[x].st = e]
  OBVIOUS
<1>3. Becomes(OnConnectionOpened(s, u, x)) /\ State.ups[x].st \in {"opening", "aborting"} /\ e \in {"open", "closing"}
  BY <1>0, <1>1, <1>2, StateIs, Zenon DEF UpstreamOpened
<1>4. TunnelOK(s) /\ s \in TunnelState
  BY <1>2, <1>3, UpsStateStep DEF TunnelOK
<1>5. PICK o : o = s.byServer[x]
  OBVIOUS
<1>6. TunnelOK(CloseAsync(s, u, x))
  <2>1. FadedAt(s, CloseAsync(s, u, x), x)
    BY <1>4, AsyncClosed
  <2> QED BY <1>4, <2>1, FadedOK
<1>7. TunnelOK(OnConnectionOpened(s, u, x))
  <2>1. CASE o = NON
    BY <1>5, <1>6, <2>1, Zenon DEF OnConnectionOpened
  <2>2. CASE o # NON /\ s.conn[o].st = "WAITING_RESPONSE"
    <3>1. OnConnectionOpened(s, u, x) = Answer([s EXCEPT !.conn[o].st = "WAITING_ACCEPT"], s.conn[o].cid, TRUE)
      BY <1>5, <2>2 DEF OnConnectionOpened
    <3> QED BY <1>4, <1>5, <2>2, <3>1, ResponseOK
  <2>3. CASE o # NON /\ s.conn[o].st = "WAITING_RESPONSE_MIGRATING"
    <3>1. OnConnectionOpened(s, u, x) = SwitchUpstream(s, o, x)
      BY <1>5, <2>3 DEF OnConnectionOpened
    <3> QED BY <1>4, <1>5, <2>3, <3>1, SwitchOK
  <2>4. CASE o # NON /\ s.conn[o].st \notin {"WAITING_RESPONSE", "WAITING_RESPONSE_MIGRATING"}
    <3>1. OnConnectionOpened(s, u, x) = CloseAsync(s, u, x)
      BY <1>5, <2>4 DEF OnConnectionOpened
    <3> QED BY <1>6, <3>1
  <2> QED BY <2>1, <2>2, <2>3, <2>4
<1> QED BY <1>3, <1>7, Became

-----------------------------------------------------------------------------
(* A request is routed.                                                    *)

\* Requests are no longer waited for.
LEMMA PendingFewer ==
  ASSUME NEW s, TunnelOK(s), NEW t \in TunnelState, t.conn = s.conn, t.byClient = s.byClient, t.byServer = s.byServer,
         t.lsn = s.lsn, t.ups = s.ups, t.wire = s.wire, t.app \subseteq s.app, t.waiters \subseteq s.waiters
  PROVE  TunnelOK(t)
<1>1. ASSUME NEW o \in Objs PROVE ObjOK(t, o)
  <2>1. ObjOK(s, o)
    BY Zenon DEF TunnelOK
  <2> QED BY <2>1, SMT DEF ObjOK
<1>2. ASSUME NEW o \in Objs, ~EarlyAck PROVE FakeOK(t, o)
  <2>1. FakeOK(s, o)
    BY <1>2, Zenon DEF TunnelOK
  <2> QED BY <2>1, Zenon DEF FakeOK
<1>3. ASSUME NEW c \in Cids PROVE CliOK(t, c)
  <2>1. CliBase(s, c) /\ CliBacked(s, c)
    BY Zenon DEF TunnelOK, CliOK
  <2>2. CliBase(t, c)
    BY <2>1, Zenon DEF CliBase
  <2>3. CliBacked(t, c)
    BY <2>1, Zenon DEF CliBacked
  <2> QED BY <2>2, <2>3 DEF CliOK
<1>4. ASSUME NEW c \in Cids PROVE MovesOK(t, c)
  <2>1. MovesOK(s, c)
    BY Zenon DEF TunnelOK
  <2> QED BY <2>1, MovesSame
<1>5. ASSUME NEW x \in Sids PROVE SrvOK(t, x)
  <2>1. SrvOK(s, x)
    BY Zenon DEF TunnelOK
  <2> QED BY <2>1, Zenon DEF SrvOK
<1>6. Alone(t)
  <2>1. Alone(s)
    BY DEF TunnelOK
  <2> QED BY <2>1 DEF Alone
<1> QED BY <1>1, <1>2, <1>3, <1>4, <1>5, <1>6, Zenon DEF TunnelOK

\* r is the connection of a request that has not been routed, and nobody is asked about it.
Idle(s, c, o, r) ==
    /\ s.byClient[c] = o /\ o # NON /\ r = s.conn[o] /\ r.sid = NON /\ r.up = NON /\ ~r.task
    /\ r.st \in {"WAITING_ACTION", "WAITING_RESOLVE", "REJECTED"}
    /\ c \notin s.app /\ c \notin s.waiters

\* What the invariant says of it.
IdleHolds(s, c, o, r) ==
    /\ o \in Objs /\ o \notin Sids /\ r \in VpnConnection /\ r # NON /\ r.cid = c /\ r.mig = NON
    /\ ~r.fakec /\ ~r.closed
    /\ s.lsn[c].st \notin {"none", "closed", "passed", "open"} /\ (r.proto = "udp" => ~s.lsn[c].unsent)
    /\ (r.proto = "tcp" => s.wire[c] \o r.buf = Counted(s.lsn[c].pos - 1))
    /\ Carries(s, o, c, NON) /\ Apart(s, o, c, NON) /\ s \in TunnelState

LEMMA IdleFacts ==
  ASSUME NEW s, TunnelOK(s), NEW c \in Cids, NEW o, NEW r, Idle(s, c, o, r)
  PROVE  IdleHolds(s, c, o, r)
<1>1. /\ s.byClient[c] = o /\ o # NON /\ r = s.conn[o] /\ r.sid = NON /\ r.up = NON /\ ~r.task
      /\ r.st \in {"WAITING_ACTION", "WAITING_RESOLVE", "REJECTED"}
      /\ c \notin s.app /\ c \notin s.waiters
  BY DEF Idle
<1>2. o \in Objs /\ r # NON /\ r.cid = c /\ CliBase(s, c) /\ ObjOK(s, o) /\ s \in TunnelState
  <2>1. o \in Objs /\ r # NON /\ r.cid = c /\ CliOK(s, c) /\ s \in TunnelState
    BY <1>1, SettledOf
  <2> QED BY <2>1, Zenon DEF TunnelOK, CliOK
<1>3. r \in VpnConnection /\ c # NON
  BY <1>1, <1>2, LiveConn, Apartness
<1>4. o \notin Sids /\ r.mig = NON /\ ~r.fakec /\ ~r.closed
  <2>1. o \notin Sids
    BY <1>1, <1>2, Zenon DEF ObjOK
  <2>2. r.mig = NON
    BY <1>1, <1>2, SMT DEF ObjOK
  <2>3. (r.fakec => r.up = "fake") /\ (r.closed => r.up = "endpoint")
    BY <1>1, <1>2, Zenon DEF ObjOK
  <2>4. "fake" # NON /\ "endpoint" # NON
    BY Apartness DEF Upstreams
  <2> QED BY <1>1, <2>1, <2>2, <2>3, <2>4
<1>5. s.lsn[c].st \notin {"none", "closed", "passed", "open"} /\ (r.proto = "udp" => ~s.lsn[c].unsent)
  BY <1>1, <1>2, SMT DEF CliBase
<1>6. r.proto = "tcp" => s.wire[c] \o r.buf = Counted(s.lsn[c].pos - 1)
  <2>1. r.st # "CONNECTED_MIGRATING"
    BY <1>1
  <2> QED BY <1>1, <1>2, <2>1, Zenon DEF CliBase
<1>7. Carries(s, o, c, NON) /\ Apart(s, o, c, NON)
  BY <1>1, <1>2, Owner
<1> QED BY <1>2, <1>3, <1>4, <1>5, <1>6, <1>7 DEF IdleHolds

\* The record of such a connection and what is asked about it change.
IdleSet(s, t, o, c, q) ==
    /\ t \in TunnelState /\ t.conn[o] = q /\ \A p \in Objs : p # o => t.conn[p] = s.conn[p]
    /\ t.byClient = s.byClient /\ t.byServer = s.byServer /\ t.lsn = s.lsn /\ t.ups = s.ups /\ t.wire = s.wire
    /\ \A d \in Cids : d # c => (d \in t.app <=> d \in s.app) /\ (d \in t.waiters <=> d \in s.waiters)

IdleRecord(r, q, c) ==
    /\ q \in VpnConnection /\ q.cid = c /\ q.sid = NON /\ q.proto = r.proto /\ q.mig = NON /\ q.buf = r.buf
    /\ ~q.closed /\ ~q.task /\ (q.fakec => q.up = "fake")
    /\ q.st \in {"WAITING_ACTION", "WAITING_RESOLVE", "REJECTED"}

LEMMA IdleStep ==
  ASSUME NEW s, TunnelOK(s), NEW c \in Cids, NEW o, NEW r, Idle(s, c, o, r), NEW t, NEW q,
         IdleSet(s, t, o, c, q), IdleRecord(r, q, c), ~(c \in t.app /\ c \in t.waiters),
         c \in t.app => q.up = NON /\ q.st = "WAITING_ACTION",
         c \in t.waiters => q.up = NON /\ q.st = "WAITING_RESOLVE"
  PROVE  TunnelOK(t)
<1>1. /\ o \in Objs /\ o \notin Sids /\ r \in VpnConnection /\ r # NON /\ r.cid = c /\ r.mig = NON
      /\ s.lsn[c].st \notin {"none", "closed", "passed", "open"} /\ (r.proto = "udp" => ~s.lsn[c].unsent)
      /\ (r.proto = "tcp" => s.wire[c] \o r.buf = Counted(s.lsn[c].pos - 1))
      /\ Carries(s, o, c, NON) /\ Apart(s, o, c, NON) /\ s \in TunnelState
  <2>1. IdleHolds(s, c, o, r)
    BY IdleFacts
  <2> QED BY <2>1 DEF IdleHolds
<1>2. /\ s.byClient[c] = o /\ r = s.conn[o]
      /\ r.st \in {"WAITING_ACTION", "WAITING_RESOLVE", "REJECTED"}
  BY DEF Idle
<1>3. /\ q \in VpnConnection /\ q.cid = c /\ q.sid = NON /\ q.proto = r.proto /\ q.mig = NON /\ q.buf = r.buf
      /\ ~q.closed /\ ~q.task /\ (q.fakec => q.up = "fake")
      /\ q.st \in {"WAITING_ACTION", "WAITING_RESOLVE", "REJECTED"}
  BY DEF IdleRecord
<1>4. /\ t \in TunnelState /\ t.conn[o] = q /\ \A p \in Objs : p # o => t.conn[p] = s.conn[p]
      /\ t.byClient = s.byClient /\ t.byServer = s.byServer /\ t.lsn = s.lsn /\ t.ups = s.ups /\ t.wire = s.wire
      /\ \A d \in Cids : d # c => (d \in t.app <=> d \in s.app) /\ (d \in t.waiters <=> d \in s.waiters)
  BY DEF IdleSet
<1>5. q # NON /\ c # NON
  BY <1>3, Apartness, Zenon
<1>6. Changed(s, t, o, c, NON)
  BY <1>4, Zenon DEF Changed
<1>7. Carries(t, o, c, NON)
  BY <1>1, <1>3, <1>4, Zenon DEF Carries
<1>8. ObjOK(t, o)
  <2>1. t.byClient[c] = o /\ t.lsn[c].st # "none"
    BY <1>1, <1>2, <1>4
  <2> QED BY <1>1, <1>3, <1>4, <1>5, <2>1, SMT DEF ObjOK
<1>9. FakeOK(t, o)
  BY <1>1, <1>3, <1>4, SMT DEF FakeOK
<1>10. CliOK(t, c)
  <2>1. PICK l : l = s.lsn[c]
    OBVIOUS
  <2>2. PICK w : w = s.wire[c]
    OBVIOUS
  <2>3. t.lsn[c] = l /\ t.wire[c] = w /\ l.st \notin {"none", "closed", "passed", "open"} /\ (q.proto = "udp" => ~l.unsent)
    BY <1>1, <1>3, <1>4, <2>1, <2>2
  <2>4. q.proto = "tcp" => w \o q.buf = Counted(l.pos - 1)
    BY <1>1, <1>3, <2>1, <2>2
  <2>5. CliParts(t, c, o, q, l, w)
    BY <1>2, <1>3, <1>4, <1>5, <2>3, <2>4 DEF CliParts
  <2> QED BY <2>5, CliBuilt
<1>11. MovesLeft(s, t, o, c)
  BY <1>1, <1>2, <1>3, <1>4, <1>5, SMT DEF MovesLeft
<1>12. ASSUME NEW d \in Cids PROVE MovesOK(t, d)
  <2>1. CliOK(s, d) /\ MovesOK(s, d)
    BY Zenon DEF TunnelOK
  <2>2. c \in Cids \cup {NON} /\ NON \in Sids \cup {NON} /\ (s.conn[o] # NON => s.conn[o].cid \in {c, NON})
    BY <1>1, <1>2
  <2> QED BY <1>1, <1>4, <1>6, <1>11, <2>1, <2>2, MovesKept
<1>13. \A d \in Cids : MovesOK(t, d)
  BY <1>12
<1>14. c \in Cids \cup {NON} /\ NON \in Sids \cup {NON} /\ (NON # NON => SrvOK(t, NON))
       /\ (c # NON => CliOK(t, c) /\ (t.lsn[c].st = "none" => s.lsn[c].st = "none"))
  BY <1>4, <1>10
<1>15. o \in Cids /\ o # c => s.lsn[o].st # "none"
  BY <1>1, <1>2, Zenon DEF TunnelOK, CliOK, CliBase
<1> QED
  BY <1>1, <1>4, <1>6, <1>7, <1>8, <1>9, <1>13, <1>14, <1>15, ClusterStep

\* A set of naturals that is not empty has a least element.
LEMMA LeastOf ==
  ASSUME NEW M, M \subseteq Nat, M # {}
  PROVE  \E x \in M : \A y \in M : x <= y
<1>1. PICK x \in M : \A y \in M : ~(<<y, x>> \in OpToRel(<, Nat))
  BY NatLessThanWellFounded, WFMin
<1>2. \A y \in M : y < x => <<y, x>> \in OpToRel(<, Nat)
  BY DEF OpToRel
<1>3. \A y \in M : ~(y < x)
  BY <1>1, <1>2, Zenon
<1>4. \A y \in M : x <= y
  BY <1>3, SMT
<1> QED BY <1>4

\* The least of the ids that are left.
LEMMA NextSidUnused ==
  ASSUME NEW s, Unused(s) # {}
  PROVE  NextSid(s) \in Sids /\ s.ups[NextSid(s)].u = NON
<1>1. Unused(s) \subseteq Nat
  BY DEF Unused, Sids
<1>2. PICK x \in Unused(s) : \A y \in Unused(s) : x <= y
  BY <1>1, LeastOf
<1>3. NextSid(s) \in Unused(s)
  BY <1>2, Zenon DEF NextSid
<1> QED BY <1>3 DEF Unused

\* The connection o is filed under the fresh id x of the upstream u.
OpensSet(s, t, o, x, q, e) ==
    /\ t \in TunnelState /\ t.conn[o] = q /\ \A p \in Objs : p # o => t.conn[p] = s.conn[p]
    /\ t.byServer[x] = o /\ \A y \in Sids : y # x => t.byServer[y] = s.byServer[y]
    /\ t.ups[x] = e /\ \A y \in Sids : y # x => t.ups[y] = s.ups[y]
    /\ t.byClient = s.byClient /\ t.waiters = s.waiters /\ t.app = s.app /\ t.lsn = s.lsn /\ t.wire = s.wire

LEMMA OpenedSet ==
  ASSUME NEW s \in TunnelState, NEW o \in Objs, NEW q \in VpnConnection, q.sid \in Sids, q.up \in Upstreams,
         NEW e, e = [u |-> q.up, st |-> "opening"]
  PROVE  OpensSet(s, Opens(s, o, q), o, q.sid, q, e)
<1>1. PICK x : x = q.sid
  OBVIOUS
<1>2. PICK t1 : t1 = [s EXCEPT !.ups[x] = e]
  OBVIOUS
<1>3. e \in UpstreamConn
  BY Zenon DEF UpstreamConn
<1>4. UpsSet(s, t1, x, e)
  BY <1>1, <1>2, <1>3, UpstreamSet
<1>5. PICK t2 : t2 = [t1 EXCEPT !.conn[o] = q]
  OBVIOUS
<1>6. t1 \in TunnelState
  BY <1>4 DEF UpsSet
<1>7. ConnSet(t1, t2, o, q)
  BY <1>5, <1>6, ConnectionSet
<1>8. PICK t : t = [t2 EXCEPT !.byServer[x] = o]
  OBVIOUS
<1>9. SrvSet(t2, t, x, o)
  <2>1. t2 \in TunnelState
    BY <1>7 DEF ConnSet
  <2> QED BY <1>1, <1>8, <2>1, ServerTableSet
<1>10. t = Opens(s, o, q)
  <2>1. t = [t1 EXCEPT !.conn[o] = q, !.byServer[x] = o]
    BY <1>5, <1>6, <1>8, StateFields, SMT DEF TunnelState
  <2>2. t1 = Open(s, q.up, q.sid)
    BY <1>1, <1>2 DEF Open
  <2> QED BY <1>1, <2>1, <2>2 DEF Opens
<1>11. /\ t \in TunnelState /\ t.byServer[x] = o /\ \A y \in Sids : y # x => t.byServer[y] = t2.byServer[y]
       /\ t.conn = t2.conn /\ t.byClient = t2.byClient /\ t.waiters = t2.waiters /\ t.app = t2.app /\ t.lsn = t2.lsn
       /\ t.ups = t2.ups /\ t.wire = t2.wire
  BY <1>9 DEF SrvSet
<1>12. /\ t2.conn[o] = q /\ \A p \in Objs : p # o => t2.conn[p] = t1.conn[p]
       /\ t2.byClient = t1.byClient /\ t2.byServer = t1.byServer /\ t2.waiters = t1.waiters /\ t2.app = t1.app
       /\ t2.lsn = t1.lsn /\ t2.ups = t1.ups /\ t2.wire = t1.wire
  BY <1>7 DEF ConnSet
<1>13. /\ t1.ups[x] = e /\ \A y \in Sids : y # x => t1.ups[y] = s.ups[y]
       /\ t1.conn = s.conn /\ t1.byClient = s.byClient /\ t1.byServer = s.byServer /\ t1.waiters = s.waiters
       /\ t1.app = s.app /\ t1.lsn = s.lsn /\ t1.wire = s.wire
  BY <1>4 DEF UpsSet
<1>14. t.conn[o] = q /\ \A p \in Objs : p # o => t.conn[p] = s.conn[p]
  BY <1>11, <1>12, <1>13, Zenon
<1>15. t.byServer[x] = o /\ \A y \in Sids : y # x => t.byServer[y] = s.byServer[y]
  BY <1>11, <1>12, <1>13, ZenonT(60)
<1>16. t.ups[x] = e /\ \A y \in Sids : y # x => t.ups[y] = s.ups[y]
  BY <1>11, <1>12, <1>13, ZenonT(60)
<1>17. t.byClient = s.byClient /\ t.waiters = s.waiters /\ t.app = s.app /\ t.lsn = s.lsn /\ t.wire = s.wire
  BY <1>11, <1>12, <1>13, Zenon
<1>18. OpensSet(s, t, o, x, q, e)
  BY <1>11, <1>14, <1>15, <1>16, <1>17 DEF OpensSet
<1> QED BY <1>1, <1>10, <1>18

\* Nobody carries an id that the upstreams have not used.
LEMMA FreshSid ==
  ASSUME NEW s, TunnelOK(s), NEW x \in Sids, s.ups[x].u = NON
  PROVE  s.byServer[x] = NON /\ \A p \in Objs : s.conn[p] # NON => s.conn[p].sid # x
<1>1. ASSUME NEW p \in Objs, s.conn[p] # NON, s.conn[p].sid = x PROVE FALSE
  <2>1. ObjOK(s, p) /\ x # NON
    BY Apartness, Zenon DEF TunnelOK
  <2> QED BY <1>1, <2>1, Zenon DEF ObjOK
<1>2. s.byServer[x] = NON
  <2> SUFFICES ASSUME s.byServer[x] # NON PROVE FALSE
    OBVIOUS
  <2>1. PICK o : o = s.byServer[x]
    OBVIOUS
  <2>2. o \in Objs /\ s.conn[o] # NON /\ s.conn[o].sid = x
    BY <2>1, ServerFiled
  <2> QED BY <1>1, <2>2
<1> QED BY <1>1, <1>2

\* The record of a request whose connection an upstream opens.
OpenRecord(r, q, c, x) ==
    /\ q \in VpnConnection /\ q.cid = c /\ q.sid = x /\ q.proto = r.proto /\ q.mig = NON /\ q.buf = r.buf
    /\ ~q.closed /\ ~q.task /\ (q.fakec <=> q.up = "fake") /\ q.up # NON /\ q.st = "WAITING_RESPONSE"

LEMMA OpenStep ==
  ASSUME NEW s, TunnelOK(s), NEW c \in Cids, NEW o, NEW r, Idle(s, c, o, r), NEW x \in Sids, s.ups[x].u = NON,
         NEW q, OpenRecord(r, q, c, x), NEW e, e.u = q.up, NEW t, OpensSet(s, t, o, x, q, e)
  PROVE  TunnelOK(t)
<1>1. /\ o \in Objs /\ o \notin Sids /\ r \in VpnConnection /\ r # NON /\ r.cid = c /\ r.mig = NON
      /\ s.lsn[c].st \notin {"none", "closed", "passed", "open"} /\ (r.proto = "udp" => ~s.lsn[c].unsent)
      /\ (r.proto = "tcp" => s.wire[c] \o r.buf = Counted(s.lsn[c].pos - 1))
      /\ Carries(s, o, c, NON) /\ Apart(s, o, c, NON) /\ s \in TunnelState
  <2>1. IdleHolds(s, c, o, r)
    BY IdleFacts
  <2> QED BY <2>1 DEF IdleHolds
<1>2. /\ s.byClient[c] = o /\ r = s.conn[o] /\ r.sid = NON /\ o # NON /\ c \notin s.app /\ c \notin s.waiters
      /\ r.st \in {"WAITING_ACTION", "WAITING_RESOLVE", "REJECTED"}
  BY DEF Idle
<1>3. /\ q \in VpnConnection /\ q.cid = c /\ q.sid = x /\ q.proto = r.proto /\ q.mig = NON /\ q.buf = r.buf
      /\ ~q.closed /\ ~q.task /\ (q.fakec <=> q.up = "fake") /\ q.up # NON /\ q.st = "WAITING_RESPONSE"
  BY DEF OpenRecord
<1>4. /\ t \in TunnelState /\ t.conn[o] = q /\ \A p \in Objs : p # o => t.conn[p] = s.conn[p]
      /\ t.byServer[x] = o /\ \A y \in Sids : y # x => t.byServer[y] = s.byServer[y]
      /\ t.ups[x] = e /\ \A y \in Sids : y # x => t.ups[y] = s.ups[y]
      /\ t.byClient = s.byClient /\ t.waiters = s.waiters /\ t.app = s.app /\ t.lsn = s.lsn /\ t.wire = s.wire
  BY DEF OpensSet
<1>5. q # NON /\ c # NON /\ x # NON
  BY <1>3, Apartness, Zenon
<1>6. s.byServer[x] = NON /\ \A p \in Objs : s.conn[p] # NON => s.conn[p].sid # x
  BY FreshSid
<1>7. Changed(s, t, o, c, x)
  BY <1>4, Zenon DEF Changed
<1>8. Carries(s, o, c, x) /\ Apart(s, o, c, x) /\ Carries(t, o, c, x)
  BY <1>1, <1>2, <1>3, <1>4, <1>6, Zenon DEF Carries, Apart
<1>9. ObjOK(t, o)
  <2>1. t.byClient[c] = o /\ t.lsn[c].st # "none" /\ t.ups[x].u = q.up /\ c \notin t.app /\ c \notin t.waiters
    BY <1>1, <1>2, <1>4
  <2> QED BY <1>1, <1>3, <1>4, <1>5, <2>1, SMT DEF ObjOK
<1>10. FakeOK(t, o)
  BY <1>1, <1>3, <1>4, SMT DEF FakeOK
<1>11. CliOK(t, c)
  <2>1. PICK l : l = s.lsn[c]
    OBVIOUS
  <2>2. PICK w : w = s.wire[c]
    OBVIOUS
  <2>3. t.lsn[c] = l /\ t.wire[c] = w /\ l.st \notin {"none", "closed", "passed", "open"} /\ (q.proto = "udp" => ~l.unsent)
    BY <1>1, <1>3, <1>4, <2>1, <2>2
  <2>4. q.proto = "tcp" => w \o q.buf = Counted(l.pos - 1)
    BY <1>1, <1>3, <2>1, <2>2
  <2>5. CliParts(t, c, o, q, l, w)
    BY <1>2, <1>3, <1>4, <1>5, <2>3, <2>4 DEF CliParts
  <2> QED BY <2>5, CliBuilt
<1>12. SrvOK(t, x)
  BY <1>2, <1>3, <1>4, <1>5, Zenon DEF SrvOK
<1>13. MovesLeft(s, t, o, c)
  BY <1>1, <1>2, <1>3, <1>4, <1>5, SMT DEF MovesLeft
<1>14. ASSUME NEW d \in Cids PROVE MovesOK(t, d)
  <2>1. CliOK(s, d) /\ MovesOK(s, d)
    BY Zenon DEF TunnelOK
  <2>2. c \in Cids \cup {NON} /\ x \in Sids \cup {NON} /\ (s.conn[o] # NON => s.conn[o].cid \in {c, NON})
    BY <1>1, <1>2
  <2> QED BY <1>1, <1>4, <1>7, <1>13, <2>1, <2>2, MovesKept
<1>15. \A d \in Cids : MovesOK(t, d)
  BY <1>14
<1>16. c \in Cids \cup {NON} /\ x \in Sids \cup {NON}
       /\ (c # NON => CliOK(t, c) /\ (t.lsn[c].st = "none" => s.lsn[c].st = "none"))
  BY <1>4, <1>11
<1>17. o \in Cids /\ o # c => s.lsn[o].st # "none"
  BY <1>1, <1>2, Zenon DEF TunnelOK, CliOK, CliBase
<1> QED
  BY <1>1, <1>4, <1>7, <1>8, <1>9, <1>10, <1>12, <1>15, <1>16, <1>17, ClusterStep

\* A request that is refused before it has a server side.
LEMMA RefusedOK ==
  ASSUME NEW s, TunnelOK(s), NEW c \in Cids, NEW o, NEW q, s.byClient[c] = o, o # NON, q = s.conn[o], q.sid = NON,
         q.st \in {"WAITING_ACTION", "REJECTED"}, c \notin s.app, c \notin s.waiters
  PROVE  TunnelOK(CloseClientSideConnection(s, o, FALSE, TRUE))
<1>1. o \in Objs /\ Settled(s, o, c, NON) /\ CliOK(s, c)
  BY SettledOf
<1>2. CliBacked(s, c)
  BY <1>1 DEF CliOK
<1>3. s.conn[o].st \notin {"WAITING_RESOLVE", "WAITING_RESPONSE"}
  OBVIOUS
<1>4. WorksOut(s, CloseClientSideConnection(s, o, FALSE, TRUE), o, c, NON)
  BY <1>1, <1>2, <1>3, CloseClientSideWorks
<1> QED BY <1>4, FiledStep

LEMMA RefuseOK ==
  ASSUME NEW s, TunnelOK(s), NEW c \in Cids, NEW o, NEW r, Idle(s, c, o, r), NEW q, IdleRecord(r, q, c), NEW async \in BOOLEAN,
         async => q.st # "WAITING_RESOLVE"
  PROVE  TunnelOK(CloseClientSideConnection([s EXCEPT !.conn[o] = q], o, FALSE, async))
<1>1. o \in Objs /\ s \in TunnelState
  <2>1. IdleHolds(s, c, o, r)
    BY IdleFacts
  <2> QED BY <2>1 DEF IdleHolds
<1>2. s.byClient[c] = o /\ o # NON /\ c \notin s.app /\ c \notin s.waiters
  BY DEF Idle
<1>3. q \in VpnConnection /\ q.sid = NON /\ q.st \in {"WAITING_ACTION", "WAITING_RESOLVE", "REJECTED"}
  BY DEF IdleRecord
<1>4. PICK t : t = [s EXCEPT !.conn[o] = q]
  OBVIOUS
<1>5. ConnSet(s, t, o, q)
  BY <1>1, <1>3, <1>4, ConnectionSet
<1>6. IdleSet(s, t, o, c, q) /\ c \notin t.app /\ c \notin t.waiters /\ t.byClient[c] = o /\ t.conn[o] = q
  BY <1>2, <1>5 DEF IdleSet, ConnSet
<1>7. TunnelOK(t)
  BY <1>6, IdleStep
<1>8. CASE async
  <2>1. q.st \in {"WAITING_ACTION", "REJECTED"}
    BY <1>3, <1>8
  <2>2. q = t.conn[o]
    BY <1>6
  <2>3. TunnelOK(CloseClientSideConnection(t, o, FALSE, TRUE))
    BY <1>2, <1>3, <1>6, <1>7, <2>1, <2>2, RefusedOK
  <2> QED BY <1>4, <1>8, <2>3
<1>9. CASE ~async
  <2>1. TunnelOK(CloseClientSideConnection(t, o, FALSE, FALSE))
    BY <1>2, <1>6, <1>7, SyncCloseOK
  <2> QED BY <1>4, <1>9, <2>1
<1> QED BY <1>8, <1>9

LEMMA SelectedUpstream ==
  ASSUME NEW a, NEW r
  PROVE  SelectUpstream(a, r) \in Upstreams /\ SelectUpstream(a, NON) \in Upstreams /\ SelectUpstream(a, NON) # "fake"
BY DEF SelectUpstream, UpstreamOf, Upstreams

\* The records that complete_connect_request makes of r.
\* What the answer to a request puts down in the connection.
RoutedAs(r, a, b, f) ==
    /\ a \in {"default", "bypass", "redirect"} /\ b \in BOOLEAN
    /\ f = [r EXCEPT !.forced = a, !.looking = b]

LEMMA RoutedRecord ==
  ASSUME NEW r, NEW c, IdleRecord(r, r, c), NEW a, NEW b, NEW f, RoutedAs(r, a, b, f)
  PROVE  IdleRecord(r, f, c) /\ f.up = r.up /\ f.st = r.st
<1>0. a \in {"default", "bypass", "redirect"} /\ b \in BOOLEAN /\ f = [r EXCEPT !.forced = a, !.looking = b]
  BY DEF RoutedAs
<1>1. r \in VpnConnection
  BY DEF IdleRecord
<1>2. f \in VpnConnection
  BY <1>0, <1>1, Zenon DEF VpnConnection
<1>3. /\ f.cid = r.cid /\ f.sid = r.sid /\ f.proto = r.proto /\ f.mig = r.mig /\ f.buf = r.buf /\ f.closed = r.closed
      /\ f.task = r.task /\ f.fakec = r.fakec /\ f.up = r.up /\ f.st = r.st
  BY <1>0, <1>1, Zenon DEF VpnConnection
<1> QED BY <1>2, <1>3 DEF IdleRecord

LEMMA IdleSame ==
  ASSUME NEW s, TunnelOK(s), NEW c \in Cids, NEW o, NEW r, Idle(s, c, o, r)
  PROVE  IdleRecord(r, r, c)
<1>1. IdleHolds(s, c, o, r)
  BY IdleFacts
<1> QED BY <1>1 DEF IdleHolds, Idle, IdleRecord

LEMMA IdleThrough ==
  ASSUME NEW r, NEW f, NEW q, NEW c, IdleRecord(r, f, c), IdleRecord(f, q, c)
  PROVE  IdleRecord(r, q, c)
BY DEF IdleRecord

\* g is f with its upstream, u.
UpSet(f, g, c, u) == IdleRecord(f, g, c) /\ g.up = u /\ (g.fakec <=> u = "fake") /\ g.st = f.st

LEMMA UpFakecSet ==
  ASSUME NEW f, NEW c, IdleRecord(f, f, c), NEW u \in Upstreams
  PROVE  UpSet(f, [f EXCEPT !.up = u, !.fakec = (u = "fake")], c, u)
<1>1. f \in VpnConnection
  BY DEF IdleRecord
<1>2. ASSUME NEW k \in BOOLEAN, k <=> u = "fake", NEW g, g = [f EXCEPT !.up = u, !.fakec = k]
      PROVE  UpSet(f, g, c, u)
  <2>1. g \in VpnConnection
    BY <1>1, <1>2, ZenonT(60) DEF VpnConnection
  <2>2. /\ g.cid = f.cid /\ g.sid = f.sid /\ g.proto = f.proto /\ g.mig = f.mig /\ g.buf = f.buf /\ g.closed = f.closed
        /\ g.task = f.task /\ g.up = u /\ g.st = f.st
    BY <1>1, <1>2, Zenon DEF VpnConnection
  <2>3. g.fakec = k
    BY <1>1, <1>2, Zenon DEF VpnConnection
  <2>4. g.fakec <=> u = "fake"
    BY <1>2, <2>3
  <2> QED BY <2>1, <2>2, <2>4 DEF IdleRecord, UpSet
<1>3. CASE u = "fake"
  <2>1. UpSet(f, [f EXCEPT !.up = u, !.fakec = TRUE], c, u)
    BY <1>2, <1>3
  <2> QED BY <1>3, <2>1
<1>4. CASE u # "fake"
  <2>1. UpSet(f, [f EXCEPT !.up = u, !.fakec = FALSE], c, u)
    BY <1>2, <1>4
  <2> QED BY <1>4, <2>1
<1> QED BY <1>3, <1>4

LEMMA UpUnset ==
  ASSUME NEW f, NEW c, IdleRecord(f, f, c), ~f.fakec, NEW g, g = [f EXCEPT !.up = NON]
  PROVE  IdleRecord(f, g, c) /\ g.st = f.st
<1>1. f \in VpnConnection
  BY DEF IdleRecord
<1>2. g \in VpnConnection
  BY <1>1, Zenon DEF VpnConnection
<1>3. /\ g.cid = f.cid /\ g.sid = f.sid /\ g.proto = f.proto /\ g.mig = f.mig /\ g.buf = f.buf /\ g.closed = f.closed
      /\ g.task = f.task /\ g.fakec = f.fakec /\ g.st = f.st
  BY <1>1, Zenon DEF VpnConnection
<1> QED BY <1>2, <1>3 DEF IdleRecord

LEMMA ResolveSet ==
  ASSUME NEW f, NEW c, IdleRecord(f, f, c), NEW g, g = [f EXCEPT !.st = "WAITING_RESOLVE"]
  PROVE  IdleRecord(f, g, c) /\ g.up = f.up /\ g.st = "WAITING_RESOLVE"
<1>1. f \in VpnConnection /\ "WAITING_RESOLVE" \in VpnConnectionState
  BY DEF IdleRecord, VpnConnectionState
<1>2. g \in VpnConnection
  BY <1>1, Zenon DEF VpnConnection
<1>3. /\ g.cid = f.cid /\ g.sid = f.sid /\ g.proto = f.proto /\ g.mig = f.mig /\ g.buf = f.buf /\ g.closed = f.closed
      /\ g.task = f.task /\ g.fakec = f.fakec /\ g.up = f.up /\ g.st = "WAITING_RESOLVE"
  BY <1>1, Zenon DEF VpnConnection
<1> QED BY <1>2, <1>3 DEF IdleRecord

LEMMA OpenedRecord ==
  ASSUME NEW r, NEW g, NEW c, IdleRecord(r, g, c), g.up # NON, g.fakec <=> g.up = "fake", NEW x \in Sids,
         NEW q, q = [g EXCEPT !.sid = x, !.st = "WAITING_RESPONSE"]
  PROVE  OpenRecord(r, q, c, x) /\ q.up = g.up
<1>1. g \in VpnConnection /\ "WAITING_RESPONSE" \in VpnConnectionState
  BY DEF IdleRecord, VpnConnectionState
<1>2. q \in VpnConnection
  BY <1>1, Zenon DEF VpnConnection
<1>3. /\ q.cid = g.cid /\ q.sid = x /\ q.proto = g.proto /\ q.mig = g.mig /\ q.buf = g.buf /\ q.closed = g.closed
      /\ q.task = g.task /\ q.fakec = g.fakec /\ q.up = g.up /\ q.st = "WAITING_RESPONSE"
  BY <1>1, Zenon DEF VpnConnection
<1> QED BY <1>2, <1>3 DEF IdleRecord, OpenRecord

\* open_connection succeeds for a request.
LEMMA OpensOK ==
  ASSUME NEW s, TunnelOK(s), NEW c \in Cids, NEW o, NEW r, Idle(s, c, o, r), NEW g, IdleRecord(r, g, c), g.up \in Upstreams,
         g.fakec <=> g.up = "fake", Unused(s) # {}, NEW q, q = [g EXCEPT !.sid = NextSid(s), !.st = "WAITING_RESPONSE"]
  PROVE  TunnelOK(Opens(s, o, q))
<1>1. PICK x : x = NextSid(s)
  OBVIOUS
<1>2. x \in Sids /\ s.ups[x].u = NON
  BY <1>1, NextSidUnused
<1>3. g.up # NON
  BY Apartness, Zenon
<1>4. OpenRecord(r, q, c, x) /\ q.up = g.up
  BY <1>1, <1>2, <1>3, OpenedRecord
<1>5. q \in VpnConnection /\ q.sid = x /\ q.up \in Upstreams
  BY <1>4 DEF OpenRecord
<1>6. o \in Objs /\ s \in TunnelState
  <2>1. IdleHolds(s, c, o, r)
    BY IdleFacts
  <2> QED BY <2>1 DEF IdleHolds
<1>7. PICK e : e = [u |-> q.up, st |-> "opening"]
  OBVIOUS
<1>8. OpensSet(s, Opens(s, o, q), o, x, q, e)
  BY <1>2, <1>5, <1>6, <1>7, OpenedSet
<1>9. e.u = q.up
  BY <1>7
<1> QED BY <1>2, <1>4, <1>8, <1>9, OpenStep

LEMMA CompleteOK ==
  ASSUME NEW s, TunnelOK(s), NEW c \in Cids, NEW o, NEW r, Idle(s, c, o, r), r.st # "WAITING_RESOLVE",
         NEW action \in {"default", "redirect", "bypass", "reject"}, NEW reach \in BOOLEAN, NEW open \in BOOLEAN
  PROVE  TunnelOK(CompleteConnectRequest(s, c, action, reach, open))
<1>1. s.byClient[c] = o /\ o # NON /\ r = s.conn[o] /\ r.up = NON
  BY DEF Idle
<1>2. IdleRecord(r, r, c)
  BY IdleSame
<1>3. o \in Objs /\ s \in TunnelState /\ ~r.fakec /\ r \in VpnConnection /\ c \notin s.app /\ c \notin s.waiters
  <2>1. IdleHolds(s, c, o, r)
    BY IdleFacts
  <2> QED BY <2>1 DEF IdleHolds, Idle
<1>4. CASE action = "reject"
  <2>1. TunnelOK(CloseClientSideConnection([s EXCEPT !.conn[o] = r], o, FALSE, TRUE))
    BY <1>2, RefuseOK
  <2>2. CompleteConnectRequest(s, c, action, reach, open) = CloseClientSideConnection([s EXCEPT !.conn[o] = r], o, FALSE, TRUE)
    BY <1>1, <1>4 DEF CompleteConnectRequest
  <2> QED BY <2>1, <2>2
<1>5. CASE action # "reject"
  <2>1. PICK a : a = IF action = "default" THEN r.forced ELSE action
    OBVIOUS
  <2>2. PICK b : b = IF action = "default" THEN r.dst = "addr" ELSE r.looking
    OBVIOUS
  <2>3. a \in {"default", "bypass", "redirect"} /\ b \in BOOLEAN
    <3>1. r.forced \in {"default", "bypass", "redirect"} /\ r.looking \in BOOLEAN
      BY <1>3, ConnFields
    <3>2. a \in {"default", "bypass", "redirect"}
      BY <1>5, <2>1, <3>1
    <3>3. b \in BOOLEAN
      BY <2>2, <3>1
    <3> QED BY <3>2, <3>3
  <2>4. PICK f : f = [r EXCEPT !.forced = a, !.looking = b]
    OBVIOUS
  <2>5. IdleRecord(r, f, c) /\ f.up = r.up /\ f.st = r.st
    <3>1. RoutedAs(r, a, b, f)
      BY <2>3, <2>4 DEF RoutedAs
    <3> QED BY <1>2, <3>1, RoutedRecord, Zenon
  <2>6. IdleRecord(f, f, c) /\ f.fakec = r.fakec
    <3>1. IdleRecord(f, f, c)
      BY <2>5 DEF IdleRecord
    <3>2. f.fakec = r.fakec
      BY <1>3, <2>4, Zenon DEF VpnConnection
    <3> QED BY <3>1, <3>2
  <2>7. PICK u : u = SelectUpstream(action, f)
    OBVIOUS
  <2>8. u \in Upstreams
    BY <2>7, SelectedUpstream
  <2>10. PICK g : g = [f EXCEPT !.up = u, !.fakec = (u = "fake")]
    OBVIOUS
  <2>11. IdleRecord(f, g, c) /\ g.up = u /\ (g.fakec <=> u = "fake") /\ g.st = f.st
    <3>1. UpSet(f, g, c, u)
      BY <2>6, <2>8, <2>10, UpFakecSet
    <3> QED BY <3>1 DEF UpSet
  <2>12. IdleRecord(r, g, c)
    BY <2>5, <2>11, IdleThrough
  <2>13. PICK h : h = [f EXCEPT !.up = NON]
    OBVIOUS
  <2>14. IdleRecord(f, h, c) /\ h.st = f.st
    BY <1>3, <2>6, <2>13, UpUnset
  <2>15. IdleRecord(r, h, c)
    BY <2>5, <2>14, IdleThrough
  <2>16. PICK w : w = [f EXCEPT !.st = "WAITING_RESOLVE"]
    OBVIOUS
  <2>17. IdleRecord(f, w, c) /\ w.up = f.up /\ w.st = "WAITING_RESOLVE"
    BY <2>6, <2>16, ResolveSet
  <2>18. IdleRecord(r, w, c)
    BY <2>5, <2>17, IdleThrough
  <2>19. PICK z : z = NeedResolveHostname(r, u)
    OBVIOUS
  <2>20. PICK q : q = [g EXCEPT !.sid = NextSid(s), !.st = "WAITING_RESPONSE"]
    OBVIOUS
  <2>21. CompleteConnectRequest(s, c, action, reach, open) =
           IF ~reach \/ (z /\ ~open) THEN CloseClientSideConnection([s EXCEPT !.conn[o] = f], o, FALSE, TRUE)
           ELSE IF z THEN [s EXCEPT !.conn[o] = w, !.waiters = @ \cup {c}]
           ELSE IF u = "endpoint" /\ s.ep \notin {"on", "lost"}
           THEN CloseClientSideConnection([s EXCEPT !.conn[o] = h], o, FALSE, TRUE)
           ELSE IF ~open \/ ~MayOpen(s, u) THEN CloseClientSideConnection([s EXCEPT !.conn[o] = g], o, FALSE, TRUE)
           ELSE Opens(s, o, q)
    <3>1. f = [r EXCEPT !.forced = IF action = "default" THEN @ ELSE action,
                        !.looking = IF action = "default" THEN r.dst = "addr" ELSE @]
      BY <2>1, <2>2, <2>4
    <3> QED BY <1>1, <1>5, <2>7, <2>10, <2>13, <2>16, <2>19, <2>20, <3>1 DEF CompleteConnectRequest
  <2>22. TunnelOK(CloseClientSideConnection([s EXCEPT !.conn[o] = f], o, FALSE, TRUE))
    BY <2>5, RefuseOK
  <2>23. TunnelOK(CloseClientSideConnection([s EXCEPT !.conn[o] = g], o, FALSE, TRUE))
    <3>1. g.st # "WAITING_RESOLVE"
      BY <2>5, <2>11
    <3> QED BY <2>12, <3>1, RefuseOK
  <2>24. TunnelOK(CloseClientSideConnection([s EXCEPT !.conn[o] = h], o, FALSE, TRUE))
    <3>1. h.st # "WAITING_RESOLVE"
      BY <2>5, <2>14
    <3> QED BY <2>15, <3>1, RefuseOK
  <2>25. ASSUME MayOpen(s, u) PROVE TunnelOK(Opens(s, o, q))
    <3>1. Unused(s) # {}
      BY <2>25 DEF MayOpen
    <3>2. g.up \in Upstreams /\ (g.fakec <=> g.up = "fake")
      BY <2>8, <2>11
    <3> QED BY <2>12, <2>20, <3>1, <3>2, OpensOK
  <2>26. TunnelOK([s EXCEPT !.conn[o] = w, !.waiters = @ \cup {c}])
    <3>1. w \in VpnConnection /\ w.up = NON
      BY <1>1, <2>5, <2>17, <2>18 DEF IdleRecord
    <3>2. PICK v : v = s.waiters \cup {c}
      OBVIOUS
    <3>3. PICK t1 : t1 = [s EXCEPT !.conn[o] = w]
      OBVIOUS
    <3>4. ConnSet(s, t1, o, w)
      BY <1>3, <3>1, <3>3, ConnectionSet
    <3>5. t1 \in TunnelState /\ v \in SUBSET Cids
      BY <1>3, <3>2, <3>4, StateFields DEF ConnSet
    <3>6. PICK t : t = [t1 EXCEPT !.waiters = v]
      OBVIOUS
    <3>7. /\ t \in TunnelState /\ t.waiters = v
          /\ t.conn = t1.conn /\ t.byClient = t1.byClient /\ t.byServer = t1.byServer /\ t.app = t1.app
          /\ t.lsn = t1.lsn /\ t.ups = t1.ups /\ t.wire = t1.wire
      BY <3>5, <3>6, WaitersSet
    <3>8. /\ t1.conn[o] = w /\ \A p \in Objs : p # o => t1.conn[p] = s.conn[p]
          /\ t1.byClient = s.byClient /\ t1.byServer = s.byServer /\ t1.app = s.app
          /\ t1.lsn = s.lsn /\ t1.ups = s.ups /\ t1.wire = s.wire
      BY <3>4 DEF ConnSet
    <3>9. \A d \in Cids : d # c => (d \in t.app <=> d \in s.app) /\ (d \in t.waiters <=> d \in s.waiters)
      BY <3>2, <3>7, <3>8
    <3>10. t.conn[o] = w /\ \A p \in Objs : p # o => t.conn[p] = s.conn[p]
      BY <3>7, <3>8, Zenon
    <3>11. t.byClient = s.byClient /\ t.byServer = s.byServer /\ t.lsn = s.lsn /\ t.ups = s.ups /\ t.wire = s.wire
      BY <3>7, <3>8
    <3>12. IdleSet(s, t, o, c, w)
      BY <3>7, <3>9, <3>10, <3>11 DEF IdleSet
    <3>13. c \notin t.app
      BY <1>3, <3>7, <3>8
    <3>14. TunnelOK(t)
      BY <2>17, <2>18, <3>1, <3>12, <3>13, IdleStep
    <3>15. t = [s EXCEPT !.conn[o] = w, !.waiters = @ \cup {c}]
      <4>1. t = [s EXCEPT !.conn[o] = w, !.waiters = v]
        BY <1>3, <3>3, <3>6, StateFields, SMT DEF TunnelState
      <4> QED BY <3>2, <4>1
    <3> QED BY <3>14, <3>15
  <2> QED BY <2>21, <2>22, <2>23, <2>24, <2>25, <2>26
<1> QED BY <1>4, <1>5

\* A request: its record, and the state that it is filed in.
RequestRecord(r, c) ==
    /\ r \in VpnConnection /\ r.cid = c /\ r.sid = NON /\ r.up = NON /\ r.st = "WAITING_ACTION" /\ r.mig = NON /\ ~r.fakec
    /\ ~r.closed /\ ~r.task /\ r.buf = <<>>

RequestSet(s, t, c, r, l) ==
    /\ t \in TunnelState /\ t.conn[c] = r /\ \A p \in Objs : p # c => t.conn[p] = s.conn[p]
    /\ t.byClient[c] = c /\ \A d \in Cids : d # c => t.byClient[d] = s.byClient[d]
    /\ t.lsn[c] = l /\ \A d \in Cids : d # c => t.lsn[d] = s.lsn[d]
    /\ t.byServer = s.byServer /\ t.waiters = s.waiters /\ t.app = s.app /\ t.ups = s.ups /\ t.wire = s.wire

LEMMA RequestStep ==
  ASSUME NEW s, TunnelOK(s), NEW c \in Cids, s.lsn[c].st = "none", NEW r, RequestRecord(r, c),
         NEW l, l.st = "asked", l.unsent = s.lsn[c].unsent, l.pos = s.lsn[c].pos, NEW t, RequestSet(s, t, c, r, l)
  PROVE  TunnelOK(t) /\ Idle(t, c, c, r)
<1>0. s \in TunnelState /\ c # NON /\ c \in Objs /\ c \notin Sids
  BY Apartness, TunnelAssumption, Zenon DEF TunnelOK, Objs
<1>1. r \in VpnConnection
  BY DEF RequestRecord
<1>2. /\ r.cid = c /\ r.sid = NON /\ r.up = NON /\ r.st = "WAITING_ACTION" /\ r.mig = NON /\ ~r.fakec
      /\ ~r.closed /\ ~r.task /\ r.buf = <<>>
  BY DEF RequestRecord
<1>3. PICK l0 : l0 = s.lsn[c]
  OBVIOUS
<1>5. CliOK(s, c)
  BY Zenon DEF TunnelOK
<1>6. l.st = "asked" /\ l.unsent = l0.unsent /\ l.pos = l0.pos
  BY <1>3
<1>7. /\ s.byClient[c] = NON /\ s.conn[c] = NON /\ s.wire[c] = <<>> /\ l0.pos = 1
      /\ c \notin s.app /\ c \notin s.waiters /\ ~l0.unsent
  BY <1>3, <1>5, Zenon DEF CliOK, CliBase
<1>17. t \in TunnelState
  BY DEF RequestSet
<1>18. t.conn[c] = r /\ \A p \in Objs : p # c => t.conn[p] = s.conn[p]
  BY DEF RequestSet
<1>19. t.byClient[c] = c /\ \A d \in Cids : d # c => t.byClient[d] = s.byClient[d]
  BY DEF RequestSet
<1>20. t.lsn[c] = l /\ \A d \in Cids : d # c => t.lsn[d] = s.lsn[d]
  BY DEF RequestSet
<1>21. t.byServer = s.byServer /\ t.waiters = s.waiters /\ t.app = s.app /\ t.ups = s.ups /\ t.wire = s.wire
  BY DEF RequestSet
<1>22. r # NON
  BY <1>1, Apartness
<1>23. ASSUME NEW p \in Objs, s.conn[p] # NON PROVE s.conn[p].cid # c /\ s.conn[p].mig # c
  <2>1. ObjOK(s, p)
    BY Zenon DEF TunnelOK
  <2> QED BY <1>0, <1>23, <2>1, Zenon DEF ObjOK
<1>24. Changed(s, t, c, c, NON)
  BY <1>18, <1>19, <1>20, <1>21, Zenon DEF Changed
<1>25. Carries(s, c, c, NON) /\ Apart(s, c, c, NON) /\ Carries(t, c, c, NON)
  <2>1. Carries(s, c, c, NON) /\ Apart(s, c, c, NON)
    BY <1>7, <1>23, Zenon DEF Carries, Apart
  <2>2. Carries(t, c, c, NON)
    BY <1>2, <1>18, <1>19, Zenon DEF Carries
  <2> QED BY <2>1, <2>2
<1>26. ObjOK(t, c)
  BY <1>0, <1>2, <1>6, <1>7, <1>18, <1>19, <1>20, <1>21, <1>22, SMT DEF ObjOK
<1>27. FakeOK(t, c)
  BY <1>0, <1>2, <1>18, SMT DEF FakeOK
<1>28. CliOK(t, c)
  <2>1. PICK w : w = t.wire[c]
    OBVIOUS
  <2>2. w \o r.buf = Counted(l.pos - 1)
    <3>1. w = <<>> /\ r.buf = <<>> /\ l.pos = 1
      BY <1>2, <1>6, <1>7, <1>21, <2>1
    <3>2. <<>> \o <<>> = <<>> /\ Counted(1 - 1) = <<>>
      BY DEF Counted
    <3> QED BY <3>1, <3>2, Zenon
  <2>3. CliParts(t, c, c, r, l, w)
    BY <1>2, <1>6, <1>7, <1>18, <1>19, <1>20, <1>21, <1>22, <2>1, <2>2 DEF CliParts
  <2> QED BY <2>3, CliBuilt
<1>29. ASSUME NEW d \in Cids PROVE MovesOK(t, d)
  <2>0. d # NON
    BY Apartness, Zenon
  <2>1. CASE d = c
    <3>1. ASSUME NEW p \in Objs, t.conn[p] # NON PROVE t.conn[p].mig # d
      BY <1>2, <1>18, <1>23, <2>0, <2>1, <3>1
    <3> QED BY <3>1, Zenon DEF MovesOK
  <2>2. CASE d # c
    <3>1. CliOK(s, d) /\ MovesOK(s, d)
      BY Zenon DEF TunnelOK
    <3>2. t.byClient[d] = s.byClient[d] /\ t.wire[d] = s.wire[d] /\ t.lsn[d] = s.lsn[d]
      BY <1>19, <1>20, <1>21, <2>2
    <3> SUFFICES ASSUME s.byClient[d] # NON PROVE MovesOK(t, d)
      BY <3>2, Zenon DEF MovesOK
    <3>3. s.byClient[d] \in Objs /\ s.conn[s.byClient[d]] # NON
      BY SettledOf
    <3>4. t.conn[s.byClient[d]] = s.conn[s.byClient[d]]
      BY <1>7, <1>18, <3>3
    <3>5. \A p \in Objs : t.conn[p] # NON /\ t.conn[p].mig = d => s.conn[p] = t.conn[p]
      BY <1>2, <1>18, <2>0, Zenon
    <3> QED BY <3>1, <3>2, <3>4, <3>5, ZenonT(60) DEF MovesOK
  <2> QED BY <2>1, <2>2
<1>30. \A d \in Cids : MovesOK(t, d)
  BY <1>29
<1>31. c \in Cids \cup {NON} /\ NON \in Sids \cup {NON} /\ (NON # NON => SrvOK(t, NON))
       /\ (c # NON => CliOK(t, c) /\ (t.lsn[c].st = "none" => s.lsn[c].st = "none"))
  BY <1>28
<1>32. TunnelOK(t)
  BY <1>0, <1>17, <1>24, <1>25, <1>26, <1>27, <1>30, <1>31, ClusterStep
<1>33. Idle(t, c, c, r)
  BY <1>0, <1>2, <1>7, <1>18, <1>19, <1>21 DEF Idle
<1> QED BY <1>32, <1>33

LEMMA RequestFiled ==
  ASSUME NEW s \in TunnelState, NEW c \in Cids, c \in Objs, NEW r \in VpnConnection, NEW l \in ListenerConn
  PROVE  RequestSet(s, [s EXCEPT !.conn[c] = r, !.byClient[c] = c, !.lsn[c] = l], c, r, l)
<1>8. PICK t1 : t1 = [s EXCEPT !.conn[c] = r]
  OBVIOUS
<1>9. ConnSet(s, t1, c, r)
  BY <1>8, ConnectionSet
<1>10. PICK t2 : t2 = [t1 EXCEPT !.byClient[c] = c]
  OBVIOUS
<1>11. CliSet(t1, t2, c, c)
  <2>1. t1 \in TunnelState
    BY <1>9 DEF ConnSet
  <2> QED BY <1>10, <2>1, ClientTableSet
<1>a. PICK t : t = [t2 EXCEPT !.lsn[c] = l]
  OBVIOUS
<1>14. LsnSet(t2, t, c, l)
  <2>1. t2 \in TunnelState
    BY <1>11 DEF CliSet
  <2> QED BY <1>a, <2>1, ListenerSet
<1>13. t = [s EXCEPT !.conn[c] = r, !.byClient[c] = c, !.lsn[c] = l]
  BY <1>8, <1>10, <1>a, StateFields, SMT DEF TunnelState
<1>15. /\ t1.conn[c] = r /\ \A p \in Objs : p # c => t1.conn[p] = s.conn[p]
       /\ t1.byClient = s.byClient /\ t1.byServer = s.byServer /\ t1.waiters = s.waiters /\ t1.app = s.app
       /\ t1.lsn = s.lsn /\ t1.ups = s.ups /\ t1.wire = s.wire
  BY <1>9 DEF ConnSet
<1>16. /\ t2.byClient[c] = c /\ \A d \in Cids : d # c => t2.byClient[d] = t1.byClient[d]
       /\ t2.conn = t1.conn /\ t2.byServer = t1.byServer /\ t2.waiters = t1.waiters /\ t2.app = t1.app
       /\ t2.lsn = t1.lsn /\ t2.ups = t1.ups /\ t2.wire = t1.wire
  BY <1>11 DEF CliSet
<1>17. /\ t \in TunnelState /\ t.lsn[c] = l /\ \A d \in Cids : d # c => t.lsn[d] = t2.lsn[d]
       /\ t.conn = t2.conn /\ t.byClient = t2.byClient /\ t.byServer = t2.byServer /\ t.waiters = t2.waiters /\ t.app = t2.app
       /\ t.ups = t2.ups /\ t.wire = t2.wire
  BY <1>14 DEF LsnSet
<1>18. t.conn[c] = r /\ \A p \in Objs : p # c => t.conn[p] = s.conn[p]
  BY <1>15, <1>16, <1>17, ZenonT(60)
<1>19. t.byClient[c] = c /\ \A d \in Cids : d # c => t.byClient[d] = s.byClient[d]
  BY <1>15, <1>16, <1>17, Zenon
<1>20. t.lsn[c] = l /\ \A d \in Cids : d # c => t.lsn[d] = s.lsn[d]
  BY <1>15, <1>16, <1>17, ZenonT(60)
<1>21. t.byServer = s.byServer /\ t.waiters = s.waiters /\ t.app = s.app /\ t.ups = s.ups /\ t.wire = s.wire
  BY <1>15, <1>16, <1>17, Zenon
<1>b. RequestSet(s, t, c, r, l)
  BY <1>17, <1>18, <1>19, <1>20, <1>21 DEF RequestSet
<1> QED BY <1>13, <1>b

Requested(t, c, r) == TunnelOK(t) /\ Idle(t, c, c, r) /\ r.st = "WAITING_ACTION"

LEMMA MadeRecord ==
  ASSUME NEW c \in Cids, NEW proto \in {"tcp", "udp"}, NEW dst \in {"addr", "name", "dns"},
         NEW r, r = [Make(c, proto, dst) EXCEPT !.first = TRUE]
  PROVE  RequestRecord(r, c)
<1>1. "WAITING_ACTION" \in VpnConnectionState /\ <<>> \in Seq(1..MaxPkt) /\ 0 \in 0..(MaxLookupAttempts + 1)
  BY TunnelAssumption DEF VpnConnectionState
<1>2. r \in VpnConnection
  BY <1>1, Zenon DEF VpnConnection, Make
<1>3. /\ r.cid = c /\ r.sid = NON /\ r.up = NON /\ r.st = "WAITING_ACTION" /\ r.mig = NON /\ ~r.fakec
      /\ ~r.closed /\ ~r.task /\ r.buf = <<>>
  BY Zenon DEF Make
<1> QED BY <1>2, <1>3 DEF RequestRecord

LEMMA RequestMade ==
  ASSUME NEW s, TunnelOK(s), NEW c \in Cids, s.lsn[c].st = "none", NEW r, RequestRecord(r, c),
         NEW t, t = [s EXCEPT !.conn[c] = r, !.byClient[c] = c, !.lsn[c] = [s.lsn[c] EXCEPT !.st = "asked"]]
  PROVE  Requested(t, c, r)
<1>0. s \in TunnelState /\ c \in Objs
  BY DEF TunnelOK, Objs
<1>2. r \in VpnConnection /\ r.st = "WAITING_ACTION"
  BY DEF RequestRecord
<1>4. PICK l : l = [s.lsn[c] EXCEPT !.st = "asked"]
  OBVIOUS
<1>5. l \in ListenerConn /\ l.st = "asked" /\ l.unsent = s.lsn[c].unsent /\ l.pos = s.lsn[c].pos
  <2>1. "asked" \in ListenerStates /\ s.lsn[c] \in ListenerConn
    BY <1>0, LsnFields DEF ListenerStates
  <2> QED BY <1>4, <2>1, Zenon DEF ListenerConn
<1>7. RequestSet(s, t, c, r, l)
  <2>1. RequestSet(s, [s EXCEPT !.conn[c] = r, !.byClient[c] = c, !.lsn[c] = l], c, r, l)
    BY <1>0, <1>2, <1>5, RequestFiled
  <2> QED BY <1>4, <2>1
<1>8. TunnelOK(t) /\ Idle(t, c, c, r)
  BY <1>5, <1>7, RequestStep
<1> QED BY <1>2, <1>8 DEF Requested

LEMMA ConnectRequestStep ==
  ASSUME TunnelOK(State), NEW c \in Cids, ConnectRequest(c)
  PROVE  TunnelOK(State)'
<1>1. PICK proto \in {"tcp", "udp"}, dst \in {"addr", "name", "dns"} :
        LET s == [State EXCEPT !.conn[c] = [Make(c, proto, dst) EXCEPT !.first = TRUE],
                               !.byClient[c] = c, !.lsn[c].st = "asked"]
        IN  \/ Becomes([s EXCEPT !.app = @ \cup {c}])
            \/ \E action \in {"default", "redirect", "bypass"}, ok \in BOOLEAN :
                 Becomes(CompleteConnectRequest(s, c, action, TRUE, ok))
  BY Zenon DEF ConnectRequest
<1>2. PICK r : r = [Make(c, proto, dst) EXCEPT !.first = TRUE]
  OBVIOUS
<1>3. PICK s : s = [State EXCEPT !.conn[c] = r, !.byClient[c] = c, !.lsn[c].st = "asked"]
  OBVIOUS
<1>4. State.lsn[c].st = "none"
  BY StateIs, Zenon DEF ConnectRequest
<1>5. TunnelOK(s) /\ Idle(s, c, c, r) /\ r.st = "WAITING_ACTION"
  <2>1. PICK z : z = State
    OBVIOUS
  <2>2. TunnelOK(z) /\ z.lsn[c].st = "none" 
        /\ s = [z EXCEPT !.conn[c] = r, !.byClient[c] = c, !.lsn[c] = [z.lsn[c] EXCEPT !.st = "asked"]]
    BY <1>3, <1>4, <2>1, Zenon
  <2>4. RequestRecord(r, c)
    BY <1>2, MadeRecord
  <2>3. Requested(s, c, r)
    BY <2>2, <2>4, RequestMade, Zenon
  <2> QED BY <2>3 DEF Requested
<1>6. \/ Becomes([s EXCEPT !.app = @ \cup {c}])
      \/ \E action \in {"default", "redirect", "bypass"}, ok \in BOOLEAN :
            Becomes(CompleteConnectRequest(s, c, action, TRUE, ok))
  BY <1>1, <1>2, <1>3, Zenon
<1>7. CASE Becomes([s EXCEPT !.app = @ \cup {c}])
  <2>1. s \in TunnelState /\ s.app \subseteq Cids
    BY <1>5, StateFields DEF TunnelOK
  <2>2. PICK a : a = s.app \cup {c}
    OBVIOUS
  <2>3. PICK t : t = [s EXCEPT !.app = a]
    OBVIOUS
  <2>4. a \in SUBSET Cids
    BY <2>1, <2>2
  <2>5. /\ t \in TunnelState /\ t.app = a
        /\ t.conn = s.conn /\ t.byClient = s.byClient /\ t.byServer = s.byServer /\ t.waiters = s.waiters
        /\ t.ep = s.ep /\ t.lsn = s.lsn /\ t.ups = s.ups /\ t.wire = s.wire
    BY <2>1, <2>3, <2>4, AppSet
  <2>6. s.conn[c] = r /\ c \notin s.waiters /\ r.up = NON
    BY <1>5 DEF Idle
  <2>7. IdleSet(s, t, c, c, r)
    BY <2>2, <2>5, <2>6 DEF IdleSet
  <2>8. IdleRecord(r, r, c)
    BY <1>5, IdleSame
  <2>9. TunnelOK(t)
    BY <1>5, <2>5, <2>6, <2>7, <2>8, IdleStep
  <2>10. Becomes(t)
    BY <1>7, <2>2, <2>3, Zenon
  <2> QED BY <2>9, <2>10, Became
<1>8. CASE \E action \in {"default", "redirect", "bypass"}, ok \in BOOLEAN :
            Becomes(CompleteConnectRequest(s, c, action, TRUE, ok))
  <2>1. PICK action \in {"default", "redirect", "bypass"}, ok \in BOOLEAN :
            Becomes(CompleteConnectRequest(s, c, action, TRUE, ok))
    BY <1>8
  <2>2. TunnelOK(CompleteConnectRequest(s, c, action, TRUE, ok))
    BY <1>5, CompleteOK
  <2> QED BY <2>1, <2>2, Became
<1> QED BY <1>6, <1>7, <1>8

\* A request that the application or the resolver has just answered is idle.
LEMMA PendingIdle ==
  ASSUME NEW s, TunnelOK(s), NEW c \in Cids, NEW o, s.byClient[c] = o, o # NON, c \in s.app \cup s.waiters,
         NEW t, t.conn = s.conn, t.byClient = s.byClient, c \notin t.app, c \notin t.waiters
  PROVE  /\ Idle(t, c, o, s.conn[o]) /\ o \in Objs /\ s.conn[o] # NON /\ s.conn[o] \in VpnConnection
         /\ c \in s.app => s.conn[o].st # "WAITING_RESOLVE"
<1>1. o \in Objs /\ s.conn[o] # NON /\ s.conn[o].cid = c /\ s \in TunnelState
  BY SettledOf
<1>2. s.conn[o] \in VpnConnection
  BY <1>1, LiveConn
<1>3. ObjOK(s, o)
  BY <1>1 DEF TunnelOK
<1>4. PICK r : r = s.conn[o]
  OBVIOUS
<1>5. r.cid = c /\ r # NON
  BY <1>1, <1>4
<1>6. /\ c \in s.app => r.up = NON /\ r.sid = NON /\ r.st \in {"WAITING_ACTION", "REJECTED"}
      /\ c \in s.waiters => r.up = NON /\ r.sid = NON /\ r.st \in {"WAITING_RESOLVE", "REJECTED"}
      /\ r.task => c \notin s.app /\ c \notin s.waiters
  BY <1>3, <1>4, <1>5, Zenon DEF ObjOK
<1>7. r.up = NON /\ r.sid = NON /\ ~r.task /\ r.st \in {"WAITING_ACTION", "WAITING_RESOLVE", "REJECTED"}
  BY <1>6
<1>8. Idle(t, c, o, r)
  BY <1>4, <1>7 DEF Idle
<1> QED BY <1>1, <1>2, <1>4, <1>6, <1>8

LEMMA SuspectSet ==
  ASSUME NEW r \in VpnConnection, NEW b \in BOOLEAN, NEW q, q = [r EXCEPT !.suspect = b]
  PROVE  SameButFlags(r, q)
<1>1. q \in VpnConnection
  BY Zenon DEF VpnConnection
<1>2. /\ q.cid = r.cid /\ q.sid = r.sid /\ q.up = r.up /\ q.st = r.st /\ q.proto = r.proto /\ q.mig = r.mig /\ q.first = r.first
      /\ q.fakec = r.fakec /\ q.closed = r.closed /\ q.task = r.task /\ q.buf = r.buf /\ q.looking = r.looking
  BY Zenon DEF VpnConnection
<1> QED BY <1>1, <1>2 DEF SameButFlags

LEMMA AppCompletesStep ==
  ASSUME TunnelOK(State), NEW c \in Cids, AppCompletes(c)
  PROVE  TunnelOK(State)'
<1>1. PICK a \in FinalizeConnectAction, reach \in IsDestinationReachable, ok \in BOOLEAN :
         LET s == [State EXCEPT !.app = @ \ {c}]
             o == byClient[c]
         IN  Becomes(IF o = NON THEN s
                     ELSE CompleteConnectRequest(
                            [s EXCEPT !.conn[o].suspect = a[2] /\ conn[o].dst = "addr"],
                            c, a[1], reach, ok))
  BY Zenon DEF AppCompletes
<1>2. PICK o : o = byClient[c]
  OBVIOUS
<1>3. PICK p : p = app \ {c}
  OBVIOUS
<1>4. PICK s : s = [State EXCEPT !.app = p]
  OBVIOUS
<1>5. State \in TunnelState /\ c \in State.app /\ State.byClient[c] = o
  BY <1>2, StateIs DEF TunnelOK, AppCompletes
<1>6. p \in SUBSET Cids /\ p \subseteq State.app /\ c \notin p
  BY <1>3, <1>5, StateFields, StateIs
<1>7. /\ s \in TunnelState /\ s.app = p
      /\ s.conn = State.conn /\ s.byClient = State.byClient /\ s.byServer = State.byServer /\ s.waiters = State.waiters
      /\ s.ep = State.ep /\ s.lsn = State.lsn /\ s.ups = State.ups /\ s.wire = State.wire
  <2>1. State \in TunnelState /\ p \in SUBSET Cids
    BY <1>5, <1>6
  <2>2. PICK z : z = State
    OBVIOUS
  <2>3. z \in TunnelState /\ s = [z EXCEPT !.app = p]
    BY <1>4, <2>1, <2>2
  <2>4. /\ s \in TunnelState /\ s.app = p
        /\ s.conn = z.conn /\ s.byClient = z.byClient /\ s.byServer = z.byServer /\ s.waiters = z.waiters
        /\ s.ep = z.ep /\ s.lsn = z.lsn /\ s.ups = z.ups /\ s.wire = z.wire
    BY <2>1, <2>3, AppSet
  <2> QED BY <2>2, <2>4
<1>8. TunnelOK(s)
  BY <1>6, <1>7, PendingFewer
<1>9. a[1] \in {"default", "redirect", "bypass", "reject"} /\ a[2] \in BOOLEAN /\ reach \in BOOLEAN
  <2>1. a \in {<<e, FALSE>> : e \in {"default", "redirect", "bypass", "reject"}} \/ a = <<"default", TRUE>>
    BY DEF FinalizeConnectAction
  <2>2. CASE a = <<"default", TRUE>>
    BY <2>2 DEF IsDestinationReachable
  <2>3. CASE a \in {<<e, FALSE>> : e \in {"default", "redirect", "bypass", "reject"}}
    <3>1. PICK e \in {"default", "redirect", "bypass", "reject"} : a = <<e, FALSE>>
      BY <2>3
    <3>2. a[1] = e /\ a[2] = FALSE
      BY <3>1
    <3> QED BY <3>2 DEF IsDestinationReachable
  <2> QED BY <2>1, <2>2, <2>3
<1>10. Becomes(IF o = NON THEN s
               ELSE CompleteConnectRequest([s EXCEPT !.conn[o].suspect = a[2] /\ conn[o].dst = "addr"], c, a[1], reach, ok))
  BY <1>1, <1>2, <1>3, <1>4, StateIs, Zenon
<1>11. CASE o = NON
  BY <1>8, <1>10, <1>11, Became
<1>12. CASE o # NON
  <2>0. CliOK(State, c)
    BY DEF TunnelOK
  <2>1. c \notin s.waiters /\ c \notin s.app
    BY <1>5, <1>6, <1>7, <2>0 DEF CliOK, CliBase
  <2>2. PICK r : r = State.conn[o]
    OBVIOUS
  <2>3. Idle(s, c, o, r) /\ o \in Objs /\ r # NON /\ r \in VpnConnection /\ r.st # "WAITING_RESOLVE"
    BY <1>5, <1>7, <1>12, <2>1, <2>2, PendingIdle
  <2>4. PICK b : b = (a[2] /\ conn[o].dst = "addr")
    OBVIOUS
  <2>5. PICK q : q = [r EXCEPT !.suspect = b]
    OBVIOUS
  <2>6. SameButFlags(r, q)
    BY <1>9, <2>3, <2>4, <2>5, SuspectSet
  <2>7. PICK t : t = [s EXCEPT !.conn[o] = q]
    OBVIOUS
  <2>8. s.conn[o] = r
    BY <1>7, <2>2
  <2>9. TunnelOK(t) /\ ConnSet(s, t, o, q)
    BY <1>8, <2>3, <2>6, <2>7, <2>8, SameFlagsStep
  <2>10. q.sid = r.sid /\ q.up = r.up /\ q.st = r.st /\ (q.task => r.task)
    BY <2>6 DEF SameButFlags
  <2>11. Idle(t, c, o, q)
    BY <2>3, <2>9, <2>10 DEF Idle, ConnSet
  <2>12. TunnelOK(CompleteConnectRequest(t, c, a[1], reach, ok))
    BY <1>9, <2>3, <2>9, <2>10, <2>11, CompleteOK
  <2>13. t = [s EXCEPT !.conn[o].suspect = a[2] /\ conn[o].dst = "addr"]
    BY <2>4, <2>5, <2>7, <2>8, Zenon
  <2>14. Becomes(CompleteConnectRequest(t, c, a[1], reach, ok))
    BY <1>10, <1>12, <2>13, Zenon
  <2> QED BY <2>12, <2>14, Became
<1> QED BY <1>11, <1>12

LEMMA ResolvedRecord ==
  ASSUME NEW r, NEW c, IdleRecord(r, r, c), ~r.fakec, NEW u \in Upstreams, NEW q, q = [r EXCEPT !.up = u, !.dst = "addr"]
  PROVE  IdleRecord(r, q, c) /\ q.up = u /\ ~q.fakec
<1>1. r \in VpnConnection
  BY DEF IdleRecord
<1>2. q \in VpnConnection
  BY <1>1, Zenon DEF VpnConnection
<1>3. /\ q.cid = r.cid /\ q.sid = r.sid /\ q.proto = r.proto /\ q.mig = r.mig /\ q.buf = r.buf /\ q.closed = r.closed
      /\ q.task = r.task /\ q.fakec = r.fakec /\ q.up = u /\ q.st = r.st
  BY <1>1, Zenon DEF VpnConnection
<1> QED BY <1>2, <1>3 DEF IdleRecord

LEMMA DestinationResolvedStep ==
  ASSUME TunnelOK(State), NEW c \in Cids, DestinationResolved(c)
  PROVE  TunnelOK(State)'
<1>1. PICK found \in SelectResolvedDestinationAddress, ok \in BOOLEAN, act \in {"default", "redirect", "bypass"} :
         LET o == byClient[c]
             r == conn[o]
             s == [State EXCEPT !.waiters = @ \ {c}]
             u == SelectUpstream(IF r.forced # "default" THEN r.forced ELSE act, NON)
             q == [r EXCEPT !.up = u, !.dst = "addr"]
         IN  Becomes(
               IF o = NON THEN s
               ELSE IF r.st # "WAITING_RESOLVE" \/ ~found
               THEN CloseClientSideConnection(s, o, FALSE, FALSE)
               ELSE IF ok /\ MayOpen(s, u)
               THEN Opens(s, o, [q EXCEPT !.sid = NextSid(s), !.st = "WAITING_RESPONSE"])
               ELSE CloseClientSideConnection([s EXCEPT !.conn[o] = q], o, FALSE, FALSE))
  BY Zenon DEF DestinationResolved
<1>2. PICK o : o = byClient[c]
  OBVIOUS
<1>3. PICK p : p = waiters \ {c}
  OBVIOUS
<1>4. PICK s : s = [State EXCEPT !.waiters = p]
  OBVIOUS
<1>a. PICK r : r = State.conn[o]
  OBVIOUS
<1>b. PICK u : u = SelectUpstream(IF r.forced # "default" THEN r.forced ELSE act, NON)
  OBVIOUS
<1>c. PICK q : q = [r EXCEPT !.up = u, !.dst = "addr"]
  OBVIOUS
<1>d. PICK g : g = [q EXCEPT !.sid = NextSid(s), !.st = "WAITING_RESPONSE"]
  OBVIOUS
<1>10. Becomes(
         IF o = NON THEN s
         ELSE IF r.st # "WAITING_RESOLVE" \/ ~found
         THEN CloseClientSideConnection(s, o, FALSE, FALSE)
         ELSE IF ok /\ MayOpen(s, u)
         THEN Opens(s, o, g)
         ELSE CloseClientSideConnection([s EXCEPT !.conn[o] = q], o, FALSE, FALSE))
  BY <1>1, <1>2, <1>3, <1>4, <1>a, <1>b, <1>c, <1>d, StateIs, Zenon
<1>5. State \in TunnelState /\ c \in State.waiters /\ State.byClient[c] = o
  BY <1>2, StateIs DEF TunnelOK, DestinationResolved
<1>6. p \in SUBSET Cids /\ p \subseteq State.waiters /\ c \notin p
  BY <1>3, <1>5, StateFields, StateIs
<1>7. /\ s \in TunnelState /\ s.waiters = p
      /\ s.conn = State.conn /\ s.byClient = State.byClient /\ s.byServer = State.byServer /\ s.app = State.app
      /\ s.ep = State.ep /\ s.lsn = State.lsn /\ s.ups = State.ups /\ s.wire = State.wire
  BY <1>4, <1>5, <1>6, WaitersSet
<1>8. TunnelOK(s)
  BY <1>6, <1>7, PendingFewer
<1>11. CASE o = NON
  BY <1>8, <1>10, <1>11, Became
<1>12. CASE o # NON /\ (r.st # "WAITING_RESOLVE" \/ ~found)
  <2>1. TunnelOK(CloseClientSideConnection(s, o, FALSE, FALSE))
    BY <1>5, <1>7, <1>8, <1>12, SyncCloseOK
  <2> QED BY <1>10, <1>12, <2>1, Became
<1>13. CASE o # NON /\ ~(r.st # "WAITING_RESOLVE" \/ ~found)
  <2>0. CliOK(State, c)
    BY DEF TunnelOK
  <2>1. c \notin s.waiters /\ c \notin s.app
    BY <1>5, <1>6, <1>7, <2>0 DEF CliOK, CliBase
  <2>3. Idle(s, c, o, r)
    BY <1>5, <1>7, <1>13, <1>a, <2>1, PendingIdle
  <2>4. IdleRecord(r, r, c)
    BY <1>8, <2>3, IdleSame
  <2>5. ~r.fakec
    <3>1. IdleHolds(s, c, o, r)
      BY <1>8, <2>3, IdleFacts
    <3> QED BY <3>1 DEF IdleHolds
  <2>6. u \in Upstreams /\ u # "fake"
    BY <1>b, SelectedUpstream
  <2>7. IdleRecord(r, q, c) /\ q.up = u /\ ~q.fakec
    BY <1>c, <2>4, <2>5, <2>6, ResolvedRecord
  <2>8. CASE ok /\ MayOpen(s, u)
    <3>1. Unused(s) # {}
      BY <2>8 DEF MayOpen
    <3>2. q.fakec <=> q.up = "fake"
      BY <2>6, <2>7
    <3>3. TunnelOK(Opens(s, o, g))
      BY <1>8, <1>d, <2>3, <2>6, <2>7, <3>1, <3>2, OpensOK
    <3> QED BY <1>10, <1>13, <2>8, <3>3, Became
  <2>9. CASE ~(ok /\ MayOpen(s, u))
    <3>1. TunnelOK(CloseClientSideConnection([s EXCEPT !.conn[o] = q], o, FALSE, FALSE))
      BY <1>8, <2>3, <2>7, RefuseOK
    <3> QED BY <1>10, <1>13, <2>9, <3>1, Became
  <2> QED BY <2>8, <2>9
<1> QED BY <1>11, <1>12, <1>13

\* The client c may send: its connection o is established and its reads are on.
Reading(s, c, o) ==
    s.byClient[c] = o /\ o # NON /\ s.lsn[c].st = "open" /\ s.lsn[c].reads /\ s.lsn[c].pos <= MaxPkt

ReadingHolds(s, c, o, r) ==
    /\ s \in TunnelState /\ o \in Objs /\ r = s.conn[o] /\ r \in VpnConnection /\ r # NON /\ r.cid = c /\ c # NON
    /\ r.mig = NON /\ ~r.task /\ r.st \in {"CONNECTED", "CONNECTED_MIGRATING"}
    /\ r.sid \in Sids /\ r.sid # NON /\ s.byServer[r.sid] = o
    /\ r.proto = "tcp" /\ r.looking => r.st = "CONNECTED"
    /\ r.fakec => r.st = "CONNECTED" /\ r.up = "fake"
    /\ r.st = "CONNECTED_MIGRATING" /\ r.proto = "tcp" => r.buf = <<>>
    /\ c \notin s.app /\ c \notin s.waiters /\ r.up # NON
    /\ r.proto = "udp" => ~s.lsn[c].unsent
    /\ r.proto = "tcp" /\ r.st = "CONNECTED" => s.wire[c] \o r.buf = Counted(s.lsn[c].pos - 1)
    /\ s.lsn[c] \in ListenerConn /\ s.wire[c] \in Seq(1..MaxPkt) /\ r.buf \in Seq(1..MaxPkt)
    /\ s.lsn[c].pos \in 1..MaxPkt /\ s.lsn[c].st = "open"

LEMMA ReadingFacts ==
  ASSUME NEW s, TunnelOK(s), NEW c \in Cids, NEW o, Reading(s, c, o), NEW r, r = s.conn[o]
  PROVE  ReadingHolds(s, c, o, r) /\ Settled(s, o, c, r.sid) /\ CliOK(s, c) /\ ObjOK(s, o)
<1>1. s.byClient[c] = o /\ o # NON /\ s.lsn[c].st = "open" /\ s.lsn[c].reads /\ s.lsn[c].pos <= MaxPkt
  BY DEF Reading
<1>2. /\ o \in Objs /\ s.conn[o] # NON /\ s.conn[o].cid = c /\ Settled(s, o, c, s.conn[o].sid)
      /\ CliOK(s, c) /\ s \in TunnelState
  BY <1>1, SettledOf
<1>3. ObjOK(s, o) /\ CliBase(s, c) /\ CliBacked(s, c)
  BY <1>2, Zenon DEF CliOK, Settled
<1>4. r # NON /\ r.cid = c /\ r \in VpnConnection /\ c # NON
  BY <1>2, LiveConn, Apartness, Zenon
<1>5. r.sid \in Sids \cup {NON} /\ r.buf \in Seq(1..MaxPkt)
  BY <1>4, ConnFields, Zenon
<1>6. /\ r.st \in {"CONNECTED", "CONNECTED_MIGRATING"} /\ (r.proto = "udp" => ~s.lsn[c].unsent)
      /\ (r.proto = "tcp" /\ r.st # "CONNECTED_MIGRATING" => s.wire[c] \o r.buf = Counted(s.lsn[c].pos - 1))
  BY <1>1, <1>3, Zenon DEF CliBase
<1>7. r.sid # NON /\ s.byServer[r.sid] = o
  BY <1>1, <1>3, Zenon DEF CliBacked
<1>8. /\ r.up # NON /\ ~r.task /\ c \notin s.app /\ c \notin s.waiters /\ (r.fakec => r.up = "fake" /\ r.st # "CONNECTED_MIGRATING")
      /\ (r.mig # NON <=> r.st = "WAITING_RESPONSE_MIGRATING")
      /\ (r.st = "CONNECTED_MIGRATING" /\ r.proto = "tcp" =>  r.buf = <<>> /\ (r.looking => ~s.lsn[c].reads))
  BY <1>3, <1>4, <1>7, Zenon DEF ObjOK
<1>9. s.lsn[c] \in ListenerConn /\ s.lsn[c].pos \in 1..(MaxPkt + 1) /\ s.wire[c] \in Seq(1..MaxPkt)
  BY <1>2, LsnFields, StateFields, Zenon
<1>10. s.lsn[c].pos \in 1..MaxPkt
  BY <1>1, <1>9, TunnelAssumption
<1>11. ReadingHolds(s, c, o, r)
  BY <1>1, <1>2, <1>4, <1>5, <1>6, <1>7, <1>8, <1>9, <1>10 DEF ReadingHolds
<1> QED BY <1>2, <1>3, <1>11

\* The record r with its state, buffer and flags changed: the source of a migration.
Source(r, q) ==
    /\ q \in VpnConnection /\ q.cid = r.cid /\ q.sid = r.sid /\ q.up = r.up /\ q.st = "CONNECTED_MIGRATING"
    /\ q.proto = r.proto /\ q.mig = r.mig /\ q.closed = r.closed /\ q.task = r.task /\ (q.first => r.first)
    /\ (q.proto = "tcp" => q.buf = <<>> /\ (q.looking => q.up = "fake"))

LEMMA SourceMigrates ==
  ASSUME NEW s, TunnelOK(s), NEW c \in Cids, NEW o, Reading(s, c, o), NEW r, r = s.conn[o], NEW q, Source(r, q), ~q.fakec,
         NEW l, l.st = "open", l.unsent = s.lsn[c].unsent,
         r.proto = "tcp" => ~l.reads /\ l.pos = s.lsn[c].pos,
         NEW t, RecSet(s, t, o, c, q, l, s.wire[c])
  PROVE  TunnelOK(t)
<1>1. ReadingHolds(s, c, o, r) /\ Settled(s, o, c, r.sid) /\ CliOK(s, c) /\ ObjOK(s, o)
  BY ReadingFacts
<1>2. /\ s \in TunnelState /\ o \in Objs /\ r \in VpnConnection /\ r # NON /\ r.cid = c /\ c # NON
      /\ r.mig = NON /\ ~r.task /\ r.st \in {"CONNECTED", "CONNECTED_MIGRATING"}
      /\ r.sid \in Sids /\ r.sid # NON /\ s.byServer[r.sid] = o
      /\ c \notin s.app /\ c \notin s.waiters /\ r.up # NON
      /\ r.proto = "udp" => ~s.lsn[c].unsent
      /\ s.byClient[c] = o /\ o # NON /\ s.lsn[c].st = "open"
  BY <1>1 DEF ReadingHolds, Reading
<1>3. /\ q \in VpnConnection /\ q.cid = r.cid /\ q.sid = r.sid /\ q.up = r.up /\ q.st = "CONNECTED_MIGRATING"
      /\ q.proto = r.proto /\ q.mig = r.mig /\ q.closed = r.closed /\ q.task = r.task /\ (q.first => r.first)
      /\ ~q.fakec /\ (q.proto = "tcp" => q.buf = <<>> /\ (q.looking => q.up = "fake"))
  BY DEF Source
<1>4. t \in TunnelState /\ t.conn[o] = q /\ t.lsn[c] = l /\ t.wire[c] = s.wire[c] /\ t.byClient = s.byClient
      /\ t.byServer = s.byServer /\ t.waiters = s.waiters /\ t.app = s.app /\ t.ups = s.ups
  BY Zenon DEF RecSet
<1>5. q # NON
  BY <1>3, Apartness, Zenon
<1>6. ObjOK(t, o)
  BY <1>1, <1>2, <1>3, <1>4, <1>5, SMT DEF ObjOK
<1>7. ~EarlyAck => FakeOK(t, o)
  <2>1. ~EarlyAck => FakeOK(s, o)
    BY <1>2, Zenon DEF TunnelOK
  <2>2. q.st \notin {"WAITING_RESPONSE", "WAITING_ACCEPT", "CONNECTED"} 
    BY <1>3
  <2> QED BY <1>2, <1>3, <1>4, <2>1, <2>2, Zenon DEF FakeOK
<1>8. CliOK(t, c)
  <2>1. CliParts(t, c, o, q, l, s.wire[c])
    BY <1>2, <1>3, <1>4, <1>5 DEF CliParts
  <2> QED BY <2>1, CliBuilt
<1>9. WorksOut(s, t, o, c, r.sid)
  BY <1>1, <1>2, <1>3, <1>6, <1>7, <1>8, RecordsWork
<1> QED BY <1>2, <1>9, FiledStep

\* The record of the connection that takes the client id c over later.
Target(q, x, u, c, proto) ==
    /\ q \in VpnConnection /\ q.cid = NON /\ q.sid = x /\ q.up = u /\ q.st = "WAITING_RESPONSE_MIGRATING"
    /\ q.proto = proto /\ q.mig = c /\ ~q.first /\ ~q.fakec /\ ~q.closed /\ ~q.task

LEMMA TargetMade ==
  ASSUME NEW s, TunnelOK(s), NEW c \in Cids, NEW o, s.byClient[c] = o, o # NON, NEW r, r = s.conn[o],
         r.st = "CONNECTED_MIGRATING", NEW x \in Sids, s.ups[x].u = NON, NEW u \in Upstreams, ~EarlyAck => u # "fake",
         NEW q, Target(q, x, u, c, r.proto),
         r.proto = "tcp" => /\ s.wire[c] \o q.buf = Counted(s.lsn[c].pos - 1)
                            /\ \A p \in Objs : s.conn[p] # NON => s.conn[p].mig # c,
         NEW e, e.u = u, NEW t, OpensSet(s, t, x, x, q, e)
  PROVE  TunnelOK(t)
<1>1. s \in TunnelState /\ o \in Objs /\ r # NON /\ r.cid = c /\ CliOK(s, c) /\ MovesOK(s, c) /\ ObjOK(s, o)
  <2>1. s \in TunnelState /\ o \in Objs /\ r # NON /\ r.cid = c
    BY SettledOf
  <2> QED BY <2>1, Zenon DEF TunnelOK
<1>2. /\ q \in VpnConnection /\ q.cid = NON /\ q.sid = x /\ q.up = u /\ q.st = "WAITING_RESPONSE_MIGRATING"
      /\ q.proto = r.proto /\ q.mig = c /\ ~q.first /\ ~q.fakec /\ ~q.closed /\ ~q.task
  BY DEF Target
<1>3. s.byServer[x] = NON /\ \A p \in Objs : s.conn[p] # NON => s.conn[p].sid # x
  BY FreshSid
<1>4. x \in Objs /\ x \notin Cids /\ x # NON /\ c # NON /\ q # NON /\ u # NON /\ NON \notin Cids
  BY <1>2, Apartness, TunnelAssumption, Zenon DEF Objs
<1>5. s.conn[x] = NON
  <2>1. ObjOK(s, x)
    BY <1>4, Zenon DEF TunnelOK
  <2> QED BY <1>3, <1>4, <2>1, Zenon DEF ObjOK
<1>6. /\ t \in TunnelState /\ t.conn[x] = q /\ \A p \in Objs : p # x => t.conn[p] = s.conn[p]
      /\ t.byServer[x] = x /\ \A y \in Sids : y # x => t.byServer[y] = s.byServer[y]
      /\ t.ups[x] = e /\ \A y \in Sids : y # x => t.ups[y] = s.ups[y]
      /\ t.byClient = s.byClient /\ t.waiters = s.waiters /\ t.app = s.app /\ t.lsn = s.lsn /\ t.wire = s.wire
  BY DEF OpensSet
<1>7. Changed(s, t, x, NON, x)
  BY <1>6, Zenon DEF Changed
<1>8. Carries(s, x, NON, x) /\ Apart(s, x, NON, x) /\ Carries(t, x, NON, x)
  <2>1. Carries(s, x, NON, x) /\ Apart(s, x, NON, x)
    BY <1>3, <1>5, Zenon DEF Carries, Apart
  <2>2. Carries(t, x, NON, x)
    BY <1>2, <1>6, Zenon DEF Carries
  <2> QED BY <2>1, <2>2
<1>9. s.lsn[c].st # "none"
  BY <1>1, <1>4, Zenon DEF ObjOK
<1>10. NON \notin t.app /\ NON \notin t.waiters
  BY <1>4, <1>6, StateFields, Zenon
<1>11. ObjOK(t, x)
  BY <1>2, <1>4, <1>6, <1>9, <1>10, SMT DEF ObjOK
<1>12. ~EarlyAck => FakeOK(t, x)
  BY <1>2, <1>6, Zenon DEF FakeOK
<1>13. SrvOK(t, x)
  BY <1>2, <1>4, <1>6, ZenonT(60) DEF SrvOK
<1>14. ASSUME NEW d \in Cids PROVE MovesOK(t, d)
  <2>1. CliOK(s, d) /\ MovesOK(s, d)
    BY Zenon DEF TunnelOK
  <2>2. t.byClient[d] = s.byClient[d] /\ t.wire[d] = s.wire[d] /\ t.lsn[d] = s.lsn[d]
    BY <1>6
  <2> SUFFICES ASSUME s.byClient[d] # NON PROVE MovesOK(t, d)
    BY <2>2, Zenon DEF MovesOK
  <2>3. s.byClient[d] \in Objs /\ s.conn[s.byClient[d]] # NON
    BY SettledOf
  <2>4. t.conn[s.byClient[d]] = s.conn[s.byClient[d]]
    BY <1>5, <1>6, <2>3
  <2>5. CASE d # c
    <3>1. \A p \in Objs : t.conn[p] # NON /\ t.conn[p].mig = d => s.conn[p] = t.conn[p]
      BY <1>2, <1>6, <2>5, Zenon
    <3> QED BY <2>1, <2>2, <2>4, <3>1, ZenonT(60) DEF MovesOK
  <2>6. CASE d = c
    <3>1. t.conn[o] = r /\ t.byClient[c] = o
      BY <2>4, <2>6, <1>6
    <3>2. ASSUME NEW p \in Objs, t.conn[p] # NON, t.conn[p].mig = c
          PROVE  /\ r.proto = t.conn[p].proto
                 /\ t.conn[p].proto = "tcp" => /\ t.wire[c] \o t.conn[p].buf = Counted(t.lsn[c].pos - 1)
                                               /\ \A y \in Objs : t.conn[y] # NON /\ t.conn[y].mig = c => y = p
      <4>1. CASE p = x
        <5>1. t.conn[p] = q
          BY <1>6, <4>1
        <5>2. r.proto = "tcp" => \A y \in Objs : t.conn[y] # NON /\ t.conn[y].mig = c => y = x
          BY <1>6, Zenon
        <5>3. r.proto = "tcp" => t.wire[c] \o q.buf = Counted(t.lsn[c].pos - 1)
          BY <1>6
        <5> QED BY <1>2, <4>1, <5>1, <5>2, <5>3
      <4>2. CASE p # x
        <5>1. t.conn[p] = s.conn[p]
          BY <1>6, <4>2
        <5>2. r.proto # "tcp"
          BY <3>2, <5>1
        <5>3. r.proto = s.conn[p].proto
          BY <1>1, <3>2, <5>1, Zenon DEF MovesOK
        <5> QED BY <5>1, <5>2, <5>3
      <4> QED BY <4>1, <4>2
    <3> QED BY <2>6, <3>1, <3>2, Zenon DEF MovesOK
  <2> QED BY <2>5, <2>6
<1>15. \A d \in Cids : MovesOK(t, d)
  BY <1>14
<1>16. NON \in Cids \cup {NON} /\ x \in Sids \cup {NON} /\ (x \in Cids /\ x # NON => s.lsn[x].st # "none")
  BY <1>4
<1> QED BY <1>4, <1>6, <1>7, <1>8, <1>11, <1>12, <1>13, <1>15, <1>16, ClusterStep

\* The source and the target of a migration of the client c at once.
MigSet(s, t, o, c, old, l, x, sw, e) ==
    /\ t \in TunnelState /\ t.conn[o] = old /\ t.conn[x] = sw /\ \A p \in Objs : p # o /\ p # x => t.conn[p] = s.conn[p]
    /\ t.lsn[c] = l /\ \A d \in Cids : d # c => t.lsn[d] = s.lsn[d]
    /\ t.byServer[x] = x /\ \A y \in Sids : y # x => t.byServer[y] = s.byServer[y]
    /\ t.ups[x] = e /\ \A y \in Sids : y # x => t.ups[y] = s.ups[y]
    /\ t.byClient = s.byClient /\ t.waiters = s.waiters /\ t.app = s.app /\ t.wire = s.wire

LEMMA RecSetMade ==
  ASSUME NEW s \in TunnelState, NEW o \in Objs, NEW c \in Cids, NEW q \in VpnConnection, NEW l \in ListenerConn,
         NEW w \in Seq(1..MaxPkt), NEW t1, t1 = [s EXCEPT !.conn[o] = q], NEW t2, t2 = [t1 EXCEPT !.wire[c] = w],
         NEW t, t = [t2 EXCEPT !.lsn[c] = l]
  PROVE  RecSet(s, t, o, c, q, l, w)
<1>1. ConnSet(s, t1, o, q)
  BY ConnectionSet
<1>2. WireSet(t1, t2, c, w)
  <2>1. t1 \in TunnelState
    BY <1>1 DEF ConnSet
  <2> QED BY <2>1, OnWireSet
<1>3. LsnSet(t2, t, c, l)
  <2>1. t2 \in TunnelState
    BY <1>2 DEF WireSet
  <2> QED BY <2>1, ListenerSet
<1> QED BY <1>1, <1>2, <1>3, SMT DEF ConnSet, WireSet, LsnSet, RecSet

LEMMA MigratedOK ==
  ASSUME NEW s, TunnelOK(s), NEW c \in Cids, NEW o, Reading(s, c, o), NEW r, r = s.conn[o], NEW old, Source(r, old), ~old.fakec,
         r.proto = "tcp" => r.st = "CONNECTED",
         NEW l \in ListenerConn, l.st = "open", l.unsent = s.lsn[c].unsent,
         r.proto = "tcp" => ~l.reads /\ l.pos = s.lsn[c].pos,
         NEW x \in Sids, s.ups[x].u = NON, NEW u \in Upstreams, ~EarlyAck => u # "fake",
         NEW sw, Target(sw, x, u, c, r.proto), r.proto = "tcp" => sw.buf = r.buf,
         NEW e, e.u = u, NEW t, MigSet(s, t, o, c, old, l, x, sw, e)
  PROVE  TunnelOK(t)
<1>1. ReadingHolds(s, c, o, r) /\ Settled(s, o, c, r.sid) /\ CliOK(s, c) /\ ObjOK(s, o)
  BY ReadingFacts
<1>2. /\ s \in TunnelState /\ o \in Objs /\ r \in VpnConnection /\ r # NON /\ s.byClient[c] = o /\ o # NON
      /\ (r.proto = "tcp" => s.wire[c] \o r.buf = Counted(s.lsn[c].pos - 1)) /\ s.wire[c] \in Seq(1..MaxPkt)
  BY <1>1 DEF ReadingHolds, Reading
<1>3. old \in VpnConnection /\ old.st = "CONNECTED_MIGRATING" /\ old.proto = r.proto /\ old.mig = r.mig
  BY DEF Source
<1>4. PICK w : w = s.wire[c]
  OBVIOUS
<1>a. PICK v1 : v1 = [s EXCEPT !.conn[o] = old]
  OBVIOUS
<1>b. PICK v2 : v2 = [v1 EXCEPT !.wire[c] = w]
  OBVIOUS
<1>5. PICK t1 : t1 = [v2 EXCEPT !.lsn[c] = l]
  OBVIOUS
<1>6. RecSet(s, t1, o, c, old, l, w)
  <2>1. w \in Seq(1..MaxPkt) /\ old \in VpnConnection /\ s \in TunnelState /\ o \in Objs
    BY <1>2, <1>3, <1>4
  <2> QED BY <1>5, <1>a, <1>b, <2>1, RecSetMade, Zenon
<1>7. TunnelOK(t1)
  BY <1>4, <1>6, SourceMigrates
<1>8. /\ t1 \in TunnelState
      /\ t1.conn[o] = old /\ \A p \in Objs : p # o => t1.conn[p] = s.conn[p]
      /\ t1.lsn[c] = l /\ \A d \in Cids : d # c => t1.lsn[d] = s.lsn[d]
      /\ t1.wire[c] = w /\ \A d \in Cids : d # c => t1.wire[d] = s.wire[d]
      /\ t1.byClient = s.byClient /\ t1.byServer = s.byServer /\ t1.waiters = s.waiters /\ t1.app = s.app /\ t1.ups = s.ups
  BY <1>6 DEF RecSet
<1>9. /\ t \in TunnelState /\ t.conn[o] = old /\ t.conn[x] = sw /\ \A p \in Objs : p # o /\ p # x => t.conn[p] = s.conn[p]
      /\ t.lsn[c] = l /\ \A d \in Cids : d # c => t.lsn[d] = s.lsn[d]
      /\ t.byServer[x] = x /\ \A y \in Sids : y # x => t.byServer[y] = s.byServer[y]
      /\ t.ups[x] = e /\ \A y \in Sids : y # x => t.ups[y] = s.ups[y]
      /\ t.byClient = s.byClient /\ t.waiters = s.waiters /\ t.app = s.app /\ t.wire = s.wire
  BY DEF MigSet
<1>10. t.lsn = t1.lsn /\ t.wire = t1.wire
  <2>1. t.lsn \in [Cids -> ListenerConn] /\ t1.lsn \in [Cids -> ListenerConn] /\ t.wire \in [Cids -> Seq(1..MaxPkt)]
        /\ t1.wire \in [Cids -> Seq(1..MaxPkt)]
    BY <1>8, <1>9, StateFields
  <2>2. \A d \in Cids : t.lsn[d] = t1.lsn[d] /\ t.wire[d] = t1.wire[d]
    BY <1>4, <1>8, <1>9
  <2> QED BY <2>1, <2>2
<1>12. OpensSet(t1, t, x, x, sw, e)
  <2>1. \A p \in Objs : p # x => t.conn[p] = t1.conn[p]
    BY <1>8, <1>9
  <2> QED BY <1>8, <1>9, <1>10, <2>1, ZenonT(60) DEF OpensSet
<1>13. r.proto = "tcp" => /\ t1.wire[c] \o sw.buf = Counted(t1.lsn[c].pos - 1)
                          /\ \A p \in Objs : t1.conn[p] # NON => t1.conn[p].mig # c
  <2> SUFFICES ASSUME r.proto = "tcp"
               PROVE  /\ t1.wire[c] \o sw.buf = Counted(t1.lsn[c].pos - 1)
                      /\ \A p \in Objs : t1.conn[p] # NON => t1.conn[p].mig # c
    OBVIOUS
  <2>1. t1.wire[c] \o sw.buf = Counted(t1.lsn[c].pos - 1)
    BY <1>2, <1>4, <1>8
  <2>2. ASSUME NEW p \in Objs, s.conn[p] # NON PROVE s.conn[p].mig # c
    <3>1. MovesOK(s, c)
      BY Zenon DEF TunnelOK
    <3> QED BY <1>2, <2>2, <3>1 DEF MovesOK
  <2>3. old.mig # c
    BY <1>2, <1>3, <2>2
  <2> QED BY <1>8, <2>1, <2>2, <2>3
<1>14. t1.byClient[c] = o /\ old = t1.conn[o] /\ t1.ups[x].u = NON /\ Target(sw, x, u, c, old.proto)
  BY <1>2, <1>3, <1>8
<1> QED BY <1>2, <1>3, <1>7, <1>12, <1>13, <1>14, TargetMade

LEMMA MigSetMade ==
  ASSUME NEW s, NEW c \in Cids, NEW o \in Objs, NEW x \in Sids, o # x, NEW q0, NEW sw, NEW old, NEW l, NEW e, NEW t0, NEW v,
         NEW v1, NEW t, ConnSet(s, t0, o, q0), OpensSet(t0, v, x, x, sw, e), ConnSet(v, v1, o, old), LsnSet(v1, t, c, l)
  PROVE  MigSet(s, t, o, c, old, l, x, sw, e)
<1>0. x \in Objs
  BY DEF Objs
<1>8. /\ \A p \in Objs : p # o => t0.conn[p] = s.conn[p]
      /\ t0.byClient = s.byClient /\ t0.byServer = s.byServer /\ t0.waiters = s.waiters /\ t0.app = s.app
      /\ t0.lsn = s.lsn /\ t0.ups = s.ups /\ t0.wire = s.wire
  BY DEF ConnSet
<1>9. /\ v.conn[x] = sw /\ \A p \in Objs : p # x => v.conn[p] = t0.conn[p]
      /\ v.byServer[x] = x /\ \A y \in Sids : y # x => v.byServer[y] = t0.byServer[y]
      /\ v.ups[x] = e /\ \A y \in Sids : y # x => v.ups[y] = t0.ups[y]
      /\ v.byClient = t0.byClient /\ v.waiters = t0.waiters /\ v.app = t0.app /\ v.lsn = t0.lsn /\ v.wire = t0.wire
  BY DEF OpensSet
<1>10. /\ v1.conn[o] = old /\ \A p \in Objs : p # o => v1.conn[p] = v.conn[p]
       /\ v1.byClient = v.byClient /\ v1.byServer = v.byServer /\ v1.waiters = v.waiters /\ v1.app = v.app
       /\ v1.lsn = v.lsn /\ v1.ups = v.ups /\ v1.wire = v.wire
  BY DEF ConnSet
<1>11. /\ t \in TunnelState /\ t.lsn[c] = l /\ \A d \in Cids : d # c => t.lsn[d] = v1.lsn[d]
       /\ t.conn = v1.conn /\ t.byClient = v1.byClient /\ t.byServer = v1.byServer
       /\ t.waiters = v1.waiters /\ t.app = v1.app /\ t.ups = v1.ups /\ t.wire = v1.wire
  BY DEF LsnSet
<1>12. t.conn[o] = old /\ t.conn[x] = sw /\ \A p \in Objs : p # o /\ p # x => t.conn[p] = s.conn[p]
  BY <1>0, <1>8, <1>9, <1>10, <1>11
<1>13. t.lsn[c] = l /\ \A d \in Cids : d # c => t.lsn[d] = s.lsn[d]
  BY <1>8, <1>9, <1>10, <1>11
<1>14. t.byServer[x] = x /\ \A y \in Sids : y # x => t.byServer[y] = s.byServer[y]
  BY <1>8, <1>9, <1>10, <1>11
<1>15. t.ups[x] = e /\ \A y \in Sids : y # x => t.ups[y] = s.ups[y]
  BY <1>8, <1>9, <1>10, <1>11
<1>16. t.byClient = s.byClient /\ t.waiters = s.waiters /\ t.app = s.app /\ t.wire = s.wire
  BY <1>8, <1>9, <1>10, <1>11
<1> QED BY <1>11, <1>12, <1>13, <1>14, <1>15, <1>16 DEF MigSet

\* r with some of its flags cleared.
Cleared(r, q) ==
    /\ q \in VpnConnection /\ q.cid = r.cid /\ q.sid = r.sid /\ q.up = r.up /\ q.st = r.st
    /\ q.proto = r.proto /\ q.mig = r.mig /\ q.closed = r.closed /\ q.task = r.task /\ q.buf = r.buf /\ q.dst = r.dst
    /\ (q.looking => r.looking) /\ (q.fakec => r.fakec) /\ (q.first => r.first)

LEMMA SourceRecord ==
  ASSUME NEW r, NEW q, Cleared(r, q), q.proto = "tcp" => (q.looking => q.up = "fake"), NEW b \in Seq(1..MaxPkt),
         q.proto = "tcp" => b = <<>>
  PROVE  Source(r, [q EXCEPT !.st = "CONNECTED_MIGRATING", !.buf = b])
<1>0. PICK old : old = [q EXCEPT !.st = "CONNECTED_MIGRATING", !.buf = b]
  OBVIOUS
<1>1. /\ q \in VpnConnection /\ q.cid = r.cid /\ q.sid = r.sid /\ q.up = r.up
      /\ q.proto = r.proto /\ q.mig = r.mig /\ q.closed = r.closed /\ q.task = r.task /\ (q.first => r.first)
  BY DEF Cleared
<1>2. old \in VpnConnection
  <2>1. "CONNECTED_MIGRATING" \in VpnConnectionState
    BY DEF VpnConnectionState
  <2> QED BY <1>0, <1>1, <2>1, Zenon DEF VpnConnection
<1>3. /\ old.cid = q.cid /\ old.sid = q.sid /\ old.up = q.up /\ old.st = "CONNECTED_MIGRATING"
      /\ old.proto = q.proto /\ old.mig = q.mig /\ old.closed = q.closed /\ old.task = q.task /\ old.first = q.first
      /\ old.looking = q.looking /\ old.buf = b
  BY <1>0, <1>1, Zenon DEF VpnConnection
<1>4. Source(r, old)
  BY <1>1, <1>2, <1>3 DEF Source
<1> QED BY <1>0, <1>4

LEMMA TargetRecord ==
  ASSUME NEW c \in Cids, NEW proto \in {"tcp", "udp"}, NEW dst \in {"addr", "name", "dns"}, NEW x \in Sids,
         NEW u \in Upstreams, NEW k \in BOOLEAN, NEW b \in Seq(1..MaxPkt)
  PROVE  Target([Make(NON, proto, dst) EXCEPT
                   !.sid = x, !.up = u, !.st = "WAITING_RESPONSE_MIGRATING", !.looking = k, !.mig = c, !.buf = b],
                x, u, c, proto)
<1>0. PICK sw : sw = [Make(NON, proto, dst) EXCEPT
                 !.sid = x, !.up = u, !.st = "WAITING_RESPONSE_MIGRATING", !.looking = k, !.mig = c, !.buf = b]
  OBVIOUS
<1>1. /\ "WAITING_RESPONSE_MIGRATING" \in VpnConnectionState /\ 0 \in 0..(MaxLookupAttempts + 1)
      /\ "default" \in {"default", "bypass", "redirect"}
  BY TunnelAssumption DEF VpnConnectionState
<1>2. sw \in VpnConnection
  BY <1>0, <1>1, Zenon DEF VpnConnection, Make
<1>3. /\ sw.cid = NON /\ sw.sid = x /\ sw.up = u /\ sw.st = "WAITING_RESPONSE_MIGRATING"
      /\ sw.proto = proto /\ sw.mig = c /\ ~sw.first /\ ~sw.fakec /\ ~sw.closed /\ ~sw.task
  BY <1>0, Zenon DEF Make
<1>4. Target(sw, x, u, c, proto)
  BY <1>2, <1>3 DEF Target
<1> QED BY <1>0, <1>4

MigParts(s, m, o, c, r, u, old, l, x, sw, e) ==
    /\ Source(r, old) /\ l \in ListenerConn /\ l.st = "open" /\ l.unsent = s.lsn[c].unsent
    /\ r.proto = "tcp" => ~l.reads /\ l.pos = s.lsn[c].pos
    /\ x \in Sids /\ s.ups[x].u = NON /\ Target(sw, x, u, c, r.proto) /\ (r.proto = "tcp" => sw.buf = r.buf)
    /\ e.u = u /\ MigSet(s, m, o, c, old, l, x, sw, e)

LEMMA PosNext ==
  ASSUME NEW l \in ListenerConn, l.pos \in 1..MaxPkt, NEW m, m = [l EXCEPT !.pos = l.pos + 1]
  PROVE  m \in ListenerConn /\ m.pos = l.pos + 1 /\ m.st = l.st /\ m.reads = l.reads /\ m.unsent = l.unsent
<1>1. PICK n : n = l.pos + 1
  OBVIOUS
<1>2. n \in 1..(MaxPkt + 1)
  BY <1>1, TunnelAssumption
<1>3. m = [l EXCEPT !.pos = n]
  BY <1>1
<1>4. m \in ListenerConn /\ m.pos = n /\ m.st = l.st /\ m.reads = l.reads /\ m.unsent = l.unsent
  BY <1>2, <1>3, Zenon DEF ListenerConn
<1> QED BY <1>1, <1>4

LEMMA MigrationMade ==
  ASSUME NEW s, TunnelOK(s), NEW c \in Cids, NEW o, Reading(s, c, o), NEW q, Cleared(s.conn[o], q),
         q.proto = "tcp" => (q.looking => q.up = "fake"), NEW u \in Upstreams, CanMigrate([s EXCEPT !.conn[o] = q], u)
  PROVE  \E old, l, x, sw, e :
           /\ old.fakec => q.fakec
           /\ MigParts(s, InitiateConnectionMigration([s EXCEPT !.conn[o] = q], o, u, s.lsn[c].pos), o, c, s.conn[o], u,
                       old, l, x, sw, e)
<1>a. PICK r : r = s.conn[o]
  OBVIOUS
<1>b. PICK t0 : t0 = [s EXCEPT !.conn[o] = q]
  OBVIOUS
<1>c. PICK pkt : pkt = s.lsn[c].pos
  OBVIOUS
<1>d. PICK m : m = InitiateConnectionMigration(t0, o, u, pkt)
  OBVIOUS
<1>1. ReadingHolds(s, c, o, r)
  BY <1>a, ReadingFacts
<1>e. Cleared(r, q)
  BY <1>a
<1>2. /\ s \in TunnelState /\ o \in Objs /\ r \in VpnConnection /\ r # NON /\ r.cid = c /\ s.conn[o] = r
      /\ s.lsn[c] \in ListenerConn /\ s.lsn[c].pos \in 1..MaxPkt /\ s.lsn[c].st = "open" /\ r.buf \in Seq(1..MaxPkt)
  BY <1>1 DEF ReadingHolds
<1>3. /\ q \in VpnConnection /\ q.cid = c /\ q.proto = r.proto /\ q.buf = r.buf
  BY <1>2, <1>e DEF Cleared
<1>4. q.proto \in {"tcp", "udp"} /\ q.dst \in {"addr", "name", "dns"} /\ q.looking \in BOOLEAN
  BY <1>3, ConnFields, Zenon
<1>5. ConnSet(s, t0, o, q)
  BY <1>2, <1>3, <1>b, ConnectionSet
<1>6. t0.conn[o] = q /\ t0.ups = s.ups /\ t0.lsn = s.lsn /\ t0 \in TunnelState
  BY <1>5 DEF ConnSet
<1>7. PICK x : x = NextSid(t0)
  OBVIOUS
<1>8. x \in Sids /\ s.ups[x].u = NON
  <2>1. Unused(t0) # {}
    BY <1>b DEF CanMigrate, MayOpen
  <2>2. NextSid(t0) \in Sids /\ t0.ups[NextSid(t0)].u = NON
    BY <2>1, NextSidUnused
  <2> QED BY <1>6, <1>7, <2>2
<1>9. o # x
  <2>1. \A p \in Objs : s.conn[p] # NON => s.conn[p].sid # x
    BY <1>8, FreshSid
  <2>2. ObjOK(s, o)
    BY <1>2, Zenon DEF TunnelOK
  <2> QED BY <1>2, <1>8, <2>1, <2>2, Zenon DEF ObjOK
<1>10. PICK b1 : b1 = IF q.proto = "udp" THEN Append(q.buf, pkt) ELSE <<>>
  OBVIOUS
<1>11. PICK b2 : b2 = IF q.proto = "tcp" THEN q.buf ELSE <<>>
  OBVIOUS
<1>12. b1 \in Seq(1..MaxPkt) /\ b2 \in Seq(1..MaxPkt) /\ (q.proto = "tcp" => b1 = <<>>)
  <2>1. CASE q.proto = "udp"
    <3>1. b1 = Append(q.buf, pkt) /\ b2 = <<>>
      BY <1>10, <1>11, <2>1
    <3> QED BY <1>2, <1>3, <1>c, <2>1, <3>1
  <2>2. CASE q.proto = "tcp"
    <3>1. b1 = <<>> /\ b2 = q.buf
      BY <1>10, <1>11, <2>2
    <3> QED BY <1>2, <1>3, <2>2, <3>1
  <2> QED BY <1>4, <2>1, <2>2
<1>13. PICK old : old = [q EXCEPT !.st = "CONNECTED_MIGRATING", !.buf = b1]
  OBVIOUS
<1>14. PICK sw : sw = [Make(NON, q.proto, q.dst) EXCEPT
                 !.sid = x, !.up = u, !.st = "WAITING_RESPONSE_MIGRATING", !.looking = q.looking, !.mig = q.cid, !.buf = b2]
  OBVIOUS
<1>15. Source(r, old) /\ (old.fakec => q.fakec)
  <2>1. Source(r, [q EXCEPT !.st = "CONNECTED_MIGRATING", !.buf = b1])
    BY <1>12, <1>e, SourceRecord, Zenon
  <2>2. old.fakec = q.fakec
    BY <1>3, <1>13, Zenon DEF VpnConnection
  <2> QED BY <1>13, <2>1, <2>2
<1>16. Target(sw, x, u, c, q.proto) /\ sw.buf = b2
  <2>1. sw = [Make(NON, q.proto, q.dst) EXCEPT
                 !.sid = x, !.up = u, !.st = "WAITING_RESPONSE_MIGRATING", !.looking = q.looking, !.mig = c, !.buf = b2]
    BY <1>3, <1>14
  <2>2. Target(sw, x, u, c, q.proto)
    <3>1. Target([Make(NON, q.proto, q.dst) EXCEPT
                 !.sid = x, !.up = u, !.st = "WAITING_RESPONSE_MIGRATING", !.looking = q.looking, !.mig = c, !.buf = b2],
                 x, u, c, q.proto)
      BY <1>4, <1>8, <1>12, TargetRecord, ZenonT(60)
    <3> QED BY <2>1, <3>1
  <2>3. sw.buf = b2
    BY <2>1, Zenon DEF Make
  <2> QED BY <2>2, <2>3
<1>17. PICK e : e = [u |-> u, st |-> "opening"]
  OBVIOUS
<1>18. PICK l : l = IF q.proto = "udp" THEN [s.lsn[c] EXCEPT !.pos = s.lsn[c].pos + 1] ELSE [s.lsn[c] EXCEPT !.reads = FALSE]
  OBVIOUS
<1>19. l \in ListenerConn /\ l.st = "open" /\ l.unsent = s.lsn[c].unsent /\ (r.proto = "tcp" => ~l.reads /\ l.pos = s.lsn[c].pos)
  <2>1. CASE q.proto = "udp"
    <3>1. l = [s.lsn[c] EXCEPT !.pos = s.lsn[c].pos + 1]
      BY <1>18, <2>1
    <3> QED BY <1>2, <1>3, <2>1, <3>1, PosNext
  <2>2. CASE q.proto # "udp"
    <3>1. l = [s.lsn[c] EXCEPT !.reads = FALSE]
      BY <1>18, <2>2
    <3>2. s.lsn[c] \in ListenerConn /\ s.lsn[c].st = "open"
      BY <1>2, <1>3
    <3>3. l \in ListenerConn /\ ~l.reads /\ l.st = s.lsn[c].st /\ l.unsent = s.lsn[c].unsent /\ l.pos = s.lsn[c].pos
      BY <3>1, <3>2, ReadsOff, Zenon
    <3> QED BY <3>2, <3>3, Zenon
  <2> QED BY <2>1, <2>2
<1>20. PICK v : v = Opens(t0, x, sw)
  OBVIOUS
<1>21. PICK v1 : v1 = [v EXCEPT !.conn[o] = old]
  OBVIOUS
<1>22. sw \in VpnConnection /\ sw.sid = x /\ sw.up = u /\ old \in VpnConnection /\ e = [u |-> sw.up, st |-> "opening"]
  BY <1>15, <1>16, <1>17 DEF Target, Source
<1>f. OpensSet(t0, v, x, x, sw, e)
  <2>1. x \in Objs /\ sw.sid \in Sids /\ sw.up \in Upstreams
    BY <1>8, <1>22 DEF Objs
  <2>2. OpensSet(t0, Opens(t0, x, sw), x, sw.sid, sw, e)
    BY <1>6, <1>22, <2>1, OpenedSet
  <2> QED BY <1>20, <1>22, <2>2
<1>g. v \in TunnelState /\ v.lsn = t0.lsn
  BY <1>f DEF OpensSet
<1>h. ConnSet(v, v1, o, old)
  BY <1>2, <1>21, <1>22, <1>g, ConnectionSet
<1>23. m = [v1 EXCEPT !.lsn[c] = l]
  <2>1. v1.lsn = s.lsn
    BY <1>6, <1>g, <1>h DEF ConnSet
  <2>2. m = IF q.proto = "udp" THEN [v1 EXCEPT !.lsn[c].pos = @ + 1] ELSE TurnRead(v1, c, FALSE)
    BY <1>3, <1>6, <1>7, <1>10, <1>11, <1>13, <1>14, <1>20, <1>21, <1>d, ZenonT(60) DEF InitiateConnectionMigration
  <2>3. CASE q.proto = "udp"
    <3>1. l = [v1.lsn[c] EXCEPT !.pos = v1.lsn[c].pos + 1]
      BY <1>18, <2>1, <2>3
    <3> QED BY <2>2, <2>3, <3>1
  <2>4. CASE q.proto # "udp"
    <3>1. l = [v1.lsn[c] EXCEPT !.reads = FALSE]
      BY <1>18, <2>1, <2>4
    <3> QED BY <2>2, <2>4, <3>1 DEF TurnRead
  <2> QED BY <2>3, <2>4
<1>24. MigSet(s, m, o, c, old, l, x, sw, e)
  <2>1. v1 \in TunnelState
    BY <1>h DEF ConnSet
  <2>2. LsnSet(v1, m, c, l)
    BY <1>19, <1>23, <2>1, ListenerSet
  <2> QED BY <1>2, <1>5, <1>8, <1>9, <1>f, <1>h, <2>2, MigSetMade
<1>25. r.proto = "tcp" => sw.buf = r.buf
  BY <1>3, <1>11, <1>16
<1>26. e.u = u
  BY <1>17
<1>27. MigParts(s, m, o, c, r, u, old, l, x, sw, e)
  BY <1>3, <1>8, <1>15, <1>16, <1>19, <1>24, <1>25, <1>26, Zenon DEF MigParts
<1>28. MigParts(s, InitiateConnectionMigration([s EXCEPT !.conn[o] = q], o, u, s.lsn[c].pos), o, c, s.conn[o], u, old, l, x, sw, e)
  BY <1>27, <1>a, <1>b, <1>c, <1>d
<1> QED BY <1>15, <1>28

LEMMA MigrateOK ==
  ASSUME NEW s, TunnelOK(s), NEW c \in Cids, NEW o, Reading(s, c, o), NEW r, r = s.conn[o],
         r.proto = "tcp" => r.st = "CONNECTED", NEW u \in Upstreams, ~EarlyAck => u # "fake",
         NEW m, NEW old, NEW l, NEW x, NEW sw, NEW e, MigParts(s, m, o, c, r, u, old, l, x, sw, e)
  PROVE  /\ ~old.fakec => TunnelOK(m)
         /\ TunnelOK([m EXCEPT !.conn[o].fakec = FALSE]) /\ m.conn[o].st = "CONNECTED_MIGRATING"
<1>1. /\ Source(r, old) /\ l \in ListenerConn /\ l.st = "open" /\ l.unsent = s.lsn[c].unsent
      /\ r.proto = "tcp" => ~l.reads /\ l.pos = s.lsn[c].pos
      /\ x \in Sids /\ s.ups[x].u = NON /\ Target(sw, x, u, c, r.proto) /\ (r.proto = "tcp" => sw.buf = r.buf)
      /\ e.u = u /\ MigSet(s, m, o, c, old, l, x, sw, e)
  BY DEF MigParts
<1>2. ASSUME ~old.fakec PROVE TunnelOK(m)
  BY <1>1, <1>2, MigratedOK
<1>3. m \in TunnelState /\ m.conn[o] = old /\ old.st = "CONNECTED_MIGRATING" /\ old \in VpnConnection /\ o \in Objs
  <2>1. ReadingHolds(s, c, o, r)
    BY ReadingFacts
  <2> QED BY <1>1, <2>1 DEF MigSet, Source, ReadingHolds
<1>4. PICK old2 : old2 = [old EXCEPT !.fakec = FALSE]
  OBVIOUS
<1>5. Source(r, old2) /\ ~old2.fakec
  <2>1. old2 \in VpnConnection
    BY <1>3, <1>4, ZenonT(60) DEF VpnConnection
  <2>2. /\ old2.cid = old.cid /\ old2.sid = old.sid /\ old2.up = old.up /\ old2.st = old.st
        /\ old2.proto = old.proto /\ old2.mig = old.mig /\ old2.closed = old.closed /\ old2.task = old.task /\ old2.first = old.first
        /\ old2.looking = old.looking /\ old2.buf = old.buf /\ ~old2.fakec
    BY <1>3, <1>4, Zenon DEF VpnConnection
  <2>3. /\ old.cid = r.cid /\ old.sid = r.sid /\ old.up = r.up /\ old.st = "CONNECTED_MIGRATING"
        /\ old.proto = r.proto /\ old.mig = r.mig /\ old.closed = r.closed /\ old.task = r.task /\ (old.first => r.first)
        /\ (old.proto = "tcp" => old.buf = <<>> /\ (old.looking => old.up = "fake"))
    BY <1>1 DEF Source
  <2> QED BY <2>1, <2>2, <2>3 DEF Source
<1>6. PICK t : t = [m EXCEPT !.conn[o] = old2]
  OBVIOUS
<1>7. ConnSet(m, t, o, old2)
  <2>1. old2 \in VpnConnection
    BY <1>5 DEF Source
  <2> QED BY <1>3, <1>6, <2>1, ConnectionSet
<1>8. MigSet(s, t, o, c, old2, l, x, sw, e)
  <2>1. o # x
    <3>1. \A p \in Objs : s.conn[p] # NON => s.conn[p].sid # x
      BY <1>1, FreshSid
    <3>2. ObjOK(s, o) /\ r # NON
      <4>1. ReadingHolds(s, c, o, r) /\ ObjOK(s, o)
        BY ReadingFacts
      <4> QED BY <4>1 DEF ReadingHolds
    <3> QED BY <1>1, <1>3, <3>1, <3>2, Zenon DEF ObjOK
  <2>2. x \in Objs
    BY <1>1 DEF Objs
  <2> QED BY <1>1, <1>7, <2>1, <2>2 DEF MigSet, ConnSet
<1>9. TunnelOK(t)
  BY <1>1, <1>5, <1>8, MigratedOK
<1>10. t = [m EXCEPT !.conn[o].fakec = FALSE]
  BY <1>3, <1>4, <1>6, Zenon
<1> QED BY <1>2, <1>3, <1>9, <1>10

LEMMA ClosingStep ==
  ASSUME NEW s, TunnelOK(s), NEW c \in Cids, NEW o, Reading(s, c, o), NEW r, ReadingHolds(s, c, o, r), NEW q, Cleared(r, q), NEW l,
         l.st = "closing", ~l.reads, l.pos = s.lsn[c].pos, l.unsent = s.lsn[c].unsent,
         NEW t, RecSet(s, t, o, c, q, l, s.wire[c])
  PROVE  TunnelOK(t)
<1>a. r = s.conn[o]
  BY DEF ReadingHolds
<1>1. Settled(s, o, c, r.sid) /\ CliOK(s, c) /\ ObjOK(s, o)
  BY <1>a, ReadingFacts
<1>2. /\ s \in TunnelState /\ o \in Objs /\ r \in VpnConnection /\ r # NON /\ r.cid = c /\ c # NON
      /\ r.mig = NON /\ ~r.task /\ r.st \in {"CONNECTED", "CONNECTED_MIGRATING"}
      /\ r.sid \in Sids /\ r.sid # NON /\ s.byServer[r.sid] = o
      /\ c \notin s.app /\ c \notin s.waiters /\ r.up # NON
      /\ r.proto = "udp" => ~s.lsn[c].unsent
      /\ r.proto = "tcp" /\ r.st = "CONNECTED" => s.wire[c] \o r.buf = Counted(s.lsn[c].pos - 1)
      /\ s.byClient[c] = o /\ o # NON /\ s.lsn[c].st = "open"
  BY DEF ReadingHolds, Reading
<1>3. /\ q \in VpnConnection /\ q.cid = r.cid /\ q.sid = r.sid /\ q.up = r.up /\ q.st = r.st
      /\ q.proto = r.proto /\ q.mig = r.mig /\ q.closed = r.closed /\ q.task = r.task /\ q.buf = r.buf
      /\ (q.looking => r.looking) /\ (q.fakec => r.fakec) /\ (q.first => r.first)
  BY DEF Cleared
<1>4. t \in TunnelState /\ t.conn[o] = q /\ t.lsn[c] = l /\ t.wire[c] = s.wire[c] /\ t.byClient = s.byClient
      /\ t.byServer = s.byServer /\ t.waiters = s.waiters /\ t.app = s.app /\ t.ups = s.ups
  BY Zenon DEF RecSet
<1>5. q # NON
  BY <1>3, Apartness, Zenon
<1>6. ObjOK(t, o)
  BY <1>1, <1>2, <1>3, <1>4, <1>5, <1>a, SMTT(60) DEF ObjOK
<1>7. ~EarlyAck => FakeOK(t, o)
  <2>1. ~EarlyAck => FakeOK(s, o)
    BY <1>2, Zenon DEF TunnelOK
  <2>2. l.st \notin {"asked", "passed", "open"}
    OBVIOUS
  <2> QED BY <1>2, <1>3, <1>4, <1>a, <2>1, <2>2, Zenon DEF FakeOK
<1>8. CliOK(t, c)
  <2>1. CliParts(t, c, o, q, l, s.wire[c])
    BY <1>2, <1>3, <1>4, <1>5 DEF CliParts
  <2> QED BY <2>1, CliBuilt
<1>9. WorksOut(s, t, o, c, r.sid)
  BY <1>1, <1>2, <1>3, <1>6, <1>7, <1>8, <1>a, RecordsWork
<1> QED BY <1>2, <1>9, <1>a, FiledStep

Failed(t, o, q) == TunnelOK(t) /\ t.conn[o] = q

LEMMA FailedOK ==
  ASSUME NEW s, TunnelOK(s), NEW c \in Cids, NEW o, Reading(s, c, o), NEW q, Cleared(s.conn[o], q)
  PROVE  Failed(MigrationFailed([s EXCEPT !.conn[o] = q], o), o, q)
<1>1. PICK r : r = s.conn[o]
  OBVIOUS
<1>2. ReadingHolds(s, c, o, r) /\ Cleared(r, q)
  BY <1>1, ReadingFacts
<1>3. /\ s \in TunnelState /\ o \in Objs /\ r.cid = c /\ r.st \in {"CONNECTED", "CONNECTED_MIGRATING"}
      /\ s.lsn[c] \in ListenerConn /\ s.wire[c] \in Seq(1..MaxPkt) /\ s.lsn[c].st = "open"
  BY <1>2 DEF ReadingHolds
<1>4. q \in VpnConnection /\ q.cid = c /\ q.st \in {"CONNECTED", "CONNECTED_MIGRATING"}
  BY <1>2, <1>3 DEF Cleared
<1>5. PICK t0 : t0 = [s EXCEPT !.conn[o] = q]
  OBVIOUS
<1>6. ConnSet(s, t0, o, q)
  BY <1>3, <1>4, <1>5, ConnectionSet
<1>7. t0 \in TunnelState /\ t0.conn[o] = q /\ t0.lsn = s.lsn
  BY <1>6 DEF ConnSet
<1>8. PICK m : m = [s.lsn[c] EXCEPT !.reads = FALSE]
  OBVIOUS
<1>9. m \in ListenerConn /\ m.reads = FALSE /\ m.st = "open" /\ m.unsent = s.lsn[c].unsent /\ m.pos = s.lsn[c].pos
  BY <1>3, <1>8, Zenon DEF ListenerConn
<1>10. PICK t1 : t1 = [t0 EXCEPT !.lsn[c] = m]
  OBVIOUS
<1>11. LsnSet(t0, t1, c, m)
  BY <1>7, <1>9, <1>10, ListenerSet
<1>12. t1 \in TunnelState /\ t1.conn[o] = q /\ t1.lsn[c] = m
  BY <1>7, <1>11 DEF LsnSet
<1>13. PICK l : l = [m EXCEPT !.st = "closing"]
  OBVIOUS
<1>14. l \in ListenerConn /\ l.st = "closing" /\ ~l.reads /\ l.pos = s.lsn[c].pos /\ l.unsent = s.lsn[c].unsent
  <2>1. "closing" \in ListenerStates
    BY DEF ListenerStates
  <2> QED BY <1>9, <1>13, <2>1, LsnStateSet
<1>15. PICK t : t = [t1 EXCEPT !.lsn[c] = l]
  OBVIOUS
<1>16. LsnSet(t1, t, c, l)
  BY <1>12, <1>14, <1>15, ListenerSet
<1>17. t1 = TurnRead(t0, q.cid, FALSE)
  BY <1>4, <1>7, <1>8, <1>10 DEF TurnRead
<1>18. MigrationFailed(t0, o) = CloseListener(t1, c, FALSE, TRUE)
  BY <1>4, <1>7, <1>12, <1>17 DEF MigrationFailed, CloseClientSideConnection
<1>19. CloseListener(t1, c, FALSE, TRUE) = t
  BY <1>9, <1>12, <1>13, <1>15 DEF CloseListener
<1>20. RecSet(s, t, o, c, q, l, s.wire[c])
  BY <1>6, <1>11, <1>16, SMT DEF ConnSet, LsnSet, RecSet
<1>21. TunnelOK(t)
  BY <1>2, <1>14, <1>20, ClosingStep
<1>22. t.conn[o] = q
  BY <1>20 DEF RecSet
<1> QED BY <1>5, <1>18, <1>19, <1>21, <1>22 DEF Failed

LEMMA SentFlags ==
  ASSUME NEW r \in VpnConnection, NEW q, q = [r EXCEPT !.first = FALSE, !.fakec = FALSE]
  PROVE  q \in VpnConnection /\ Cleared(r, q) /\ q.looking = r.looking
<1>1. q \in VpnConnection
  BY Zenon DEF VpnConnection
<1>2. /\ q.cid = r.cid /\ q.sid = r.sid /\ q.up = r.up /\ q.st = r.st
      /\ q.proto = r.proto /\ q.mig = r.mig /\ q.closed = r.closed /\ q.task = r.task /\ q.buf = r.buf /\ q.dst = r.dst
      /\ q.looking = r.looking /\ q.fakec = FALSE /\ q.first = FALSE
  BY Zenon DEF VpnConnection
<1> QED BY <1>1, <1>2 DEF Cleared

\* The connection's buffer becomes b and its packets on the wire w.
Flow(s, c, r, b, l, w) ==
    /\ b \in Seq(1..MaxPkt) /\ w \in Seq(1..MaxPkt) /\ l \in ListenerConn /\ l.st = s.lsn[c].st /\ l.unsent = s.lsn[c].unsent
    /\ r.st = "CONNECTED_MIGRATING" => r.proto = "udp"
    /\ r.proto = "tcp" => w \o b = Counted(l.pos - 1)

FlowRecord(r, q, b) ==
    /\ q \in VpnConnection /\ q.cid = r.cid /\ q.sid = r.sid /\ q.up = r.up /\ q.st = r.st
    /\ q.proto = r.proto /\ q.mig = r.mig /\ q.closed = r.closed /\ q.task = r.task /\ q.buf = b
    /\ (q.looking => r.looking) /\ (q.fakec => r.fakec) /\ (q.first => r.first)

LEMMA FlowStep ==
  ASSUME NEW s, TunnelOK(s), NEW c \in Cids, NEW o, Reading(s, c, o), NEW r, ReadingHolds(s, c, o, r),
         NEW b, NEW l, NEW w, Flow(s, c, r, b, l, w), NEW q, FlowRecord(r, q, b), r.fakec => q.fakec,
         NEW t, RecSet(s, t, o, c, q, l, w)
  PROVE  TunnelOK(t)
<1>1. /\ r = s.conn[o] /\ r.st \in {"CONNECTED", "CONNECTED_MIGRATING"} /\ (r.proto = "udp" => ~s.lsn[c].unsent)
      /\ o \in Objs /\ r # NON /\ r.cid = c /\ r.proto \in {"tcp", "udp"}
  <2>1. r \in VpnConnection
    BY DEF ReadingHolds
  <2>2. r.proto \in {"tcp", "udp"}
    BY <2>1, ConnFields
  <2> QED BY <2>2 DEF ReadingHolds
<1>2. s.byClient[c] = o /\ o # NON
  BY DEF Reading
<1>3. /\ q \in VpnConnection /\ q.cid = r.cid /\ q.sid = r.sid /\ q.up = r.up /\ q.st = r.st
      /\ q.proto = r.proto /\ q.mig = r.mig /\ q.closed = r.closed /\ q.task = r.task /\ q.buf = b
      /\ (q.looking => r.looking) /\ (q.fakec => r.fakec) /\ (q.first => r.first)
  BY DEF FlowRecord
<1>4. /\ l.st = s.lsn[c].st /\ l.unsent = s.lsn[c].unsent
      /\ r.st = "CONNECTED_MIGRATING" => r.proto = "udp"
      /\ r.proto = "tcp" => w \o b = Counted(l.pos - 1)
  BY DEF Flow
<1>5. DataMoved(s, r, o, c, q, l, w)
  BY <1>1, <1>3, <1>4 DEF DataMoved
<1>6. t.conn[o] = q /\ t.lsn[c] = l
  BY DEF RecSet
<1>7. ~EarlyAck => FakeOK(t, o)
  <2>1. ~EarlyAck => FakeOK(s, o)
    BY <1>1, Zenon DEF TunnelOK
  <2> QED BY <1>1, <1>3, <1>4, <1>6, <2>1, Zenon DEF FakeOK
<1>8. DataMoved(s, s.conn[o], o, c, q, l, w)
  BY <1>1, <1>5
<1> QED BY <1>2, <1>7, <1>8, DataStep

\* The counted packets with the next one.
LEMMA CountedNext ==
  ASSUME NEW w \in Seq(1..MaxPkt), NEW n \in 1..MaxPkt, w = Counted(n - 1)
  PROVE  Append(w, n) = Counted(n) /\ Append(w, n) \in Seq(1..MaxPkt)
<1>1. PICK m : m = n - 1
  OBVIOUS
<1>2. m \in Nat /\ m + 1 = n
  BY <1>1, TunnelAssumption
<1>3. Append(w, m + 1) = Counted(m + 1)
  BY <1>1, <1>2, Counting
<1> QED BY <1>2, <1>3

LEMMA ConcatPkts ==
  ASSUME NEW w \in Seq(1..MaxPkt), NEW b \in Seq(1..MaxPkt)
  PROVE  w \o b \in Seq(1..MaxPkt)
OBVIOUS

LEMMA AppendFlow ==
  ASSUME NEW s, NEW c, NEW o, NEW r, ReadingHolds(s, c, o, r), r.st = "CONNECTED_MIGRATING" => r.proto = "udp"
  PROVE  Flow(s, c, r, Append(r.buf, s.lsn[c].pos), [s.lsn[c] EXCEPT !.pos = s.lsn[c].pos + 1], s.wire[c])
<1>1. PICK n : n = s.lsn[c].pos
  OBVIOUS
<1>2. PICK b : b = Append(r.buf, n)
  OBVIOUS
<1>3. PICK l : l = [s.lsn[c] EXCEPT !.pos = s.lsn[c].pos + 1]
  OBVIOUS
<1>4. /\ s.lsn[c] \in ListenerConn /\ s.wire[c] \in Seq(1..MaxPkt) /\ r.buf \in Seq(1..MaxPkt) /\ n \in 1..MaxPkt
      /\ (r.proto = "tcp" /\ r.st = "CONNECTED" => s.wire[c] \o r.buf = Counted(n - 1))
      /\ r.st \in {"CONNECTED", "CONNECTED_MIGRATING"}
  BY <1>1 DEF ReadingHolds
<1>5. l \in ListenerConn /\ l.pos = n + 1 /\ l.st = s.lsn[c].st /\ l.unsent = s.lsn[c].unsent
  BY <1>1, <1>3, <1>4, PosNext
<1>6. b \in Seq(1..MaxPkt)
  BY <1>2, <1>4
<1>7. ASSUME r.proto = "tcp" PROVE s.wire[c] \o b = Counted(l.pos - 1)
  <2>1. PICK S : S = 1..MaxPkt
    OBVIOUS
  <2>2. PICK w : w = s.wire[c] \o r.buf
    OBVIOUS
  <2>3. w = Counted(n - 1) /\ w \in Seq(1..MaxPkt)
    <3>1. r.st = "CONNECTED"
      BY <1>4, <1>7
    <3>2. w = Counted(n - 1)
      BY <1>4, <1>7, <2>2, <3>1, Zenon
    <3>3. w \in Seq(1..MaxPkt)
      BY <1>4, <2>2, ConcatPkts, Zenon
    <3> QED BY <3>2, <3>3
  <2>4. Append(w, n) = Counted(n)
    BY <1>4, <2>3, CountedNext
  <2>5. s.wire[c] \o b = Append(w, n)
    <3>1. s.wire[c] \in Seq(S) /\ r.buf \in Seq(S) /\ n \in S
      BY <1>4, <2>1, Zenon
    <3>2. s.wire[c] \o Append(r.buf, n) = Append(s.wire[c] \o r.buf, n)
      <4>1. PICK z : z = s.wire[c]
        OBVIOUS
      <4>2. PICK y : y = r.buf
        OBVIOUS
      <4>3. z \in Seq(S) /\ y \in Seq(S) /\ n \in S
        BY <3>1, <4>1, <4>2
      <4>4. z \o Append(y, n) = Append(z \o y, n)
        BY <4>3, AppendConcat
      <4> QED BY <4>1, <4>2, <4>4
    <3> QED BY <1>2, <2>2, <3>2, Zenon
  <2>6. l.pos - 1 = n
    BY <1>4, <1>5
  <2> QED BY <2>4, <2>5, <2>6, Zenon
<1>8. Flow(s, c, r, b, l, s.wire[c])
  BY <1>4, <1>5, <1>6, <1>7 DEF Flow
<1> QED BY <1>1, <1>2, <1>3, <1>8

LEMMA DrainFlow ==
  ASSUME NEW s, NEW c, NEW o, NEW r, ReadingHolds(s, c, o, r), r.st = "CONNECTED", NEW k \in 0..Len(r.buf)
  PROVE  Flow(s, c, r, SubSeq(r.buf, k + 1, Len(r.buf)), [s.lsn[c] EXCEPT !.reads = FALSE], s.wire[c] \o SubSeq(r.buf, 1, k))
<1>2. PICK b : b = SubSeq(r.buf, k + 1, Len(r.buf))
  OBVIOUS
<1>1. PICK w : w = s.wire[c] \o SubSeq(r.buf, 1, k)
  OBVIOUS
<1>3. PICK l : l = [s.lsn[c] EXCEPT !.reads = FALSE]
  OBVIOUS
<1>4. /\ s.lsn[c] \in ListenerConn /\ s.wire[c] \in Seq(1..MaxPkt) /\ r.buf \in Seq(1..MaxPkt)
      /\ (r.proto = "tcp" /\ r.st = "CONNECTED" => s.wire[c] \o r.buf = Counted(s.lsn[c].pos - 1))
  BY DEF ReadingHolds
<1>5. l \in ListenerConn /\ l.pos = s.lsn[c].pos /\ l.st = s.lsn[c].st /\ l.unsent = s.lsn[c].unsent
  BY <1>3, <1>4, Zenon DEF ListenerConn
<1>6. b \in Seq(1..MaxPkt) /\ w \in Seq(1..MaxPkt) /\ w \o b = s.wire[c] \o r.buf
  <2>1. PICK S : S = 1..MaxPkt
    OBVIOUS
  <2>2. r.buf \in Seq(S) /\ s.wire[c] \in Seq(S)
    BY <1>4, <2>1
  <2>3. Drained(s.wire[c], r.buf, k, w, b, S)
    BY <1>1, <1>2, <2>2, SplitSeq, Zenon
  <2> QED BY <2>1, <2>3, Zenon DEF Drained
<1>8. Flow(s, c, r, b, l, w)
  BY <1>4, <1>5, <1>6 DEF Flow
<1> QED BY <1>1, <1>2, <1>3, <1>8

LEMMA TakenFlow ==
  ASSUME NEW s, NEW c, NEW o, NEW r, ReadingHolds(s, c, o, r), r.st = "CONNECTED"
  PROVE  Flow(s, c, r, SubSeq(r.buf, Len(r.buf) + 1, Len(r.buf)), [s.lsn[c] EXCEPT !.pos = s.lsn[c].pos + 1],
              Append(s.wire[c] \o SubSeq(r.buf, 1, Len(r.buf)), s.lsn[c].pos))
<1>1. PICK n : n = s.lsn[c].pos
  OBVIOUS
<1>2. PICK b : b = SubSeq(r.buf, Len(r.buf) + 1, Len(r.buf))
  OBVIOUS
<1>3. PICK l : l = [s.lsn[c] EXCEPT !.pos = s.lsn[c].pos + 1]
  OBVIOUS
<1>4. /\ s.lsn[c] \in ListenerConn /\ s.wire[c] \in Seq(1..MaxPkt) /\ r.buf \in Seq(1..MaxPkt) /\ n \in 1..MaxPkt
      /\ (r.proto = "tcp" /\ r.st = "CONNECTED" => s.wire[c] \o r.buf = Counted(n - 1))
  BY <1>1 DEF ReadingHolds
<1>5. l \in ListenerConn /\ l.pos = n + 1 /\ l.st = s.lsn[c].st /\ l.unsent = s.lsn[c].unsent
  BY <1>1, <1>3, <1>4, PosNext
<1>6. PICK w : w = s.wire[c] \o SubSeq(r.buf, 1, Len(r.buf))
  OBVIOUS
<1>7. b = <<>> /\ SubSeq(r.buf, 1, Len(r.buf)) = r.buf
  BY <1>2, <1>4
<1>8. w = s.wire[c] \o r.buf /\ w \in Seq(1..MaxPkt)
  <2>1. w = s.wire[c] \o r.buf
    BY <1>6, <1>7, Zenon
  <2> QED BY <1>4, <2>1, ConcatPkts, Zenon
<1>9. Append(w, n) \in Seq(1..MaxPkt) /\ Append(w, n) \o b = Append(w, n)
  BY <1>4, <1>7, <1>8
<1>10. ASSUME r.proto = "tcp" PROVE Append(w, n) \o b = Counted(l.pos - 1)
  <2>1. w = Counted(n - 1)
    BY <1>4, <1>8, <1>10, Zenon
  <2>2. Append(w, n) = Counted(n)
    BY <1>4, <1>8, <2>1, CountedNext
  <2>3. l.pos - 1 = n
    BY <1>4, <1>5
  <2> QED BY <1>9, <2>2, <2>3, Zenon
<1>11. b \in Seq(1..MaxPkt)
  BY <1>7
<1>12. Flow(s, c, r, b, l, Append(w, n))
  BY <1>5, <1>9, <1>10, <1>11 DEF Flow
<1> QED BY <1>1, <1>2, <1>3, <1>6, <1>12

LEMMA BufFlow ==
  ASSUME NEW r, NEW q0, Cleared(r, q0), NEW b \in Seq(1..MaxPkt), NEW q, q = [q0 EXCEPT !.buf = b]
  PROVE  FlowRecord(r, q, b) /\ (q0.fakec => q.fakec)
<1>1. /\ q0 \in VpnConnection /\ q0.cid = r.cid /\ q0.sid = r.sid /\ q0.up = r.up /\ q0.st = r.st
      /\ q0.proto = r.proto /\ q0.mig = r.mig /\ q0.closed = r.closed /\ q0.task = r.task
      /\ (q0.looking => r.looking) /\ (q0.fakec => r.fakec) /\ (q0.first => r.first)
  BY DEF Cleared
<1>2. /\ q \in VpnConnection /\ q.buf = b /\ q.cid = q0.cid /\ q.sid = q0.sid /\ q.up = q0.up /\ q.st = q0.st
      /\ q.proto = q0.proto /\ q.mig = q0.mig /\ q.first = q0.first /\ q.fakec = q0.fakec /\ q.closed = q0.closed
      /\ q.task = q0.task /\ q.looking = q0.looking
  BY <1>1, BufSet
<1> QED BY <1>1, <1>2 DEF FlowRecord

\* Sent, one field after the other.
SentNested(s, o, k) ==
    [[s EXCEPT !.conn[o] = [s.conn[o] EXCEPT !.buf = SubSeq(s.conn[o].buf, k + 1, Len(s.conn[o].buf))]]
        EXCEPT !.wire[s.conn[o].cid] = s.wire[s.conn[o].cid] \o SubSeq(s.conn[o].buf, 1, k)]

LEMMA SentIs ==
  ASSUME NEW s \in TunnelState, NEW o \in Objs, NEW k
  PROVE  Sent(s, o, k) = SentNested(s, o, k)
BY StateFields, SMT DEF Sent, TunnelState, SentNested

LEMMA SendPacketOK ==
  ASSUME NEW s, TunnelOK(s), NEW c \in Cids, NEW o, Reading(s, c, o), s.conn[o].st = "CONNECTED", ~s.conn[o].fakec,
         NEW k \in 0..Len(s.conn[o].buf), NEW take \in BOOLEAN
  PROVE  TunnelOK(SendPacket(s, o, c, k, take))
<1>1. PICK r : r = s.conn[o]
  OBVIOUS
<1>2. ReadingHolds(s, c, o, r) /\ r.st = "CONNECTED" /\ ~r.fakec /\ k \in 0..Len(r.buf)
  BY <1>1, ReadingFacts
<1>3. s \in TunnelState /\ o \in Objs /\ r \in VpnConnection /\ r.cid = c /\ s.lsn[c] \in ListenerConn /\ r.buf \in Seq(1..MaxPkt)
  BY <1>2 DEF ReadingHolds
<1>4. PICK q1 : q1 = [r EXCEPT !.first = FALSE, !.fakec = FALSE]
  OBVIOUS
<1>5. q1 \in VpnConnection /\ Cleared(r, q1)
  BY <1>3, <1>4, SentFlags
<1>6. q1.buf = r.buf /\ q1.cid = c
  BY <1>3, <1>5 DEF Cleared
<1>7. PICK b : b = SubSeq(r.buf, k + 1, Len(r.buf))
  OBVIOUS
<1>8. PICK w : w = s.wire[c] \o SubSeq(r.buf, 1, k)
  OBVIOUS
<1>9. PICK l : l = [s.lsn[c] EXCEPT !.reads = FALSE]
  OBVIOUS
<1>10. Flow(s, c, r, b, l, w)
  <2>1. Flow(s, c, r, SubSeq(r.buf, k + 1, Len(r.buf)), [s.lsn[c] EXCEPT !.reads = FALSE], s.wire[c] \o SubSeq(r.buf, 1, k))
    BY <1>2, DrainFlow
  <2> QED BY <1>7, <1>8, <1>9, <2>1
<1>11. b \in Seq(1..MaxPkt) /\ w \in Seq(1..MaxPkt) /\ l \in ListenerConn
  BY <1>10 DEF Flow
<1>12. PICK q : q = [q1 EXCEPT !.buf = b]
  OBVIOUS
<1>13. FlowRecord(r, q, b) /\ q \in VpnConnection /\ (r.fakec => q.fakec)
  <2>1. FlowRecord(r, q, b)
    BY <1>5, <1>11, <1>12, BufFlow
  <2> QED BY <1>2, <2>1 DEF FlowRecord
<1>14. PICK s1 : s1 = [s EXCEPT !.conn[o] = q1]
  OBVIOUS
<1>15. ConnSet(s, s1, o, q1)
  BY <1>3, <1>5, <1>14, ConnectionSet
<1>16. s1 \in TunnelState /\ s1.conn[o] = q1 /\ s1.wire = s.wire /\ s1.lsn = s.lsn
  BY <1>15 DEF ConnSet
<1>17. s1 = [s EXCEPT !.conn[o] = [@ EXCEPT !.first = FALSE, !.fakec = FALSE]]
  BY <1>1, <1>4, <1>14
<1>18. PICK v1 : v1 = [s1 EXCEPT !.conn[o] = q]
  OBVIOUS
<1>19. ConnSet(s1, v1, o, q)
  BY <1>3, <1>13, <1>16, <1>18, ConnectionSet
<1>20. v1 \in TunnelState /\ v1.wire = s.wire /\ v1.lsn = s.lsn
  BY <1>16, <1>19 DEF ConnSet
<1>21. PICK v2 : v2 = [v1 EXCEPT !.wire[c] = w]
  OBVIOUS
<1>22. WireSet(v1, v2, c, w)
  BY <1>11, <1>20, <1>21, OnWireSet
<1>23. v2 \in TunnelState /\ v2.lsn = s.lsn /\ v2.wire[c] = w
  BY <1>20, <1>22 DEF WireSet
<1>24. Sent(s1, o, k) = v2
  <2>1. b = SubSeq(q1.buf, k + 1, Len(q1.buf)) /\ w = s1.wire[c] \o SubSeq(q1.buf, 1, k)
    BY <1>6, <1>7, <1>8, <1>16
  <2>2. Sent(s1, o, k) = [[s1 EXCEPT !.conn[o] = [s1.conn[o] EXCEPT !.buf = SubSeq(s1.conn[o].buf, k + 1, Len(s1.conn[o].buf))]]
                            EXCEPT !.wire[s1.conn[o].cid] = s1.wire[s1.conn[o].cid] \o SubSeq(s1.conn[o].buf, 1, k)]
    <3>1. Sent(s1, o, k) = SentNested(s1, o, k)
      BY <1>3, <1>16, SentIs
    <3> QED BY <3>1, Zenon DEF SentNested
  <2>3. s1.conn[o] = q1 /\ s1.conn[o].cid = c
    BY <1>6, <1>16
  <2>4. [s1.conn[o] EXCEPT !.buf = SubSeq(s1.conn[o].buf, k + 1, Len(s1.conn[o].buf))] = q
    BY <1>12, <2>1, <2>3
  <2>5. Sent(s1, o, k) = [v1 EXCEPT !.wire[c] = s1.wire[c] \o SubSeq(q1.buf, 1, k)]
    BY <1>18, <2>2, <2>3, <2>4
  <2> QED BY <1>21, <2>1, <2>5
<1>25. CASE ~take \/ k < Len(r.buf)
  <2>1. PICK t : t = [v2 EXCEPT !.lsn[c] = l]
    OBVIOUS
  <2>2. LsnSet(v2, t, c, l)
    BY <1>11, <1>23, <2>1, ListenerSet
  <2>3. RecSet(s, t, o, c, q, l, w)
    BY <1>15, <1>19, <1>22, <2>2, SMT DEF ConnSet, WireSet, LsnSet, RecSet
  <2>4. TunnelOK(t)
    BY <1>2, <1>10, <1>13, <2>3, FlowStep
  <2>5. SendPacket(s, o, c, k, take) = TurnRead(v2, c, FALSE)
    BY <1>1, <1>17, <1>24, <1>25, Zenon DEF SendPacket
  <2>6. TurnRead(v2, c, FALSE) = t
    BY <1>9, <1>23, <2>1 DEF TurnRead
  <2> QED BY <2>4, <2>5, <2>6
<1>26. CASE ~(~take \/ k < Len(r.buf))
  <2>1. k = Len(r.buf)
    BY <1>2, <1>3, <1>26
  <2>2. PICK l2 : l2 = [s.lsn[c] EXCEPT !.pos = s.lsn[c].pos + 1]
    OBVIOUS
  <2>3. PICK w2 : w2 = Append(w, s.lsn[c].pos)
    OBVIOUS
  <2>4. Flow(s, c, r, b, l2, w2)
    <3>1. Flow(s, c, r, SubSeq(r.buf, Len(r.buf) + 1, Len(r.buf)), [s.lsn[c] EXCEPT !.pos = s.lsn[c].pos + 1],
              Append(s.wire[c] \o SubSeq(r.buf, 1, Len(r.buf)), s.lsn[c].pos))
      BY <1>2, TakenFlow
    <3> QED BY <1>7, <1>8, <2>1, <2>2, <2>3, <3>1
  <2>5. w2 \in Seq(1..MaxPkt) /\ l2 \in ListenerConn
    BY <2>4 DEF Flow
  <2>6. PICK v3 : v3 = [v2 EXCEPT !.wire[c] = w2]
    OBVIOUS
  <2>7. WireSet(v2, v3, c, w2)
    BY <1>23, <2>5, <2>6, OnWireSet
  <2>8. v3 \in TunnelState /\ v3.lsn = s.lsn
    BY <1>23, <2>7 DEF WireSet
  <2>9. PICK t : t = [v3 EXCEPT !.lsn[c] = l2]
    OBVIOUS
  <2>10. LsnSet(v3, t, c, l2)
    BY <2>5, <2>8, <2>9, ListenerSet
  <2>11. RecSet(s, t, o, c, q, l2, w2)
    BY <1>15, <1>19, <1>22, <2>7, <2>10, SMT DEF ConnSet, WireSet, LsnSet, RecSet
  <2>12. TunnelOK(t)
    BY <1>2, <1>13, <2>4, <2>11, FlowStep
  <2>13. SendPacket(s, o, c, k, take) = [v2 EXCEPT !.wire[c] = Append(@, s.lsn[c].pos), !.lsn[c].pos = @ + 1]
    BY <1>1, <1>17, <1>24, <1>26, Zenon DEF SendPacket
  <2>14. t = [v2 EXCEPT !.wire[c] = Append(@, s.lsn[c].pos), !.lsn[c].pos = @ + 1]
    <3>1. w2 = Append(v2.wire[c], s.lsn[c].pos) /\ l2 = [v2.lsn[c] EXCEPT !.pos = v2.lsn[c].pos + 1]
      BY <1>23, <2>2, <2>3
    <3>2. t = [v2 EXCEPT !.wire[c] = w2, !.lsn[c] = l2]
      BY <1>23, <2>6, <2>9, StateFields, SMT DEF TunnelState
    <3> QED BY <3>1, <3>2
  <2> QED BY <2>12, <2>13, <2>14
<1> QED BY <1>25, <1>26

LEMMA ConsumedOK ==
  ASSUME NEW s, TunnelOK(s), NEW c \in Cids, NEW o, Reading(s, c, o), NEW r, ReadingHolds(s, c, o, r), NEW b, NEW q,
         FlowRecord(r, q, b), r.fakec => q.fakec, Flow(s, c, r, b, [s.lsn[c] EXCEPT !.pos = s.lsn[c].pos + 1], s.wire[c])
  PROVE  TunnelOK(Consume([s EXCEPT !.conn[o] = q], c))
<1>1. PICK l : l = [s.lsn[c] EXCEPT !.pos = s.lsn[c].pos + 1]
  OBVIOUS
<1>2. Flow(s, c, r, b, l, s.wire[c]) /\ l \in ListenerConn
  BY <1>1 DEF Flow
<1>3. s \in TunnelState /\ o \in Objs /\ q \in VpnConnection
  BY DEF ReadingHolds, FlowRecord
<1>4. PICK v : v = [s EXCEPT !.conn[o] = q]
  OBVIOUS
<1>5. ConnSet(s, v, o, q)
  BY <1>3, <1>4, ConnectionSet
<1>6. v \in TunnelState /\ v.lsn = s.lsn
  BY <1>5 DEF ConnSet
<1>7. PICK t : t = [v EXCEPT !.lsn[c] = l]
  OBVIOUS
<1>8. LsnSet(v, t, c, l)
  BY <1>2, <1>6, <1>7, ListenerSet
<1>9. RecSet(s, t, o, c, q, l, s.wire[c])
  BY <1>5, <1>8, SMT DEF ConnSet, LsnSet, RecSet
<1>10. TunnelOK(t)
  BY <1>2, <1>9, FlowStep
<1>11. t = Consume(v, c)
  <2>1. l = [v.lsn[c] EXCEPT !.pos = v.lsn[c].pos + 1]
    BY <1>1, <1>6
  <2> QED BY <1>7, <2>1 DEF Consume
<1> QED BY <1>4, <1>10, <1>11

LEMMA BufferedRecord ==
  ASSUME NEW r \in VpnConnection, NEW b \in Seq(1..MaxPkt)
  PROVE  FlowRecord(r, [r EXCEPT !.buf = b, !.first = FALSE], b)
<1>0. PICK q : q = [r EXCEPT !.buf = b, !.first = FALSE]
  OBVIOUS
<1>1. q \in VpnConnection
  BY <1>0, Zenon DEF VpnConnection
<1>2. /\ q.cid = r.cid /\ q.sid = r.sid /\ q.up = r.up /\ q.st = r.st
      /\ q.proto = r.proto /\ q.mig = r.mig /\ q.closed = r.closed /\ q.task = r.task /\ q.buf = b
      /\ q.looking = r.looking /\ q.fakec = r.fakec /\ q.first = FALSE
  BY <1>0, Zenon DEF VpnConnection
<1>3. FlowRecord(r, q, b)
  BY <1>1, <1>2 DEF FlowRecord
<1> QED BY <1>0, <1>3

LEMMA TriedRecord ==
  ASSUME NEW r \in VpnConnection, NEW b \in Seq(1..MaxPkt), NEW n \in 0..(MaxLookupAttempts + 1)
  PROVE  FlowRecord(r, [r EXCEPT !.tries = n, !.buf = b], b) /\ ([r EXCEPT !.tries = n, !.buf = b]).fakec = r.fakec
<1>0. PICK q : q = [r EXCEPT !.tries = n, !.buf = b]
  OBVIOUS
<1>1. q \in VpnConnection
  BY <1>0, Zenon DEF VpnConnection
<1>2. /\ q.cid = r.cid /\ q.sid = r.sid /\ q.up = r.up /\ q.st = r.st
      /\ q.proto = r.proto /\ q.mig = r.mig /\ q.closed = r.closed /\ q.task = r.task /\ q.buf = b
      /\ q.looking = r.looking /\ q.fakec = r.fakec /\ q.first = r.first
  BY <1>0, Zenon DEF VpnConnection
<1>3. FlowRecord(r, q, b) /\ q.fakec = r.fakec
  BY <1>1, <1>2 DEF FlowRecord
<1> QED BY <1>0, <1>3

LEMMA UnmarkedRecord ==
  ASSUME NEW r \in VpnConnection
  PROVE  Cleared(r, [r EXCEPT !.fakec = FALSE, !.suspect = FALSE])
<1>0. PICK q : q = [r EXCEPT !.fakec = FALSE, !.suspect = FALSE]
  OBVIOUS
<1>1. q \in VpnConnection
  BY <1>0, Zenon DEF VpnConnection
<1>2. /\ q.cid = r.cid /\ q.sid = r.sid /\ q.up = r.up /\ q.st = r.st
      /\ q.proto = r.proto /\ q.mig = r.mig /\ q.closed = r.closed /\ q.task = r.task /\ q.buf = r.buf /\ q.dst = r.dst
      /\ q.looking = r.looking /\ q.fakec = FALSE /\ q.first = r.first
  BY <1>0, Zenon DEF VpnConnection
<1>3. Cleared(r, q)
  BY <1>1, <1>2 DEF Cleared
<1> QED BY <1>0, <1>3

LEMMA UnmarkedUpstream ==
  ASSUME NEW r \in VpnConnection, NEW q, q = [r EXCEPT !.fakec = FALSE, !.suspect = FALSE], NEW u, u = SelectUpstream("default", q)
  PROVE  u \in Upstreams /\ (~EarlyAck => u # "fake") /\ ~q.fakec
<1>1. q.suspect = FALSE /\ q.fakec = FALSE
  BY Zenon DEF VpnConnection
<1>2. u \in Upstreams
  BY SelectedUpstream
<1>3. ~EarlyAck => u # "fake"
  BY <1>1 DEF SelectUpstream, UpstreamOf, VpnModeToAction
<1> QED BY <1>1, <1>2, <1>3

\* The connection that migrates because of its domain is no longer marked as a fake one.
Unmarked(m, o) == IF m.conn[o].st = "CONNECTED_MIGRATING" THEN [m EXCEPT !.conn[o].fakec = FALSE] ELSE m

\* The two outcomes of a migration.
LEMMA MigrateWorks ==
  ASSUME NEW s, TunnelOK(s), NEW c \in Cids, NEW o, Reading(s, c, o), NEW q, Cleared(s.conn[o], q),
         s.conn[o].proto = "tcp" => s.conn[o].st = "CONNECTED", q.proto = "tcp" => (q.looking => q.up = "fake"),
         NEW u \in Upstreams, ~EarlyAck => u # "fake", NEW m, m = Migrate([s EXCEPT !.conn[o] = q], o, c, u)
  PROVE  /\ ~q.fakec => TunnelOK(m)
         /\ TunnelOK(Unmarked(m, o))
<1>1. PICK t0 : t0 = [s EXCEPT !.conn[o] = q]
  OBVIOUS
<1>2. PICK r : r = s.conn[o]
  OBVIOUS
<1>3. ReadingHolds(s, c, o, r) /\ Cleared(r, q)
  BY <1>2, ReadingFacts
<1>4. s \in TunnelState /\ o \in Objs /\ q \in VpnConnection /\ (r.fakec => r.st = "CONNECTED")
  BY <1>3 DEF ReadingHolds, Cleared
<1>5. t0.lsn = s.lsn
  <2>1. ConnSet(s, t0, o, q)
    BY <1>1, <1>4, ConnectionSet
  <2> QED BY <2>1 DEF ConnSet
<1>6. CASE CanMigrate(t0, u)
  <2>1. m = InitiateConnectionMigration([s EXCEPT !.conn[o] = q], o, u, s.lsn[c].pos)
    BY <1>1, <1>5, <1>6 DEF Migrate
  <2>2. CanMigrate([s EXCEPT !.conn[o] = q], u)
    BY <1>1, <1>6
  <2>3. \E old, l, x, sw, e :
           /\ old.fakec => q.fakec
           /\ MigParts(s, InitiateConnectionMigration([s EXCEPT !.conn[o] = q], o, u, s.lsn[c].pos), o, c, s.conn[o], u,
                       old, l, x, sw, e)
    BY <2>2, MigrationMade
  <2>4. PICK old, l, x, sw, e : (old.fakec => q.fakec) /\ MigParts(s, m, o, c, r, u, old, l, x, sw, e)
    BY <1>2, <2>1, <2>3
  <2>5. /\ ~old.fakec => TunnelOK(m)
        /\ TunnelOK([m EXCEPT !.conn[o].fakec = FALSE]) /\ m.conn[o].st = "CONNECTED_MIGRATING"
    BY <1>2, <2>4, MigrateOK
  <2> QED BY <2>4, <2>5 DEF Unmarked
<1>7. CASE ~CanMigrate(t0, u)
  <2>1. m = MigrationFailed([s EXCEPT !.conn[o] = q], o)
    BY <1>1, <1>7 DEF Migrate
  <2>2. Failed(MigrationFailed([s EXCEPT !.conn[o] = q], o), o, q)
    BY FailedOK
  <2>3. TunnelOK(m) /\ m.conn[o] = q
    BY <2>1, <2>2 DEF Failed
  <2>4. CASE q.st = "CONNECTED_MIGRATING"
    <3>1. q.fakec = FALSE
      <4>1. q.fakec \in BOOLEAN
        BY <1>4, ConnFields
      <4>2. ~q.fakec
        BY <1>3, <1>4, <2>4 DEF Cleared
      <4> QED BY <4>1, <4>2
    <3>2. [q EXCEPT !.fakec = FALSE] = q
      BY <1>4, <3>1, Zenon DEF VpnConnection
    <3>3. PICK t : t = [m EXCEPT !.conn[o] = q]
      OBVIOUS
    <3>4. SameButFlags(q, q)
      BY <1>4 DEF SameButFlags
    <3>5. m.conn[o] # NON
      BY <1>4, <2>3, Apartness
    <3>6. TunnelOK(t)
      BY <1>4, <2>3, <3>3, <3>4, <3>5, SameFlagsStep
    <3>7. [m EXCEPT !.conn[o].fakec = FALSE] = t
      BY <2>3, <3>2, <3>3
    <3> QED BY <2>3, <3>6, <3>7 DEF Unmarked
  <2>5. CASE q.st # "CONNECTED_MIGRATING"
    BY <2>3, <2>5 DEF Unmarked
  <2> QED BY <2>4, <2>5
<1> QED BY <1>6, <1>7

LEMMA SendOK ==
  ASSUME NEW s, TunnelOK(s), NEW c \in Cids, NEW o, Reading(s, c, o), SendOn(s, o, c)
  PROVE  TunnelOK(State)'
<1>1. PICK r : r = s.conn[o]
  OBVIOUS
<1>2. ReadingHolds(s, c, o, r) /\ Settled(s, o, c, r.sid) /\ CliOK(s, c)
  BY <1>1, ReadingFacts
<1>3. /\ s \in TunnelState /\ o \in Objs /\ r \in VpnConnection /\ r.buf \in Seq(1..MaxPkt) /\ s.lsn[c].pos \in 1..MaxPkt
      /\ (r.fakec => r.st = "CONNECTED" /\ r.up = "fake") /\ s.byClient[c] = o /\ o # NON
      /\ r.st \in {"CONNECTED", "CONNECTED_MIGRATING"}
  BY <1>2 DEF ReadingHolds, Reading
<1>4. CASE r.fakec
  <2>1. PICK q : q = [r EXCEPT !.fakec = FALSE, !.suspect = FALSE]
    OBVIOUS
  <2>2. PICK u : u = SelectUpstream("default", q)
    OBVIOUS
  <2>3. Becomes(Migrate([s EXCEPT !.conn[o] = q], o, c, u))
    BY <1>1, <1>4, <2>1, <2>2, Zenon DEF SendOn
  <2>4. Cleared(r, q)
    <3>1. Cleared(r, [r EXCEPT !.fakec = FALSE, !.suspect = FALSE])
      BY <1>3, UnmarkedRecord
    <3> QED BY <2>1, <3>1
  <2>5. u \in Upstreams /\ (~EarlyAck => u # "fake") /\ ~q.fakec
    BY <1>3, <2>1, <2>2, UnmarkedUpstream
  <2>6. q.up = "fake" /\ s.conn[o].st = "CONNECTED" /\ Cleared(s.conn[o], q)
    <3>1. q.up = r.up
      BY <2>4 DEF Cleared
    <3> QED BY <1>1, <1>3, <1>4, <2>4, <3>1
  <2>7. PICK m : m = Migrate([s EXCEPT !.conn[o] = q], o, c, u)
    OBVIOUS
  <2>8. TunnelOK(m)
    BY <2>5, <2>6, <2>7, MigrateWorks
  <2> QED BY <2>3, <2>7, <2>8, Became
<1>5. CASE ~r.fakec
  <2>1. TunnelOK(CloseListener(s, c, FALSE, TRUE))
    <3>1. CliBacked(s, c)
      BY <1>2 DEF CliOK
    <3>2. WorksOut(s, CloseListener(s, c, FALSE, TRUE), o, c, r.sid)
      BY <1>2, <1>3, <3>1, CloseListenerWorks
    <3> QED BY <1>1, <1>3, <3>2, FiledStep
  <2>2. CASE Becomes(CloseListener(s, c, FALSE, TRUE))
    BY <2>1, <2>2, Became
  <2>3. CASE r.st = "CONNECTED"
    <3>1. \/ Becomes(CloseListener(s, c, FALSE, TRUE))
          \/ \E k \in 0..Len(r.buf), take \in BOOLEAN : Becomes(SendPacket(s, o, c, k, take))
      BY <1>1, <1>5, <2>3, Zenon DEF SendOn
    <3>2. CASE \E k \in 0..Len(r.buf), take \in BOOLEAN : Becomes(SendPacket(s, o, c, k, take))
      <4>1. PICK k \in 0..Len(r.buf), take \in BOOLEAN : Becomes(SendPacket(s, o, c, k, take))
        BY <3>2
      <4>2. TunnelOK(SendPacket(s, o, c, k, take))
        BY <1>1, <1>5, <2>3, SendPacketOK
      <4> QED BY <4>1, <4>2, Became
    <3> QED BY <2>2, <3>1, <3>2
  <2>4. CASE r.st = "CONNECTED_MIGRATING" /\ r.proto = "udp"
    <3>0. PICK b : b = Append(r.buf, s.lsn[c].pos)
      OBVIOUS
    <3>1. PICK q : q = [r EXCEPT !.buf = b, !.first = FALSE]
      OBVIOUS
    <3>2. Becomes(Consume([s EXCEPT !.conn[o] = q], c))
      BY <1>1, <1>5, <2>4, <3>0, <3>1 DEF SendOn
    <3>3. Flow(s, c, r, Append(r.buf, s.lsn[c].pos), [s.lsn[c] EXCEPT !.pos = s.lsn[c].pos + 1], s.wire[c])
      BY <1>2, <2>4, AppendFlow
    <3>4. Flow(s, c, r, b, [s.lsn[c] EXCEPT !.pos = s.lsn[c].pos + 1], s.wire[c])
      BY <3>0, <3>3
    <3>5. FlowRecord(r, q, b)
      <4>1. b \in Seq(1..MaxPkt)
        BY <3>4 DEF Flow
      <4>2. FlowRecord(r, [r EXCEPT !.buf = b, !.first = FALSE], b)
        BY <1>3, <4>1, BufferedRecord
      <4> QED BY <3>1, <4>2
    <3>6. TunnelOK(Consume([s EXCEPT !.conn[o] = q], c))
      BY <1>2, <1>5, <3>4, <3>5, ConsumedOK
    <3> QED BY <3>2, <3>6, Became
  <2>5. CASE r.st = "CONNECTED_MIGRATING" /\ r.proto # "udp"
    <3>1. Becomes(CloseListener(s, c, FALSE, TRUE))
      BY <1>1, <1>5, <2>5 DEF SendOn
    <3> QED BY <2>2, <3>1
  <2> QED BY <1>3, <2>3, <2>4, <2>5
<1> QED BY <1>4, <1>5

LEMMA ReadUnlooked ==
  ASSUME NEW s, TunnelOK(s), NEW c \in Cids, NEW o, Reading(s, c, o), NEW q, q = [s.conn[o] EXCEPT !.looking = FALSE],
         NEW t, t = [s EXCEPT !.conn[o] = q]
  PROVE  /\ TunnelOK(t) /\ Reading(t, c, o) /\ t.lsn = s.lsn /\ t.conn[o] = q /\ t.byClient = s.byClient
         /\ Cleared(s.conn[o], q) /\ ~q.looking
<1>1. PICK r : r = s.conn[o]
  OBVIOUS
<1>2. ReadingHolds(s, c, o, r)
  BY <1>1, ReadingFacts
<1>3. r \in VpnConnection /\ o \in Objs /\ r # NON /\ s \in TunnelState
  BY <1>2 DEF ReadingHolds
<1>4. q = [r EXCEPT !.looking = FALSE]
  BY <1>1
<1>5. SameButFlags(r, q) /\ ~q.looking
  BY <1>3, <1>4, LookingCleared
<1>6. TunnelOK(t) /\ ConnSet(s, t, o, q)
  BY <1>1, <1>3, <1>5, SameFlagsStep
<1>7. t.lsn = s.lsn /\ t.conn[o] = q /\ t.byClient = s.byClient
  BY <1>6 DEF ConnSet
<1>8. Reading(t, c, o)
  BY <1>7 DEF Reading
<1>9. Cleared(r, q)
  <2>1. /\ q \in VpnConnection /\ q.cid = r.cid /\ q.sid = r.sid /\ q.up = r.up /\ q.st = r.st
        /\ q.proto = r.proto /\ q.mig = r.mig /\ q.closed = r.closed /\ q.task = r.task /\ q.buf = r.buf /\ q.dst = r.dst
        /\ q.fakec = r.fakec /\ q.first = r.first
    BY <1>3, <1>4, Zenon DEF VpnConnection
  <2> QED BY <1>5, <2>1 DEF Cleared
<1> QED BY <1>1, <1>5, <1>6, <1>7, <1>8, <1>9

LEMMA ShutdownOK ==
  ASSUME NEW s, TunnelOK(s), NEW c \in Cids, NEW o, Reading(s, c, o), NEW u, NEW x \in Sids
  PROVE  TunnelOK(CloseAsync(TurnRead(s, c, FALSE), u, x))
<1>1. PICK r : r = s.conn[o]
  OBVIOUS
<1>2. ReadingHolds(s, c, o, r)
  BY <1>1, ReadingFacts
<1>3. /\ s \in TunnelState /\ s.lsn[c] \in ListenerConn /\ s.lsn[c].st = "open" /\ s.byClient[c] = o /\ o # NON
      /\ (r.proto = "udp" => ~s.lsn[c].unsent)
  BY <1>2 DEF ReadingHolds, Reading
<1>4. PICK l : l = [s.lsn[c] EXCEPT !.reads = FALSE]
  OBVIOUS
<1>5. l \in ListenerConn /\ l.reads = FALSE /\ l.st = s.lsn[c].st /\ l.unsent = s.lsn[c].unsent /\ l.pos = s.lsn[c].pos
  BY <1>3, <1>4, Zenon DEF ListenerConn
<1>6. PICK t : t = [s EXCEPT !.lsn[c] = l]
  OBVIOUS
<1>7. LsnSet(s, t, c, l)
  BY <1>3, <1>5, <1>6, ListenerSet
<1>8. TunnelOK(t)
  BY <1>1, <1>3, <1>5, <1>7, ListenerStep
<1>9. t = TurnRead(s, c, FALSE)
  BY <1>4, <1>6 DEF TurnRead
<1>10. PICK v : v = CloseAsync(t, u, x)
  OBVIOUS
<1>11. FadedAt(t, v, x)
  <2>1. t \in TunnelState
    BY <1>8 DEF TunnelOK
  <2> QED BY <1>10, <2>1, AsyncClosed
<1>12. TunnelOK(v)
  BY <1>8, <1>11, FadedOK
<1> QED BY <1>9, <1>10, <1>12

\* What the lookup of the domain makes of a packet, as the cases of ClientRead.
LookedUp(s, o, c, r) ==
    \/ r.proto = "udp" /\ Becomes(Consume(s, c))
    \/ /\ r.tries < MaxLookupAttempts
       /\ Becomes(Consume([s EXCEPT !.conn[o] = [r EXCEPT !.tries = @ + 1, !.buf = Append(@, s.lsn[c].pos)]], c))
    \/ Becomes(CloseAsync(TurnRead([s EXCEPT !.conn[o].looking = FALSE], c, FALSE), r.up, r.sid))
    \/ \E a : Becomes(LET m == Migrate([s EXCEPT !.conn[o].looking = FALSE], o, c, UpstreamOf(a))
                      IN  IF m.conn[o].st = "CONNECTED_MIGRATING" THEN [m EXCEPT !.conn[o].fakec = FALSE] ELSE m)

LEMMA ReadCases ==
  ASSUME NEW c, ClientRead(c), NEW o, o = byClient[c]
  PROVE  /\ o # NON /\ lsn[c].st = "open" /\ lsn[c].reads /\ lsn[c].pos <= MaxPkt
         /\ \/ SendOn(State, o, c)
            \/ SendOn([State EXCEPT !.conn[o].looking = FALSE], o, c)
            \/ conn[o].looking /\ LookedUp(State, o, c, conn[o])
<1>1. /\ o # NON /\ lsn[c].st = "open" /\ lsn[c].reads /\ lsn[c].pos <= MaxPkt
  BY Zenon DEF ClientRead
<1>2. State.lsn[c].pos = lsn[c].pos
  BY StateIs
<1>3. CASE ~conn[o].looking
  BY <1>1, <1>3, Zenon DEF ClientRead
<1>4. CASE conn[o].looking
  <2>1. PICK l \in DomainLookup(conn[o]) :
            CASE l[1] = "done" -> SendOn([State EXCEPT !.conn[o].looking = FALSE], o, c)
              [] l[1] = "pass" -> SendOn(State, o, c)
              [] l[1] = "drop" -> Becomes(Consume(State, c))
              [] l[1] = "more" ->
                    IF conn[o].tries < MaxLookupAttempts
                    THEN Becomes(Consume([State EXCEPT !.conn[o] = [conn[o] EXCEPT !.tries = @ + 1, !.buf = Append(@, lsn[c].pos)]], c))
                    ELSE SendOn(State, o, c)
              [] l[1] = "shutdown" /\ ~conn[o].first ->
                    Becomes(CloseAsync(TurnRead([State EXCEPT !.conn[o].looking = FALSE], c, FALSE), conn[o].up, conn[o].sid))
              [] OTHER -> Becomes(LET m == Migrate([State EXCEPT !.conn[o].looking = FALSE], o, c, UpstreamOf(l[2]))
                                  IN  IF m.conn[o].st = "CONNECTED_MIGRATING"
                                      THEN [m EXCEPT !.conn[o].fakec = FALSE] ELSE m)
    BY <1>4, Zenon DEF ClientRead
  <2>2. \/ l[1] = "done" \/ l[1] = "pass" \/ (l[1] = "drop" /\ conn[o].proto = "udp") \/ l[1] = "more" \/ l[1] = "shutdown"
    BY DEF DomainLookup
  <2>3. CASE l[1] = "done"
    BY <1>1, <2>1, <2>3, Zenon
  <2>4. CASE l[1] = "pass"
    BY <1>1, <2>1, <2>4, Zenon
  <2>5. CASE l[1] = "drop" /\ conn[o].proto = "udp"
    BY <1>1, <1>4, <2>1, <2>5, Zenon DEF LookedUp
  <2>6. CASE l[1] = "more"
    BY <1>1, <1>2, <1>4, <2>1, <2>6, Zenon DEF LookedUp
  <2>7. CASE l[1] = "shutdown" /\ ~conn[o].first
    BY <1>1, <1>4, <2>1, <2>7, Zenon DEF LookedUp
  <2>8. CASE l[1] = "shutdown" /\ conn[o].first
    BY <1>1, <1>4, <2>1, <2>8, Zenon DEF LookedUp
  <2> QED BY <2>2, <2>3, <2>4, <2>5, <2>6, <2>7, <2>8
<1> QED BY <1>3, <1>4

LEMMA DroppedOK ==
  ASSUME NEW s, TunnelOK(s), NEW c \in Cids, NEW o, Reading(s, c, o), NEW r, ReadingHolds(s, c, o, r), r.proto = "udp"
  PROVE  TunnelOK(Consume(s, c))
<1>1. /\ s \in TunnelState /\ r \in VpnConnection /\ s.lsn[c] \in ListenerConn /\ s.lsn[c].pos \in 1..MaxPkt
      /\ r = s.conn[o] /\ s.wire[c] \in Seq(1..MaxPkt) /\ r.buf \in Seq(1..MaxPkt)
  BY Zenon DEF ReadingHolds
<1>2. PICK l : l = [s.lsn[c] EXCEPT !.pos = s.lsn[c].pos + 1]
  OBVIOUS
<1>3. l \in ListenerConn /\ l.pos = s.lsn[c].pos + 1 /\ l.st = s.lsn[c].st /\ l.reads = s.lsn[c].reads /\ l.unsent = s.lsn[c].unsent
  BY <1>1, <1>2, PosNext
<1>4. PICK t : t = [s EXCEPT !.lsn[c] = l]
  OBVIOUS
<1>5. LsnSet(s, t, c, l)
  BY <1>1, <1>3, <1>4, ListenerSet
<1>6. RecSet(s, t, o, c, r, l, s.wire[c])
  BY <1>1, <1>5 DEF LsnSet, RecSet
<1>7. Flow(s, c, r, r.buf, l, s.wire[c])
  BY <1>1, <1>3 DEF Flow
<1>8. FlowRecord(r, r, r.buf)
  BY <1>1 DEF FlowRecord
<1>9. TunnelOK(t)
  BY <1>6, <1>7, <1>8, FlowStep
<1>10. t = Consume(s, c)
  BY <1>2, <1>4 DEF Consume
<1> QED BY <1>9, <1>10

LEMMA MoreOK ==
  ASSUME NEW s, TunnelOK(s), NEW c \in Cids, NEW o, Reading(s, c, o), NEW r, ReadingHolds(s, c, o, r), r.looking,
         r.tries < MaxLookupAttempts
  PROVE  TunnelOK(Consume([s EXCEPT !.conn[o] = [r EXCEPT !.tries = @ + 1, !.buf = Append(@, s.lsn[c].pos)]], c))
<1>1. /\ s \in TunnelState /\ r \in VpnConnection /\ r.st \in {"CONNECTED", "CONNECTED_MIGRATING"}
      /\ (r.proto = "tcp" => r.st = "CONNECTED")
  BY DEF ReadingHolds
<1>2. r.tries \in 0..(MaxLookupAttempts + 1) /\ r.proto \in {"tcp", "udp"}
  BY <1>1, ConnFields
<1>3. PICK n : n = r.tries + 1
  OBVIOUS
<1>4. n \in 0..(MaxLookupAttempts + 1)
  BY <1>2, <1>3, TunnelAssumption
<1>5. PICK b : b = Append(r.buf, s.lsn[c].pos)
  OBVIOUS
<1>6. PICK l : l = [s.lsn[c] EXCEPT !.pos = s.lsn[c].pos + 1]
  OBVIOUS
<1>7. r.st = "CONNECTED_MIGRATING" => r.proto = "udp"
  BY <1>1, <1>2
<1>8. Flow(s, c, r, b, l, s.wire[c])
  BY <1>5, <1>6, <1>7, AppendFlow
<1>9. b \in Seq(1..MaxPkt)
  BY <1>8 DEF Flow
<1>10. PICK q : q = [r EXCEPT !.tries = n, !.buf = b]
  OBVIOUS
<1>11. FlowRecord(r, q, b) /\ q.fakec = r.fakec
  BY <1>1, <1>4, <1>9, <1>10, TriedRecord
<1>12. TunnelOK(Consume([s EXCEPT !.conn[o] = q], c))
  BY <1>6, <1>8, <1>11, ConsumedOK
<1>13. q = [r EXCEPT !.tries = @ + 1, !.buf = Append(@, s.lsn[c].pos)]
  BY <1>3, <1>5, <1>10
<1> QED BY <1>12, <1>13

LEMMA ClientReadStep ==
  ASSUME TunnelOK(State), NEW c \in Cids, ClientRead(c)
  PROVE  TunnelOK(State)'
<1>1. PICK s : s = State
  OBVIOUS
<1>2. PICK o : o = s.byClient[c]
  OBVIOUS
<1>3. PICK r : r = s.conn[o]
  OBVIOUS
<1>4. TunnelOK(s) /\ o = byClient[c] /\ r = conn[o] /\ s.lsn = lsn
  BY <1>1, <1>2, <1>3, StateIs, Zenon
<1>5. /\ o # NON /\ lsn[c].st = "open" /\ lsn[c].reads /\ lsn[c].pos <= MaxPkt
      /\ \/ SendOn(s, o, c)
         \/ SendOn([s EXCEPT !.conn[o].looking = FALSE], o, c)
         \/ r.looking /\ LookedUp(s, o, c, r)
  BY <1>1, <1>4, ReadCases, Zenon
<1>6. Reading(s, c, o)
  BY <1>2, <1>4, <1>5, Zenon DEF Reading
<1>7. ReadingHolds(s, c, o, r)
  BY <1>3, <1>4, <1>6, ReadingFacts
<1>8. PICK q : q = [r EXCEPT !.looking = FALSE]
  OBVIOUS
<1>9. PICK t : t = [s EXCEPT !.conn[o] = q]
  OBVIOUS
<1>10. t = [s EXCEPT !.conn[o].looking = FALSE]
  BY <1>3, <1>8, <1>9
<1>11. TunnelOK(t) /\ Reading(t, c, o) /\ Cleared(r, q) /\ ~q.looking
  <2>1. q = [s.conn[o] EXCEPT !.looking = FALSE]
    BY <1>3, <1>8
  <2> QED BY <1>3, <1>4, <1>6, <1>9, <2>1, ReadUnlooked
<1>12. CASE SendOn(s, o, c)
  BY <1>4, <1>6, <1>12, SendOK
<1>13. CASE SendOn([s EXCEPT !.conn[o].looking = FALSE], o, c)
  <2>1. SendOn(t, o, c)
    BY <1>10, <1>13
  <2> QED BY <1>11, <2>1, SendOK
<1>14. CASE r.looking /\ LookedUp(s, o, c, r)
  <2>1. CASE r.proto = "udp" /\ Becomes(Consume(s, c))
    BY <1>4, <1>6, <1>7, <2>1, DroppedOK, Became
  <2>2. CASE /\ r.tries < MaxLookupAttempts
             /\ Becomes(Consume([s EXCEPT !.conn[o] = [r EXCEPT !.tries = @ + 1, !.buf = Append(@, s.lsn[c].pos)]], c))
    BY <1>4, <1>6, <1>7, <1>14, <2>2, MoreOK, Became
  <2>3. CASE Becomes(CloseAsync(TurnRead([s EXCEPT !.conn[o].looking = FALSE], c, FALSE), r.up, r.sid))
    <3>1. r.sid \in Sids
      BY <1>7 DEF ReadingHolds
    <3>2. TunnelOK(CloseAsync(TurnRead(t, c, FALSE), r.up, r.sid))
      BY <1>11, <3>1, ShutdownOK
    <3> QED BY <1>10, <2>3, <3>2, Became
  <2>4. CASE \E a : Becomes(LET m == Migrate([s EXCEPT !.conn[o].looking = FALSE], o, c, UpstreamOf(a))
                            IN  IF m.conn[o].st = "CONNECTED_MIGRATING" THEN [m EXCEPT !.conn[o].fakec = FALSE] ELSE m)
    <3>1. PICK a : Becomes(LET m == Migrate([s EXCEPT !.conn[o].looking = FALSE], o, c, UpstreamOf(a))
                            IN  IF m.conn[o].st = "CONNECTED_MIGRATING" THEN [m EXCEPT !.conn[o].fakec = FALSE] ELSE m)
      BY <2>4
    <3>2. PICK u : u = UpstreamOf(a)
      OBVIOUS
    <3>3. u \in Upstreams /\ u # "fake"
      BY <3>2 DEF UpstreamOf, Upstreams
    <3>4. PICK m : m = Migrate(t, o, c, u)
      OBVIOUS
    <3>5. Becomes(Unmarked(m, o))
      BY <1>10, <3>1, <3>2, <3>4, Zenon DEF Unmarked
    <3>6. r.proto = "tcp" => r.st = "CONNECTED"
      BY <1>7, <1>14 DEF ReadingHolds
    <3>7. m = Migrate([s EXCEPT !.conn[o] = q], o, c, u)
      BY <1>9, <3>4
    <3>8. /\ Cleared(s.conn[o], q) /\ (s.conn[o].proto = "tcp" => s.conn[o].st = "CONNECTED")
          /\ (q.proto = "tcp" => (q.looking => q.up = "fake")) /\ (~EarlyAck => u # "fake") /\ u \in Upstreams
      BY <1>3, <1>11, <3>3, <3>6
    <3>9. TunnelOK(Unmarked(m, o))
      BY <1>4, <1>6, <3>7, <3>8, MigrateWorks, Zenon
    <3> QED BY <3>5, <3>9, Became
  <2> QED BY <1>14, <2>1, <2>2, <2>3, <2>4 DEF LookedUp
<1> QED BY <1>5, <1>12, <1>13, <1>14

-----------------------------------------------------------------------------
(* The session with the endpoint.                                          *)

\* The listener reads less; the connection is marked as closed by its upstream.
Quieter(l, m) == m.st = l.st /\ m.unsent = l.unsent /\ m.pos = l.pos /\ (m.reads => l.reads)
Marked(r, q) ==
    /\ q \in VpnConnection /\ q.cid = r.cid /\ q.sid = r.sid /\ q.up = r.up /\ q.st = r.st
    /\ q.proto = r.proto /\ q.mig = r.mig /\ q.first = r.first /\ q.fakec = r.fakec
    /\ q.task = r.task /\ q.buf = r.buf /\ q.looking = r.looking

\* All connections at once: upstreams end what they held, listeners stop reading and the
\* connections of an endpoint that has ended are marked.
Lessened(s, t) ==
    /\ t \in TunnelState /\ t.byClient = s.byClient /\ t.byServer = s.byServer /\ t.waiters = s.waiters
    /\ t.app = s.app /\ t.wire = s.wire /\ Fades(s.ups, t.ups)
    /\ \A c \in Cids : Quieter(s.lsn[c], t.lsn[c])
    /\ \A p \in Objs : /\ t.conn[p] = NON <=> s.conn[p] = NON
                       /\ s.conn[p] # NON =>
                            /\ Marked(s.conn[p], t.conn[p])
                            /\ t.conn[p].closed => \/ s.conn[p].closed
                                                   \/ /\ s.conn[p].up = "endpoint"
                                                      /\ s.conn[p].sid # NON => t.ups[s.conn[p].sid].st = "gone"

LEMMA LessenedOK ==
  ASSUME NEW s, TunnelOK(s), NEW t, Lessened(s, t)
  PROVE  TunnelOK(t)
<1>0. /\ s \in TunnelState /\ t \in TunnelState /\ t.byClient = s.byClient
      /\ t.byServer = s.byServer /\ t.waiters = s.waiters /\ t.app = s.app
      /\ t.wire = s.wire /\ Fades(s.ups, t.ups)
  BY DEF TunnelOK, Lessened
<1>1. \A c \in Cids : t.lsn[c].st = s.lsn[c].st /\ t.lsn[c].unsent = s.lsn[c].unsent /\ t.lsn[c].pos = s.lsn[c].pos
                      /\ (t.lsn[c].reads => s.lsn[c].reads)
  BY Zenon DEF Lessened, Quieter
<1>2. \A p \in Objs : t.conn[p] = NON <=> s.conn[p] = NON
  BY Zenon DEF Lessened
<1>3. \A p \in Objs : s.conn[p] # NON => Marked(s.conn[p], t.conn[p])
  BY Zenon DEF Lessened
<1>4. \A p \in Objs : s.conn[p] # NON => s.conn[p] \in VpnConnection
  BY <1>0, LiveConn, Zenon
<1>5. \A p \in Objs : s.conn[p] # NON =>
         s.conn[p].cid \in Cids \cup {NON} /\ s.conn[p].sid \in Sids \cup {NON} /\ s.conn[p].mig \in Cids \cup {NON}
  BY <1>4, ConnFields, Zenon
<1>6. ASSUME NEW o \in Objs PROVE ObjOK(t, o)
  <2>1. ObjOK(s, o)
    BY Zenon DEF TunnelOK
  <2>2. s.conn[o] # NON /\ s.conn[o].sid # NON =>
          /\ t.ups[s.conn[o].sid].u = s.ups[s.conn[o].sid].u
          /\ s.ups[s.conn[o].sid].st = "gone" => t.ups[s.conn[o].sid].st = "gone"
    BY <1>0, <1>5, Zenon DEF Fades
  <2>3. s.conn[o] # NON =>
          /\ s.conn[o].cid # NON => /\ t.lsn[s.conn[o].cid].st = s.lsn[s.conn[o].cid].st
                                    /\ t.lsn[s.conn[o].cid].reads => s.lsn[s.conn[o].cid].reads
          /\ s.conn[o].mig # NON => t.lsn[s.conn[o].mig].st = s.lsn[s.conn[o].mig].st
    BY <1>1, <1>5, Zenon
  <2>4. s.conn[o] # NON /\ t.conn[o].closed =>
          s.conn[o].closed \/ (s.conn[o].up = "endpoint" /\ (s.conn[o].sid # NON => t.ups[s.conn[o].sid].st = "gone"))
    BY Zenon DEF Lessened
  <2>5. CASE s.conn[o] = NON
    BY <1>2, <2>5, Zenon DEF ObjOK
  <2>6. CASE s.conn[o] # NON
    <3>1. PICK r : r = s.conn[o]
      OBVIOUS
    <3>2. PICK q : q = t.conn[o]
      OBVIOUS
    <3>3. /\ q.cid = r.cid /\ q.sid = r.sid /\ q.up = r.up /\ q.st = r.st /\ q.proto = r.proto /\ q.mig = r.mig
          /\ q.first = r.first /\ q.fakec = r.fakec /\ q.task = r.task /\ q.buf = r.buf /\ q.looking = r.looking
      BY <1>3, <2>6, <3>1, <3>2, Zenon DEF Marked
    <3>4. q.closed => q.up = "endpoint" /\ (q.sid # NON => t.ups[q.sid].st = "gone")
      BY <2>1, <2>2, <2>4, <2>6, <3>1, <3>2, <3>3 DEF ObjOK
    <3> QED BY <1>0, <2>1, <2>2, <2>3, <2>6, <3>1, <3>2, <3>3, <3>4, SMTT(150) DEF ObjOK
  <2> QED BY <2>5, <2>6
<1>7. ASSUME NEW o \in Objs, ~EarlyAck PROVE FakeOK(t, o)
  <2>1. FakeOK(s, o)
    BY <1>7, Zenon DEF TunnelOK
  <2>2. CASE s.conn[o] = NON
    BY <1>2, <2>2, Zenon DEF FakeOK
  <2>3. CASE s.conn[o] # NON
    <3>1. s.conn[o].cid # NON => t.lsn[s.conn[o].cid].st = s.lsn[s.conn[o].cid].st
      BY <1>1, <1>5, <2>3, Zenon
    <3> QED BY <1>3, <2>1, <2>3, <3>1 DEF FakeOK, Marked
  <2> QED BY <2>2, <2>3
<1>8. ASSUME NEW c \in Cids PROVE CliOK(t, c)
  <2>1. CliOK(s, c)
    BY Zenon DEF TunnelOK
  <2>2. c \in Objs /\ s.byClient[c] \in Objs \cup {NON}
    BY <1>0, StateFields DEF Objs
  <2>3. CASE s.byClient[c] = NON
    BY <1>0, <1>1, <1>2, <2>1, <2>2, <2>3, Zenon DEF CliOK, CliBase, CliBacked
  <2>4. CASE s.byClient[c] # NON
    <3>1. s.conn[s.byClient[c]] # NON
      BY <2>1, <2>4, Zenon DEF CliOK, CliBase
    <3>2. Marked(s.conn[s.byClient[c]], t.conn[s.byClient[c]]) /\ t.conn[s.byClient[c]] # NON
      BY <1>2, <1>3, <2>2, <2>4, <3>1, Zenon
    <3>3. PICK o, r, q, l, m : o = s.byClient[c] /\ r = s.conn[o] /\ q = t.conn[o] /\ l = s.lsn[c] /\ m = t.lsn[c]
      OBVIOUS
    <3>4. q # NON /\ q.cid = r.cid /\ q.sid = r.sid /\ q.st = r.st /\ q.proto = r.proto /\ q.buf = r.buf
      BY <3>2, <3>3, Zenon DEF Marked
    <3>5. m.st = l.st /\ m.unsent = l.unsent /\ m.pos = l.pos /\ t.byClient[c] = o
      BY <1>0, <1>1, <3>3, Zenon
    <3>6. CliBase(s, c) /\ CliBacked(s, c)
      BY <2>1 DEF CliOK
    <3>7. /\ r.cid = c /\ l.st \notin {"none", "closed"} /\ ~(c \in s.app /\ c \in s.waiters)
          /\ l.st = "passed" => r.st = "WAITING_ACCEPT"
          /\ l.st = "open" => r.st \in {"CONNECTED", "CONNECTED_MIGRATING"}
          /\ r.proto = "udp" => ~l.unsent
          /\ r.proto = "tcp" /\ r.st # "CONNECTED_MIGRATING" => s.wire[c] \o r.buf = Counted(l.pos - 1)
      BY <2>4, <3>3, <3>6, Zenon DEF CliBase
    <3>8. l.st \in {"passed", "open"} \/ (r.proto = "udp" /\ r.st = "CONNECTED") => r.sid # NON /\ s.byServer[r.sid] = o
      BY <2>4, <3>3, <3>6, Zenon DEF CliBacked
    <3>9. CliParts(t, c, o, q, m, s.wire[c])
      BY <1>0, <3>3, <3>4, <3>5, <3>7, <3>8 DEF CliParts
    <3> QED BY <3>9, CliBuilt
  <2> QED BY <2>3, <2>4
<1>9. ASSUME NEW c \in Cids PROVE MovesOK(t, c)
  <2>1. MovesOK(s, c) /\ CliOK(s, c)
    BY Zenon DEF TunnelOK
  <2>2. s.byClient[c] \in Objs \cup {NON}
    BY <1>0, StateFields
  <2>3. CASE s.byClient[c] = NON
    BY <1>0, <2>3, Zenon DEF MovesOK
  <2>4. CASE s.byClient[c] # NON
    <3>1. s.conn[s.byClient[c]] # NON
      BY <2>1, <2>4, Zenon DEF CliOK, CliBase
    <3>2. Marked(s.conn[s.byClient[c]], t.conn[s.byClient[c]])
      BY <1>3, <2>2, <2>4, <3>1, Zenon
    <3>3. t.conn[s.byClient[c]].proto = s.conn[s.byClient[c]].proto /\ t.conn[s.byClient[c]].st = s.conn[s.byClient[c]].st
      BY <3>2 DEF Marked
    <3>4. \A p \in Objs : t.conn[p] # NON =>
             /\ s.conn[p] # NON /\ t.conn[p].mig = s.conn[p].mig /\ t.conn[p].proto = s.conn[p].proto
             /\ t.conn[p].buf = s.conn[p].buf
      BY <1>2, <1>3, Zenon DEF Marked
    <3>5. ASSUME NEW p \in Objs, t.conn[p] # NON, t.conn[p].mig = c
          PROVE  /\ t.conn[s.byClient[c]].proto = t.conn[p].proto
                 /\ \/ t.conn[s.byClient[c]].st = "CONNECTED_MIGRATING"
                    \/ t.conn[p].proto = "udp" /\ t.conn[s.byClient[c]].st = "CONNECTED"
                 /\ t.conn[p].proto = "tcp" =>
                      /\ t.wire[c] \o t.conn[p].buf = Counted(t.lsn[c].pos - 1)
                      /\ \A y \in Objs : t.conn[y] # NON /\ t.conn[y].mig = c => y = p
      <4>1. s.conn[p] # NON /\ s.conn[p].mig = c /\ t.conn[p].proto = s.conn[p].proto /\ t.conn[p].buf = s.conn[p].buf
        BY <3>4, <3>5
      <4>2. /\ s.conn[s.byClient[c]].proto = s.conn[p].proto
            /\ \/ s.conn[s.byClient[c]].st = "CONNECTED_MIGRATING"
               \/ s.conn[p].proto = "udp" /\ s.conn[s.byClient[c]].st = "CONNECTED"
            /\ s.conn[p].proto = "tcp" =>
                 /\ s.wire[c] \o s.conn[p].buf = Counted(s.lsn[c].pos - 1)
                 /\ \A y \in Objs : s.conn[y] # NON /\ s.conn[y].mig = c => y = p
        BY <2>1, <2>4, <4>1, Zenon DEF MovesOK
      <4>3. t.lsn[c].pos = s.lsn[c].pos /\ t.wire[c] = s.wire[c]
        BY <1>0, <1>1
      <4> QED BY <3>3, <3>4, <4>1, <4>2, <4>3
    <3> QED BY <1>0, <3>5, Zenon DEF MovesOK
  <2> QED BY <2>3, <2>4
<1>10. ASSUME NEW y \in Sids PROVE SrvOK(t, y)
  <2>1. SrvOK(s, y)
    BY Zenon DEF TunnelOK
  <2>2. s.byServer[y] \in Objs \cup {NON}
    BY <1>0, StateFields
  <2> QED BY <1>0, <1>2, <1>3, <2>1, <2>2, ZenonT(60) DEF SrvOK, Fades, Marked
<1>11. Alone(t)
  <2>1. Alone(s)
    BY DEF TunnelOK
  <2>2. \A p \in Objs : t.conn[p] # NON =>
           s.conn[p] # NON /\ t.conn[p].cid = s.conn[p].cid /\ t.conn[p].sid = s.conn[p].sid
    BY <1>2, <1>3, Zenon DEF Marked
  <2> QED BY <2>1, <2>2, SMT DEF Alone
<1> QED BY <1>0, <1>6, <1>7, <1>8, <1>9, <1>10, <1>11, Zenon DEF TunnelOK

LEMMA MarkedSame ==
  ASSUME NEW r \in VpnConnection
  PROVE  Marked(r, r)
BY DEF Marked

LEMMA MarkedRecord ==
  ASSUME NEW r \in VpnConnection, NEW q, q = [r EXCEPT !.closed = TRUE]
  PROVE  Marked(r, q)
<1>1. /\ q \in VpnConnection /\ q.cid = r.cid /\ q.sid = r.sid /\ q.up = r.up /\ q.st = r.st
      /\ q.proto = r.proto /\ q.mig = r.mig /\ q.first = r.first /\ q.fakec = r.fakec
      /\ q.task = r.task /\ q.buf = r.buf /\ q.looking = r.looking
  BY Zenon DEF VpnConnection
<1> QED BY <1>1 DEF Marked

\* A step of the session itself.
LEMMA SessionOK ==
  ASSUME NEW s, TunnelOK(s), NEW e \in Sessions
  PROVE  TunnelOK([s EXCEPT !.ep = e])
<1>1. s \in TunnelState
  BY DEF TunnelOK
<1>2. PICK t : t = [s EXCEPT !.ep = e]
  OBVIOUS
<1>3. /\ t \in TunnelState /\ t.conn = s.conn /\ t.byClient = s.byClient /\ t.byServer = s.byServer /\ t.app = s.app
      /\ t.waiters = s.waiters /\ t.lsn = s.lsn /\ t.ups = s.ups /\ t.wire = s.wire
  BY <1>1, <1>2, EpSet
<1>4. \A p \in Objs : s.conn[p] # NON => Marked(s.conn[p], t.conn[p])
  BY <1>1, <1>3, LiveConn, MarkedSame, Zenon
<1>5. Fades(s.ups, t.ups)
  BY <1>3, Zenon DEF Fades
<1>6. Lessened(s, t)
  BY <1>3, <1>4, <1>5, Zenon DEF Lessened, Quieter
<1> QED BY <1>2, <1>6, LessenedOK

LEMMA SessionStep ==
  ASSUME TunnelOK(State), SessionOpening \/ SessionOpened \/ SessionFailed
  PROVE  TunnelOK(State)'
<1>1. "opening" \in Sessions /\ "on" \in Sessions /\ "off" \in Sessions
  BY DEF Sessions
<1>2. \E e \in Sessions : Becomes([State EXCEPT !.ep = e])
  BY <1>1, Zenon DEF SessionOpening, SessionOpened, SessionFailed
<1>3. PICK e \in Sessions : Becomes([State EXCEPT !.ep = e])
  BY <1>2
<1>4. TunnelOK([State EXCEPT !.ep = e])
  BY SessionOK, Zenon
<1> QED BY <1>3, <1>4, Became, Zenon

-----------------------------------------------------------------------------
(* Many connections are closed at once.                                    *)

\* t and w agree on the connection o and on its two ids.
Agrees(t, w, o, c, x) ==
    /\ t.conn[o] = w.conn[o] /\ t.byClient[c] = w.byClient[c] /\ t.lsn[c] = w.lsn[c] /\ t.wire[c] = w.wire[c]
    /\ (c \in t.app <=> c \in w.app) /\ (c \in t.waiters <=> c \in w.waiters)
    /\ x # NON => t.byServer[x] = w.byServer[x] /\ t.ups[x] = w.ups[x]

\* What a closing leaves of its own connection.
Piece(s, t, o, c, x) ==
    /\ t.conn[o] # NON => t.conn[o].cid \in {c, NON} /\ t.conn[o].sid \in {x, NON} /\ t.conn[o].mig = NON
    /\ t.byClient[c] \in {o, NON} /\ (x # NON => t.byServer[x] \in {o, NON})
    /\ ObjOK(t, o) /\ (~EarlyAck => FakeOK(t, o)) /\ CliOK(t, c) /\ (x # NON => SrvOK(t, x))
    /\ t.lsn[c].st # "none" /\ MovesLeft(s, t, o, c)

LEMMA PieceOf ==
  ASSUME NEW s, TunnelOK(s), NEW c \in Cids, NEW o, s.byClient[c] = o, o # NON, NEW x, x = s.conn[o].sid,
         NEW w, WorksOut(s, w, o, c, x), NEW t \in TunnelState, Agrees(t, w, o, c, x)
  PROVE  Piece(s, t, o, c, x)
<1>1. o \in Objs /\ s.conn[o] # NON /\ s.conn[o].cid = c /\ s \in TunnelState /\ ObjOK(s, o) /\ c # NON
  <2>1. o \in Objs /\ s.conn[o] # NON /\ s.conn[o].cid = c /\ s \in TunnelState
    BY SettledOf
  <2> QED BY <2>1, Apartness, Zenon DEF TunnelOK
<1>2. s.conn[o].mig = NON /\ s.lsn[c].st # "none"
  BY <1>1, Zenon DEF ObjOK
<1>3. /\ w \in TunnelState /\ Carries(w, o, c, x) /\ MovesLeft(s, w, o, c) /\ ObjOK(w, o) /\ (~EarlyAck => FakeOK(w, o))
      /\ CliOK(w, c) /\ (x # NON => SrvOK(w, x)) /\ w.lsn[c].st # "none"
  BY <1>2, Zenon DEF WorksOut
<1>4. PICK q : q = w.conn[o]
  OBVIOUS
<1>5. q # NON => q.cid \in {c, NON} /\ q.sid \in {x, NON}
  BY <1>3, <1>4, Zenon DEF Carries
<1>6. q # NON => q.mig = NON
  BY <1>2, <1>3, <1>4, Zenon DEF MovesLeft
<1>7. w.byClient[c] \in {o, NON} /\ (x # NON => w.byServer[x] \in {o, NON})
  BY <1>1, <1>3, Zenon DEF Carries
<1>8. /\ t.conn[o] = q /\ t.byClient[c] = w.byClient[c] /\ t.lsn[c] = w.lsn[c] /\ t.wire[c] = w.wire[c]
      /\ (c \in t.app <=> c \in w.app) /\ (c \in t.waiters <=> c \in w.waiters)
      /\ x # NON => t.byServer[x] = w.byServer[x] /\ t.ups[x] = w.ups[x]
  BY <1>4, Zenon DEF Agrees
<1>9. CASE q = NON
  <2>1. ObjOK(t, o) /\ FakeOK(t, o)
    BY <1>8, <1>9, Zenon DEF ObjOK, FakeOK
  <2>2. w.byClient[c] = NON
    <3>1. w.byClient[c] # o
      BY <1>1, <1>3, <1>4, <1>9, Zenon DEF CliOK, CliBase
    <3> QED BY <1>7, <3>1, Zenon
  <2>3. CliOK(t, c)
    BY <1>3, <1>8, <2>2, Zenon DEF CliOK, CliBase, CliBacked
  <2>4. x # NON => SrvOK(t, x)
    BY <1>1, <1>3, <1>4, <1>7, <1>8, <1>9, Zenon DEF SrvOK
  <2>5. MovesLeft(s, t, o, c)
    BY <1>8, <1>9, <2>2, Zenon DEF MovesLeft
  <2> QED BY <1>3, <1>7, <1>8, <1>9, <2>1, <2>3, <2>4, <2>5, Zenon DEF Piece
<1>10. CASE q # NON
  <2>1. ObjOK(t, o)
    <3>0. NON \notin t.app /\ NON \notin t.waiters
      BY StateFields, Apartness
    <3>1. CASE q.cid = NON
      BY <1>3, <1>4, <1>5, <1>6, <1>8, <1>10, <3>0, <3>1, SMTT(60) DEF ObjOK
    <3>2. CASE q.cid = c /\ q.cid # NON
      BY <1>3, <1>4, <1>5, <1>6, <1>8, <1>10, <3>2, SMTT(60) DEF ObjOK
    <3> QED BY <1>1, <1>5, <1>10, <3>1, <3>2
  <2>2. ~EarlyAck => FakeOK(t, o)
    BY <1>3, <1>4, <1>5, <1>8, <1>10, SMT DEF FakeOK
  <2>3. CliOK(t, c)
    <3>1. CliBase(w, c) /\ CliBacked(w, c)
      BY <1>3 DEF CliOK
    <3>2. CASE w.byClient[c] = NON
      BY <1>3, <1>8, <3>1, <3>2, Zenon DEF CliOK, CliBase, CliBacked
    <3>3. CASE w.byClient[c] = o
      <4>1. PICK l : l = w.lsn[c]
        OBVIOUS
      <4>2. /\ q.cid = c /\ l.st \notin {"none", "closed"} /\ ~(c \in w.app /\ c \in w.waiters)
            /\ l.st = "passed" => q.st = "WAITING_ACCEPT"
            /\ l.st = "open" => q.st \in {"CONNECTED", "CONNECTED_MIGRATING"}
            /\ q.proto = "udp" => ~l.unsent
            /\ q.proto = "tcp" /\ q.st # "CONNECTED_MIGRATING" => w.wire[c] \o q.buf = Counted(l.pos - 1)
        BY <1>3, <1>4, <3>1, <3>3, <4>1, Zenon DEF CliBase
      <4>3. l.st \in {"passed", "open"} \/ (q.proto = "udp" /\ q.st = "CONNECTED") => q.sid # NON /\ w.byServer[q.sid] = o
        BY <1>4, <3>1, <3>3, <4>1, Zenon DEF CliBacked
      <4>4. CliParts(t, c, o, q, l, t.wire[c])
        BY <1>5, <1>8, <1>10, <3>3, <4>1, <4>2, <4>3 DEF CliParts
      <4> QED BY <4>4, CliBuilt
    <3> QED BY <1>7, <3>2, <3>3
  <2>4. x # NON => SrvOK(t, x)
    BY <1>1, <1>3, <1>4, <1>7, <1>8, <1>10, SMTT(150) DEF SrvOK
  <2>5. MovesLeft(s, t, o, c)
    BY <1>1, <1>3, <1>4, <1>8, <1>10, SMT DEF MovesLeft
  <2> QED BY <1>3, <1>5, <1>6, <1>7, <1>8, <1>10, <2>1, <2>2, <2>3, <2>4, <2>5, Zenon DEF Piece
<1> QED BY <1>9, <1>10

\* The connections filed under the clients of H have been closed, the others are as they were.
Merged(s, t, H) ==
    /\ t \in TunnelState
    /\ \A c \in H : Piece(s, t, s.byClient[c], c, s.conn[s.byClient[c]].sid)
    /\ \A p \in Objs : (\A c \in H : s.byClient[c] # p) => t.conn[p] = s.conn[p]
    /\ \A d \in Cids : d \notin H =>
         /\ t.byClient[d] = s.byClient[d] /\ t.lsn[d] = s.lsn[d] /\ t.wire[d] = s.wire[d]
         /\ (d \in t.app <=> d \in s.app) /\ (d \in t.waiters <=> d \in s.waiters)
    /\ \A y \in Sids : (\A c \in H : s.conn[s.byClient[c]].sid # y) => t.byServer[y] = s.byServer[y] /\ t.ups[y] = s.ups[y]

\* A connection that is not closed keeps its two ids.
Kept(s, t, p, r) ==
    /\ t.conn[p] = r
    /\ r.cid # NON => /\ t.byClient[r.cid] = s.byClient[r.cid] /\ t.lsn[r.cid] = s.lsn[r.cid]
                      /\ r.cid \in t.app <=> r.cid \in s.app
                      /\ r.cid \in t.waiters <=> r.cid \in s.waiters
    /\ r.sid # NON => t.byServer[r.sid] = s.byServer[r.sid] /\ t.ups[r.sid] = s.ups[r.sid]

LEMMA MergedKeeps ==
  ASSUME NEW s, TunnelOK(s), NEW H, H \subseteq Cids, \A c \in H : s.byClient[c] # NON, NEW t, Merged(s, t, H),
         NEW p \in Objs, s.conn[p] # NON, \A c \in H : s.byClient[c] # p
  PROVE  Kept(s, t, p, s.conn[p])
<1>1. t.conn[p] = s.conn[p]
  BY Zenon DEF Merged
<1>2. s \in TunnelState /\ Alone(s)
  BY DEF TunnelOK
<1>3. s.conn[p].cid \in Cids \cup {NON} /\ s.conn[p].sid \in Sids \cup {NON}
  BY <1>2, LiveConn, ConnFields, Zenon
<1>4. \A c \in H : s.byClient[c] \in Objs /\ s.conn[s.byClient[c]] # NON /\ s.conn[s.byClient[c]].cid = c
  BY SettledOf
<1>5. \A c \in H : s.conn[p].cid # c /\ (s.conn[p].sid # NON => s.conn[s.byClient[c]].sid # s.conn[p].sid)
  <2>1. SUFFICES ASSUME NEW c \in H
                 PROVE  s.conn[p].cid # c /\ (s.conn[p].sid # NON => s.conn[s.byClient[c]].sid # s.conn[p].sid)
    OBVIOUS
  <2>2. s.byClient[c] \in Objs /\ s.conn[s.byClient[c]] # NON /\ s.conn[s.byClient[c]].cid = c /\ s.byClient[c] # p /\ c # NON
    BY <1>4, Apartness
  <2> QED BY <1>2, <2>2, Zenon DEF Alone
<1>6. s.conn[p].cid # NON => s.conn[p].cid \in Cids /\ s.conn[p].cid \notin H
  BY <1>3, <1>5, Zenon
<1>7. s.conn[p].sid # NON => s.conn[p].sid \in Sids /\ \A c \in H : s.conn[s.byClient[c]].sid # s.conn[p].sid
  BY <1>3, <1>5, Zenon
<1>8. s.conn[p].cid # NON =>
         /\ t.byClient[s.conn[p].cid] = s.byClient[s.conn[p].cid] /\ t.lsn[s.conn[p].cid] = s.lsn[s.conn[p].cid]
         /\ s.conn[p].cid \in t.app <=> s.conn[p].cid \in s.app
         /\ s.conn[p].cid \in t.waiters <=> s.conn[p].cid \in s.waiters
  BY <1>6, Zenon DEF Merged
<1>9. s.conn[p].sid # NON =>
         t.byServer[s.conn[p].sid] = s.byServer[s.conn[p].sid] /\ t.ups[s.conn[p].sid] = s.ups[s.conn[p].sid]
  BY <1>7, Zenon DEF Merged
<1> QED BY <1>1, <1>8, <1>9, Zenon DEF Kept

LEMMA MergedOK ==
  ASSUME NEW s, TunnelOK(s), NEW H, H \subseteq Cids, \A c \in H : s.byClient[c] # NON, NEW t, Merged(s, t, H)
  PROVE  TunnelOK(t)
<1>1. s \in TunnelState /\ t \in TunnelState /\ Alone(s)
  BY DEF TunnelOK, Merged
<1>2. \A c \in H : /\ s.byClient[c] \in Objs /\ s.conn[s.byClient[c]] # NON /\ s.conn[s.byClient[c]].cid = c
                   /\ Piece(s, t, s.byClient[c], c, s.conn[s.byClient[c]].sid)
  <2>1. \A c \in H : s.byClient[c] \in Objs /\ s.conn[s.byClient[c]] # NON /\ s.conn[s.byClient[c]].cid = c
    BY SettledOf
  <2> QED BY <2>1, Zenon DEF Merged
<1>3. \A d \in Cids : (d \notin H \/ s.byClient[d] = NON) =>
         /\ t.byClient[d] = s.byClient[d] /\ t.lsn[d] = s.lsn[d] /\ t.wire[d] = s.wire[d]
         /\ (d \in t.app <=> d \in s.app) /\ (d \in t.waiters <=> d \in s.waiters)
  BY Zenon DEF Merged
<1>4. \A c \in Cids : s.lsn[c].st # "none" => t.lsn[c].st # "none"
  <2>1. SUFFICES ASSUME NEW c \in Cids, s.lsn[c].st # "none" PROVE t.lsn[c].st # "none"
    OBVIOUS
  <2>2. CASE c \in H
    BY <1>2, <2>2, Zenon DEF Piece
  <2>3. CASE c \notin H
    BY <1>3, <2>1, <2>3
  <2> QED BY <2>2, <2>3
<1>5. NON \notin Cids /\ NON \notin Sids /\ NON \notin t.app /\ NON \notin t.waiters
  BY <1>1, StateFields, Apartness
<1>6. \A p \in Objs : s.conn[p] = NON => t.conn[p] = NON
  <2>1. SUFFICES ASSUME NEW p \in Objs, s.conn[p] = NON PROVE t.conn[p] = NON
    OBVIOUS
  <2>2. \A c \in H : s.byClient[c] # p
    BY <1>2, <2>1
  <2> QED BY <2>1, <2>2, Zenon DEF Merged
<1>7. ASSUME NEW p \in Objs PROVE ObjOK(t, p)
  <2>1. CASE \E c \in H : s.byClient[c] = p
    BY <1>2, <2>1, Zenon DEF Piece
  <2>2. CASE s.conn[p] = NON
    BY <1>6, <2>2, Zenon DEF ObjOK
  <2>3. CASE s.conn[p] # NON /\ \A c \in H : s.byClient[c] # p
    <3>1. PICK r : r = s.conn[p]
      OBVIOUS
    <3>2. /\ t.conn[p] = r
          /\ r.cid # NON =>
              /\ t.byClient[r.cid] = s.byClient[r.cid] /\ t.lsn[r.cid] = s.lsn[r.cid]
              /\ r.cid \in t.app <=> r.cid \in s.app
              /\ r.cid \in t.waiters <=> r.cid \in s.waiters
          /\ r.sid # NON => t.byServer[r.sid] = s.byServer[r.sid] /\ t.ups[r.sid] = s.ups[r.sid]
      <4>1. Kept(s, t, p, r)
        BY <2>3, <3>1, MergedKeeps
      <4> QED BY <4>1, Zenon DEF Kept
    <3>3. ObjOK(s, p)
      BY Zenon DEF TunnelOK
    <3>4. r \in VpnConnection /\ r.mig \in Cids \cup {NON}
      BY <1>1, <2>3, <3>1, LiveConn, ConnFields, Zenon
    <3>5. r.mig # NON => t.lsn[r.mig].st # "none"
      BY <1>4, <2>3, <3>1, <3>3, <3>4, Zenon DEF ObjOK
    <3>6. CASE r.cid = NON
      BY <1>5, <2>3, <3>1, <3>2, <3>3, <3>5, <3>6, SMT DEF ObjOK
    <3>7. CASE r.cid # NON
      BY <2>3, <3>1, <3>2, <3>3, <3>5, <3>7, SMT DEF ObjOK
    <3> QED BY <3>6, <3>7
  <2> QED BY <2>1, <2>2, <2>3
<1>8. ASSUME NEW p \in Objs, ~EarlyAck PROVE FakeOK(t, p)
  <2>1. CASE \E c \in H : s.byClient[c] = p
    BY <1>2, <1>8, <2>1, Zenon DEF Piece
  <2>2. CASE s.conn[p] = NON
    BY <1>6, <2>2, Zenon DEF FakeOK
  <2>3. CASE s.conn[p] # NON /\ \A c \in H : s.byClient[c] # p
    <3>1. t.conn[p] = s.conn[p] /\ (s.conn[p].cid # NON => t.lsn[s.conn[p].cid] = s.lsn[s.conn[p].cid])
      <4>1. Kept(s, t, p, s.conn[p])
        BY <2>3, MergedKeeps
      <4> QED BY <4>1, Zenon DEF Kept
    <3>2. FakeOK(s, p)
      BY <1>8, Zenon DEF TunnelOK
    <3> QED BY <2>3, <3>1, <3>2 DEF FakeOK
  <2> QED BY <2>1, <2>2, <2>3
<1>9. ASSUME NEW d \in Cids, d \notin H, s.byClient[d] # NON
      PROVE  s.byClient[d] \in Objs /\ s.conn[s.byClient[d]] # NON /\ \A c \in H : s.byClient[c] # s.byClient[d]
  <2>1. s.byClient[d] \in Objs /\ s.conn[s.byClient[d]] # NON /\ s.conn[s.byClient[d]].cid = d
    BY <1>9, SettledOf
  <2> QED BY <1>2, <1>9, <2>1
<1>10. ASSUME NEW d \in Cids PROVE CliOK(t, d)
  <2>1. CASE d \in H
    BY <1>2, <2>1, Zenon DEF Piece
  <2>2. CliOK(s, d)
    BY Zenon DEF TunnelOK
  <2>3. CASE d \notin H /\ s.byClient[d] = NON
    <3>1. s.lsn[d].st = "none" => t.conn[d] = NON
      BY <1>6, <2>2, <2>3, Zenon DEF CliOK, CliBase, Objs
    <3> QED BY <1>3, <2>2, <2>3, <3>1, Zenon DEF CliOK, CliBase, CliBacked
  <2>4. CASE d \notin H /\ s.byClient[d] # NON
    <3>1. PICK o, r, l : o = s.byClient[d] /\ r = s.conn[o] /\ l = s.lsn[d]
      OBVIOUS
    <3>2. o \in Objs /\ r # NON /\ \A c \in H : s.byClient[c] # o
      BY <1>9, <2>4, <3>1
    <3>3. t.conn[o] = r /\ (r.sid # NON => t.byServer[r.sid] = s.byServer[r.sid])
      <4>1. Kept(s, t, o, r)
        BY <3>1, <3>2, MergedKeeps
      <4> QED BY <4>1, Zenon DEF Kept
    <3>4. /\ r.cid = d /\ l.st \notin {"none", "closed"} /\ ~(d \in s.app /\ d \in s.waiters)
          /\ l.st = "passed" => r.st = "WAITING_ACCEPT"
          /\ l.st = "open" => r.st \in {"CONNECTED", "CONNECTED_MIGRATING"}
          /\ r.proto = "udp" => ~l.unsent
          /\ r.proto = "tcp" /\ r.st # "CONNECTED_MIGRATING" => s.wire[d] \o r.buf = Counted(l.pos - 1)
      BY <2>2, <2>4, <3>1, Zenon DEF CliOK, CliBase
    <3>5. l.st \in {"passed", "open"} \/ (r.proto = "udp" /\ r.st = "CONNECTED") => r.sid # NON /\ s.byServer[r.sid] = o
      BY <2>2, <2>4, <3>1, Zenon DEF CliOK, CliBacked
    <3>6. /\ t.byClient[d] = o /\ t.lsn[d] = l /\ t.wire[d] = s.wire[d]
          /\ (d \in t.app <=> d \in s.app) /\ (d \in t.waiters <=> d \in s.waiters)
      BY <1>3, <2>4, <3>1
    <3>7. CliParts(t, d, o, r, l, s.wire[d])
      BY <3>2, <3>3, <3>4, <3>5, <3>6 DEF CliParts
    <3> QED BY <3>7, CliBuilt
  <2> QED BY <2>1, <2>3, <2>4
<1>11. \A p \in Objs : t.conn[p] # NON /\ t.conn[p].mig # NON => t.conn[p] = s.conn[p]
  <2>1. SUFFICES ASSUME NEW p \in Objs, t.conn[p] # NON, t.conn[p].mig # NON PROVE t.conn[p] = s.conn[p]
    OBVIOUS
  <2>2. \A c \in H : s.byClient[c] # p
    <3>1. SUFFICES ASSUME NEW c \in H, s.byClient[c] = p PROVE FALSE
      OBVIOUS
    <3>2. Piece(s, t, p, c, s.conn[p].sid)
      BY <1>2, <3>1
    <3> QED BY <2>1, <3>2 DEF Piece
  <2> QED BY <2>2, Zenon DEF Merged
<1>12. ASSUME NEW d \in Cids PROVE MovesOK(t, d)
  <2>1. SUFFICES ASSUME t.byClient[d] # NON, NEW p \in Objs, t.conn[p] # NON, t.conn[p].mig = d
                 PROVE  /\ t.conn[t.byClient[d]].proto = t.conn[p].proto
                        /\ \/ t.conn[t.byClient[d]].st = "CONNECTED_MIGRATING"
                           \/ t.conn[p].proto = "udp" /\ t.conn[t.byClient[d]].st = "CONNECTED"
                        /\ t.conn[p].proto = "tcp" =>
                             /\ t.wire[d] \o t.conn[p].buf = Counted(t.lsn[d].pos - 1)
                             /\ \A y \in Objs : t.conn[y] # NON /\ t.conn[y].mig = d => y = p
    BY Zenon DEF MovesOK
  <2>2. d # NON
    BY <1>5
  <2>3. t.conn[p] = s.conn[p] /\ \A y \in Objs : t.conn[y] # NON /\ t.conn[y].mig = d => t.conn[y] = s.conn[y]
    BY <1>11, <2>1, <2>2
  <2>4. s.byClient[d] # NON
    BY <1>3, <2>1
  <2>5. /\ s.conn[s.byClient[d]].proto = s.conn[p].proto
        /\ \/ s.conn[s.byClient[d]].st = "CONNECTED_MIGRATING"
           \/ s.conn[p].proto = "udp" /\ s.conn[s.byClient[d]].st = "CONNECTED"
        /\ s.conn[p].proto = "tcp" =>
             /\ s.wire[d] \o s.conn[p].buf = Counted(s.lsn[d].pos - 1)
             /\ \A y \in Objs : s.conn[y] # NON /\ s.conn[y].mig = d => y = p
    <3>1. MovesOK(s, d) /\ s.conn[p] # NON /\ s.conn[p].mig = d
      BY <2>1, <2>3, Zenon DEF TunnelOK
    <3> QED BY <2>4, <3>1, Zenon DEF MovesOK
  <2>6. PICK o : o = s.byClient[d]
    OBVIOUS
  <2>7. CASE d \in H
    <3>1. t.byClient[d] \in {o, NON} /\ MovesLeft(s, t, o, d)
      BY <1>2, <2>6, <2>7, Zenon DEF Piece
    <3>2. t.byClient[d] = o
      BY <2>1, <3>1
    <3>3. /\ t.conn[o].proto = s.conn[o].proto
          /\ s.conn[o].st \in {"CONNECTED", "CONNECTED_MIGRATING"} =>
               t.conn[o].st = s.conn[o].st \/ t.conn[o].st = "CONNECTED_MIGRATING"
          /\ s.conn[o].st = "CONNECTED_MIGRATING" /\ s.conn[o].proto = "tcp" =>
               t.wire[d] = s.wire[d] /\ t.lsn[d].pos = s.lsn[d].pos
      BY <2>1, <2>2, <3>1, Zenon DEF MovesLeft
    <3> QED BY <2>3, <2>5, <2>6, <3>2, <3>3
  <2>8. CASE d \notin H
    <3>1. o \in Objs /\ s.conn[o] # NON /\ \A c \in H : s.byClient[c] # o
      BY <1>9, <2>4, <2>6, <2>8
    <3>2. t.conn[o] = s.conn[o]
      <4>1. Kept(s, t, o, s.conn[o])
        BY <3>1, MergedKeeps
      <4> QED BY <4>1, Zenon DEF Kept
    <3>3. t.byClient[d] = o /\ t.lsn[d] = s.lsn[d] /\ t.wire[d] = s.wire[d]
      BY <1>3, <2>6, <2>8
    <3> QED BY <2>3, <2>5, <2>6, <3>2, <3>3
  <2> QED BY <2>7, <2>8
<1>13. ASSUME NEW y \in Sids PROVE SrvOK(t, y)
  <2>1. CASE \E c \in H : s.conn[s.byClient[c]].sid = y
    BY <1>2, <1>5, <2>1, ZenonT(60) DEF Piece
  <2>2. CASE \A c \in H : s.conn[s.byClient[c]].sid # y
    <3>1. t.byServer[y] = s.byServer[y] /\ t.ups[y] = s.ups[y]
      BY <2>2, Zenon DEF Merged
    <3>2. SrvOK(s, y)
      BY Zenon DEF TunnelOK
    <3>3. CASE s.byServer[y] = NON
      BY <3>1, <3>2, <3>3, Zenon DEF SrvOK
    <3>4. CASE s.byServer[y] # NON
      <4>1. s.byServer[y] \in Objs /\ s.conn[s.byServer[y]] # NON /\ s.conn[s.byServer[y]].sid = y
        BY <3>4, ServerFiled
      <4>2. t.conn[s.byServer[y]] = s.conn[s.byServer[y]]
        <5>1. \A c \in H : s.byClient[c] # s.byServer[y]
          BY <2>2, <4>1
        <5>2. Kept(s, t, s.byServer[y], s.conn[s.byServer[y]])
          BY <4>1, <5>1, MergedKeeps
        <5> QED BY <5>2, Zenon DEF Kept
      <4> QED BY <3>1, <3>2, <4>1, <4>2, Zenon DEF SrvOK
    <3> QED BY <3>3, <3>4
  <2> QED BY <2>1, <2>2
<1>14. Alone(t)
  <2>1. ASSUME NEW p \in Objs, t.conn[p] # NON
        PROVE  s.conn[p] # NON /\ t.conn[p].cid \in {s.conn[p].cid, NON} /\ t.conn[p].sid \in {s.conn[p].sid, NON}
    <3>1. s.conn[p] # NON
      BY <1>6, <2>1
    <3>2. CASE \E c \in H : s.byClient[c] = p
      <4>1. PICK c \in H : s.byClient[c] = p
        BY <3>2
      <4>2. s.conn[p].cid = c /\ Piece(s, t, p, c, s.conn[p].sid)
        BY <1>2, <4>1
      <4> QED BY <2>1, <3>1, <4>2 DEF Piece
    <3>3. CASE \A c \in H : s.byClient[c] # p
      <4>1. Kept(s, t, p, s.conn[p])
        BY <3>1, <3>3, MergedKeeps
      <4>2. t.conn[p] = s.conn[p]
        BY <4>1, Zenon DEF Kept
      <4> QED BY <3>1, <4>2
    <3> QED BY <3>2, <3>3
  <2> QED BY <1>1, <2>1, SMT DEF Alone
<1> QED BY <1>1, <1>7, <1>8, <1>10, <1>12, <1>13, <1>14, Zenon DEF TunnelOK

\* A closing leaves the queues and the wire alone.
KeepsQueues(s, t) == t.app = s.app /\ t.waiters = s.waiters /\ t.wire = s.wire

LEMMA ClosedKeeps ==
  ASSUME NEW s, TunnelOK(s), NEW c \in Cids, NEW o, s.byClient[c] = o, o # NON
  PROVE  KeepsQueues(s, CloseClientSideConnection(s, o, FALSE, FALSE))
<1>1. PICK r : r = s.conn[o]
  OBVIOUS
<1>2. o \in Objs /\ r # NON /\ r.cid = c /\ s \in TunnelState
  BY <1>1, SettledOf
<1>3. r \in VpnConnection
  BY <1>1, <1>2, LiveConn, Zenon
<1>4. PICK t : t = CloseClientSideConnection(s, o, FALSE, FALSE)
  OBVIOUS
<1>5. KeepsQueues(s, s)
  BY DEF KeepsQueues
<1>6. CASE r.st \in {"WAITING_ACCEPT", "CONNECTED", "CONNECTED_MIGRATING", "REJECTED"}
  <2>1. t = CloseListener(s, c, FALSE, FALSE)
    BY <1>1, <1>2, <1>4, <1>6 DEF CloseClientSideConnection
  <2>2. t = s \/ t = OnClientClosed(s, c)
    BY <2>1 DEF CloseListener
  <2>3. Ended(s, OnClientClosed(s, c), o, c, r.sid, r)
    BY <1>1, <1>2, ClientClosedEffect
  <2>4. r.st # "WAITING_RESOLVE"
    BY <1>6
  <2>5. KeepsQueues(s, OnClientClosed(s, c))
    BY <2>3, <2>4, Zenon DEF Ended, KeepsQueues
  <2> QED BY <1>4, <1>5, <2>2, <2>5
<1>7. CASE r.st \in {"WAITING_RESOLVE", "WAITING_RESPONSE", "WAITING_ACTION"}
  <2>1. PICK v : v = Answer(s, c, FALSE)
    OBVIOUS
  <2>2. t = [v EXCEPT !.conn[o].st = "REJECTED"]
    BY <1>1, <1>2, <1>4, <1>7, <2>1 DEF CloseClientSideConnection
  <2>3. v = s \/ v = [s EXCEPT !.lsn[c].st = "rejected"]
    BY <2>1 DEF Answer
  <2>4. t.app = s.app /\ t.waiters = s.waiters /\ t.wire = s.wire
    BY <1>2, <2>2, <2>3 DEF TunnelState
  <2> QED BY <1>4, <2>4 DEF KeepsQueues
<1>8. CASE r.st = "WAITING_RESPONSE_MIGRATING"
  <2>1. t = s
    BY <1>1, <1>4, <1>8 DEF CloseClientSideConnection
  <2> QED BY <1>4, <1>5, <2>1
<1>9. r.st \in VpnConnectionState
  BY <1>3, ConnFields
<1> QED BY <1>6, <1>7, <1>8, <1>9 DEF VpnConnectionState

\* What one of the closings does.
ClosesOne(s, w, c) ==
    /\ w \in TunnelState /\ KeepsQueues(s, w)
    /\ WorksOut(s, w, s.byClient[c], c, s.conn[s.byClient[c]].sid)

LEMMA OneClosed ==
  ASSUME NEW s, TunnelOK(s), NEW c \in Cids, s.byClient[c] # NON
  PROVE  ClosesOne(s, CloseClientSideConnection(s, s.byClient[c], FALSE, FALSE), c)
<1>1. PICK o : o = s.byClient[c]
  OBVIOUS
<1>2. o \in Objs /\ Settled(s, o, c, s.conn[o].sid)
  BY <1>1, SettledOf
<1>3. WorksOut(s, CloseClientSideConnection(s, o, FALSE, FALSE), o, c, s.conn[o].sid)
  BY <1>2, CloseClientSideWorks
<1>4. KeepsQueues(s, CloseClientSideConnection(s, o, FALSE, FALSE))
  BY <1>1, ClosedKeeps
<1>5. CloseClientSideConnection(s, o, FALSE, FALSE) \in TunnelState
  BY <1>3 DEF WorksOut
<1> QED BY <1>1, <1>3, <1>4, <1>5 DEF ClosesOne

\* CloseEach, component by component.
Hit(s, cs) == {c \in cs : s.byClient[c] # NON}
Closing(s, c) == CloseClientSideConnection(s, s.byClient[c], FALSE, FALSE)
Of(s, cs, o) == {c \in Hit(s, cs) : s.byClient[c] = o}
On(s, cs, x) == {c \in Hit(s, cs) : s.conn[s.byClient[c]].sid = x}

EachOf(s, t, cs) ==
    /\ t.conn = [o \in Objs |-> IF Of(s, cs, o) = {} THEN s.conn[o]
                                 ELSE Closing(s, CHOOSE c \in Of(s, cs, o) : TRUE).conn[o]]
    /\ t.byClient = [c \in Cids |-> IF c \in Hit(s, cs) THEN Closing(s, c).byClient[c] ELSE s.byClient[c]]
    /\ t.lsn = [c \in Cids |-> IF c \in Hit(s, cs) THEN Closing(s, c).lsn[c] ELSE s.lsn[c]]
    /\ t.byServer = [x \in Sids |-> IF On(s, cs, x) = {} THEN s.byServer[x]
                                     ELSE Closing(s, CHOOSE c \in On(s, cs, x) : TRUE).byServer[x]]
    /\ t.ups = [x \in Sids |-> IF On(s, cs, x) = {} THEN s.ups[x]
                                ELSE Closing(s, CHOOSE c \in On(s, cs, x) : TRUE).ups[x]]
    /\ t.waiters = s.waiters /\ t.app = s.app /\ t.wire = s.wire /\ t.ep = s.ep

LEMMA EachClosed ==
  ASSUME NEW s \in TunnelState, NEW cs, NEW t, t = CloseEach(s, cs)
  PROVE  EachOf(s, t, cs)
<1>1. PICK F, B, G, L, U :
        /\ F = [o \in Objs |-> IF Of(s, cs, o) = {} THEN s.conn[o]
                                ELSE Closing(s, CHOOSE c \in Of(s, cs, o) : TRUE).conn[o]]
        /\ B = [c \in Cids |-> IF c \in Hit(s, cs) THEN Closing(s, c).byClient[c] ELSE s.byClient[c]]
        /\ L = [c \in Cids |-> IF c \in Hit(s, cs) THEN Closing(s, c).lsn[c] ELSE s.lsn[c]]
        /\ G = [x \in Sids |-> IF On(s, cs, x) = {} THEN s.byServer[x]
                                          ELSE Closing(s, CHOOSE c \in On(s, cs, x) : TRUE).byServer[x]]
        /\ U = [x \in Sids |-> IF On(s, cs, x) = {} THEN s.ups[x]
                                     ELSE Closing(s, CHOOSE c \in On(s, cs, x) : TRUE).ups[x]]
  OBVIOUS
<1>2. t = [s EXCEPT !.conn = F, !.byClient = B, !.lsn = L, !.byServer = G, !.ups = U]
  BY <1>1, Zenon DEF CloseEach, Hit, Closing, Of, On
<1>3. t.conn = F /\ t.byClient = B /\ t.lsn = L /\ t.byServer = G /\ t.ups = U
  BY <1>2 DEF TunnelState
<1>4. t.waiters = s.waiters /\ t.app = s.app /\ t.wire = s.wire /\ t.ep = s.ep
  BY <1>2 DEF TunnelState
<1> QED BY <1>1, <1>3, <1>4, Zenon DEF EachOf

\* The connection that is closed for o, or for x, is the one of the client c.
LEMMA TheOne ==
  ASSUME NEW s, TunnelOK(s), NEW cs, cs \subseteq Cids, NEW c \in Hit(s, cs)
  PROVE  /\ \A d \in Of(s, cs, s.byClient[c]) : d = c
         /\ s.conn[s.byClient[c]].sid # NON => \A d \in On(s, cs, s.conn[s.byClient[c]].sid) : d = c
         /\ c \in Of(s, cs, s.byClient[c]) /\ c \in On(s, cs, s.conn[s.byClient[c]].sid)
<1>1. \A d \in Hit(s, cs) : d \in Cids /\ s.byClient[d] # NON
  BY DEF Hit
<1>2. \A d \in Hit(s, cs) : s.byClient[d] \in Objs /\ s.conn[s.byClient[d]] # NON /\ s.conn[s.byClient[d]].cid = d
  BY <1>1, SettledOf
<1>3. \A d \in Of(s, cs, s.byClient[c]) : d = c
  BY <1>2 DEF Of
<1>4. ASSUME s.conn[s.byClient[c]].sid # NON, NEW d \in On(s, cs, s.conn[s.byClient[c]].sid)
      PROVE  d = c
  <2>1. d \in Hit(s, cs) /\ s.conn[s.byClient[d]].sid = s.conn[s.byClient[c]].sid
    BY DEF On
  <2>2. Alone(s)
    BY DEF TunnelOK
  <2>3. s.byClient[d] = s.byClient[c]
    BY <1>2, <1>4, <2>1, <2>2, Zenon DEF Alone
  <2> QED BY <1>2, <2>1, <2>3
<1> QED BY <1>3, <1>4 DEF Of, On

LEMMA SetChoice ==
  ASSUME NEW S, S # {}
  PROVE  (CHOOSE c \in S : TRUE) \in S
BY Zenon

\* The new state agrees with each of the closings on its connection.
LEMMA EachAgrees ==
  ASSUME NEW s, TunnelOK(s), NEW cs, cs \subseteq Cids, NEW t, t = CloseEach(s, cs), NEW c \in Hit(s, cs), NEW w,
         w = Closing(s, c)
  PROVE  Agrees(t, w, s.byClient[c], c, s.conn[s.byClient[c]].sid)
<1>1. PICK o, x : o = s.byClient[c] /\ x = s.conn[o].sid
  OBVIOUS
<1>2. c \in Cids /\ o # NON /\ s \in TunnelState
  BY <1>1 DEF Hit, TunnelOK
<1>3. o \in Objs /\ s.conn[o] # NON
  BY <1>1, <1>2, SettledOf
<1>4. x \in Sids \cup {NON}
  BY <1>1, <1>2, <1>3, LiveConn, ConnFields, Zenon
<1>5. ClosesOne(s, w, c)
  BY <1>1, <1>2, OneClosed DEF Closing
<1>6. (\A d \in Of(s, cs, o) : d = c) /\ c \in Of(s, cs, o)
  BY <1>1, TheOne
<1>7. x # NON => (\A d \in On(s, cs, x) : d = c) /\ c \in On(s, cs, x)
  BY <1>1, TheOne
<1>8. /\ t.conn = [p \in Objs |-> IF Of(s, cs, p) = {} THEN s.conn[p]
                                  ELSE Closing(s, CHOOSE d \in Of(s, cs, p) : TRUE).conn[p]]
      /\ t.byClient = [d \in Cids |-> IF d \in Hit(s, cs) THEN Closing(s, d).byClient[d] ELSE s.byClient[d]]
      /\ t.lsn = [d \in Cids |-> IF d \in Hit(s, cs) THEN Closing(s, d).lsn[d] ELSE s.lsn[d]]
      /\ t.byServer = [y \in Sids |-> IF On(s, cs, y) = {} THEN s.byServer[y]
                                      ELSE Closing(s, CHOOSE d \in On(s, cs, y) : TRUE).byServer[y]]
      /\ t.ups = [y \in Sids |-> IF On(s, cs, y) = {} THEN s.ups[y]
                                 ELSE Closing(s, CHOOSE d \in On(s, cs, y) : TRUE).ups[y]]
      /\ t.waiters = s.waiters /\ t.app = s.app /\ t.wire = s.wire
  <2>1. EachOf(s, t, cs)
    BY <1>2, EachClosed
  <2> QED BY <2>1, Zenon DEF EachOf
<1>9. t.conn[o] = w.conn[o]
  <2>1. (CHOOSE d \in Of(s, cs, o) : TRUE) = c
    <3>1. (CHOOSE d \in Of(s, cs, o) : TRUE) \in Of(s, cs, o)
      BY <1>6, SetChoice
    <3> QED BY <1>6, <3>1
  <2>2. t.conn[o] = IF Of(s, cs, o) = {} THEN s.conn[o] ELSE Closing(s, CHOOSE d \in Of(s, cs, o) : TRUE).conn[o]
    BY <1>3, <1>8, Zenon
  <2> QED BY <1>6, <2>1, <2>2
<1>10. t.byClient[c] = w.byClient[c] /\ t.lsn[c] = w.lsn[c]
  BY <1>2, <1>8, Zenon
<1>11. x # NON => t.byServer[x] = w.byServer[x] /\ t.ups[x] = w.ups[x]
  <2>1. SUFFICES ASSUME x # NON PROVE t.byServer[x] = w.byServer[x] /\ t.ups[x] = w.ups[x]
    OBVIOUS
  <2>2. (CHOOSE d \in On(s, cs, x) : TRUE) = c
    <3>1. (CHOOSE d \in On(s, cs, x) : TRUE) \in On(s, cs, x)
      BY <1>7, <2>1, SetChoice
    <3> QED BY <1>7, <2>1, <3>1
  <2>3. x \in Sids
    BY <1>4, <2>1
  <2>4. /\ t.byServer[x] = IF On(s, cs, x) = {} THEN s.byServer[x] ELSE Closing(s, CHOOSE d \in On(s, cs, x) : TRUE).byServer[x]
        /\ t.ups[x] = IF On(s, cs, x) = {} THEN s.ups[x] ELSE Closing(s, CHOOSE d \in On(s, cs, x) : TRUE).ups[x]
    BY <1>8, <2>3, Zenon
  <2> QED BY <1>7, <2>1, <2>2, <2>4
<1>12. t.app = w.app /\ t.waiters = w.waiters /\ t.wire = w.wire
  BY <1>5, <1>8, Zenon DEF ClosesOne, KeepsQueues
<1> QED BY <1>1, <1>9, <1>10, <1>11, <1>12, Zenon DEF Agrees

LEMMA EachTyped ==
  ASSUME NEW s, TunnelOK(s), NEW cs, cs \subseteq Cids, NEW t, t = CloseEach(s, cs)
  PROVE  t \in TunnelState
<1>1. s \in TunnelState
  BY DEF TunnelOK
<1>2. \A c \in Hit(s, cs) : Closing(s, c) \in TunnelState
  <2>1. SUFFICES ASSUME NEW c \in Hit(s, cs) PROVE Closing(s, c) \in TunnelState
    OBVIOUS
  <2>2. c \in Cids /\ s.byClient[c] # NON
    BY DEF Hit
  <2>3. ClosesOne(s, Closing(s, c), c)
    BY <2>2, OneClosed DEF Closing
  <2> QED BY <2>3 DEF ClosesOne
<1>3. /\ s.conn \in [Objs -> VpnConnection \cup {NON}] /\ s.byClient \in [Cids -> Objs \cup {NON}]
      /\ s.byServer \in [Sids -> Objs \cup {NON}] /\ s.waiters \subseteq Cids /\ s.ep \in Sessions
      /\ s.app \subseteq Cids /\ s.lsn \in [Cids -> ListenerConn] /\ s.ups \in [Sids -> UpstreamConn]
      /\ s.wire \in [Cids -> Seq(1..MaxPkt)]
  BY <1>1, StateFields
<1>4. \A c \in Hit(s, cs) :
        /\ Closing(s, c).conn \in [Objs -> VpnConnection \cup {NON}] /\ Closing(s, c).byClient \in [Cids -> Objs \cup {NON}]
        /\ Closing(s, c).byServer \in [Sids -> Objs \cup {NON}]
        /\ Closing(s, c).lsn \in [Cids -> ListenerConn] /\ Closing(s, c).ups \in [Sids -> UpstreamConn]
  BY <1>2, StateFields
<1>5. PICK F, B, G, L, U :
        /\ F = [o \in Objs |-> IF Of(s, cs, o) = {} THEN s.conn[o]
                                ELSE Closing(s, CHOOSE c \in Of(s, cs, o) : TRUE).conn[o]]
        /\ B = [c \in Cids |-> IF c \in Hit(s, cs) THEN Closing(s, c).byClient[c] ELSE s.byClient[c]]
        /\ L = [c \in Cids |-> IF c \in Hit(s, cs) THEN Closing(s, c).lsn[c] ELSE s.lsn[c]]
        /\ G = [x \in Sids |-> IF On(s, cs, x) = {} THEN s.byServer[x]
                                          ELSE Closing(s, CHOOSE c \in On(s, cs, x) : TRUE).byServer[x]]
        /\ U = [x \in Sids |-> IF On(s, cs, x) = {} THEN s.ups[x]
                                     ELSE Closing(s, CHOOSE c \in On(s, cs, x) : TRUE).ups[x]]
  OBVIOUS
<1>6. F \in [Objs -> VpnConnection \cup {NON}]
  <2>1. SUFFICES ASSUME NEW o \in Objs
                 PROVE  (IF Of(s, cs, o) = {} THEN s.conn[o] ELSE Closing(s, CHOOSE c \in Of(s, cs, o) : TRUE).conn[o])
                          \in VpnConnection \cup {NON}
    BY <1>5, Zenon
  <2>2. CASE Of(s, cs, o) = {}
    BY <1>3, <2>2
  <2>3. CASE Of(s, cs, o) # {}
    <3>1. PICK c : c = (CHOOSE k \in Of(s, cs, o) : TRUE)
      OBVIOUS
    <3>2. c \in Hit(s, cs)
      BY <2>3, <3>1, SetChoice DEF Of
    <3> QED BY <1>4, <2>3, <3>1, <3>2
  <2> QED BY <2>2, <2>3
<1>7. B \in [Cids -> Objs \cup {NON}] /\ L \in [Cids -> ListenerConn]
  BY <1>3, <1>4, <1>5, ZenonT(60)
<1>8. ASSUME NEW x \in Sids, On(s, cs, x) # {} PROVE (CHOOSE c \in On(s, cs, x) : TRUE) \in Hit(s, cs)
  BY <1>8, SetChoice DEF On
<1>9. G \in [Sids -> Objs \cup {NON}]
  <2>1. SUFFICES ASSUME NEW x \in Sids
                 PROVE  (IF On(s, cs, x) = {} THEN s.byServer[x] ELSE Closing(s, CHOOSE c \in On(s, cs, x) : TRUE).byServer[x])
                          \in Objs \cup {NON}
    BY <1>5, Zenon
  <2>2. PICK c : c = (CHOOSE k \in On(s, cs, x) : TRUE)
    OBVIOUS
  <2> QED BY <1>3, <1>4, <1>8, <2>2
<1>10. U \in [Sids -> UpstreamConn]
  <2>1. SUFFICES ASSUME NEW x \in Sids
                 PROVE  (IF On(s, cs, x) = {} THEN s.ups[x] ELSE Closing(s, CHOOSE c \in On(s, cs, x) : TRUE).ups[x])
                          \in UpstreamConn
    BY <1>5, Zenon
  <2>2. PICK c : c = (CHOOSE k \in On(s, cs, x) : TRUE)
    OBVIOUS
  <2> QED BY <1>3, <1>4, <1>8, <2>2
<1>11. t = [s EXCEPT !.conn = F, !.byClient = B, !.lsn = L, !.byServer = G, !.ups = U]
  BY <1>5, Zenon DEF CloseEach, Hit, Closing, Of, On
<1> QED BY <1>1, <1>6, <1>7, <1>9, <1>10, <1>11 DEF TunnelState

LEMMA CloseEachOK ==
  ASSUME NEW s, TunnelOK(s), NEW cs, cs \subseteq Cids
  PROVE  TunnelOK(CloseEach(s, cs))
<1>1. PICK t : t = CloseEach(s, cs)
  OBVIOUS
<1>2. PICK H : H = Hit(s, cs)
  OBVIOUS
<1>3. s \in TunnelState /\ t \in TunnelState
  BY <1>1, EachTyped DEF TunnelOK
<1>4. H \subseteq Cids /\ \A c \in H : s.byClient[c] # NON
  BY <1>2 DEF Hit
<1>5. ASSUME NEW c \in H PROVE Piece(s, t, s.byClient[c], c, s.conn[s.byClient[c]].sid)
  <2>1. c \in Cids /\ s.byClient[c] # NON /\ c \in Hit(s, cs)
    BY <1>2, <1>4
  <2>2. PICK w : w = Closing(s, c)
    OBVIOUS
  <2>3. WorksOut(s, w, s.byClient[c], c, s.conn[s.byClient[c]].sid)
    BY <2>1, <2>2, OneClosed DEF ClosesOne, Closing
  <2>4. Agrees(t, w, s.byClient[c], c, s.conn[s.byClient[c]].sid)
    BY <1>1, <2>1, <2>2, EachAgrees
  <2> QED BY <1>3, <2>1, <2>3, <2>4, PieceOf
<1>6. /\ t.conn = [p \in Objs |-> IF Of(s, cs, p) = {} THEN s.conn[p]
                                  ELSE Closing(s, CHOOSE d \in Of(s, cs, p) : TRUE).conn[p]]
      /\ t.byClient = [d \in Cids |-> IF d \in Hit(s, cs) THEN Closing(s, d).byClient[d] ELSE s.byClient[d]]
      /\ t.lsn = [d \in Cids |-> IF d \in Hit(s, cs) THEN Closing(s, d).lsn[d] ELSE s.lsn[d]]
      /\ t.byServer = [y \in Sids |-> IF On(s, cs, y) = {} THEN s.byServer[y]
                                      ELSE Closing(s, CHOOSE d \in On(s, cs, y) : TRUE).byServer[y]]
      /\ t.ups = [y \in Sids |-> IF On(s, cs, y) = {} THEN s.ups[y]
                                 ELSE Closing(s, CHOOSE d \in On(s, cs, y) : TRUE).ups[y]]
      /\ t.waiters = s.waiters /\ t.app = s.app /\ t.wire = s.wire
  <2>1. EachOf(s, t, cs)
    BY <1>1, <1>3, EachClosed
  <2> QED BY <2>1, Zenon DEF EachOf
<1>7. ASSUME NEW p \in Objs, \A c \in H : s.byClient[c] # p PROVE t.conn[p] = s.conn[p]
  <2>1. Of(s, cs, p) = {}
    BY <1>2, <1>7 DEF Of
  <2> QED BY <1>6, <2>1, Zenon
<1>8. ASSUME NEW d \in Cids, d \notin H
      PROVE  /\ t.byClient[d] = s.byClient[d] /\ t.lsn[d] = s.lsn[d] /\ t.wire[d] = s.wire[d]
             /\ (d \in t.app <=> d \in s.app) /\ (d \in t.waiters <=> d \in s.waiters)
  BY <1>2, <1>6, <1>8, ZenonT(60)
<1>9. ASSUME NEW y \in Sids, \A c \in H : s.conn[s.byClient[c]].sid # y
      PROVE  t.byServer[y] = s.byServer[y] /\ t.ups[y] = s.ups[y]
  <2>1. On(s, cs, y) = {}
    BY <1>2, <1>9 DEF On
  <2> QED BY <1>6, <2>1, Zenon
<1>10. Merged(s, t, H)
  BY <1>3, <1>5, <1>7, <1>8, <1>9, Zenon DEF Merged
<1> QED BY <1>1, <1>4, <1>10, MergedOK

LEMMA ResetConnectionsStep ==
  ASSUME TunnelOK(State), ResetConnections
  PROVE  TunnelOK(State)'
<1>1. PICK cs \in SUBSET Cids : Becomes(CloseEach(State, cs))
  BY Zenon DEF ResetConnections
<1>2. TunnelOK(CloseEach(State, cs))
  BY CloseEachOK
<1> QED BY <1>1, <1>2, Became

LEMMA EndpointDisconnectStep ==
  ASSUME TunnelOK(State), EndpointDisconnect
  PROVE  TunnelOK(State)'
<1>1. Becomes([CloseEach(State, Cids) EXCEPT !.ep = "closing"])
  BY Zenon DEF EndpointDisconnect
<1>2. TunnelOK(CloseEach(State, Cids))
  BY CloseEachOK
<1>3. "closing" \in Sessions
  BY DEF Sessions
<1>4. TunnelOK([CloseEach(State, Cids) EXCEPT !.ep = "closing"])
  BY <1>2, <1>3, SessionOK
<1> QED BY <1>1, <1>4, Became

\* Every connection the endpoint held has ended.
Ceased(s) == \A x \in Sids : s.ups[x].u = "endpoint" => s.ups[x].st = "gone"

LEMMA EndpointGone ==
  ASSUME NEW s, TunnelOK(s), Ceased(s), NEW p \in Objs, s.conn[p] # NON, s.conn[p].up = "endpoint", s.conn[p].sid # NON
  PROVE  s.ups[s.conn[p].sid].st = "gone"
<1>1. s \in TunnelState /\ ObjOK(s, p)
  BY Zenon DEF TunnelOK
<1>2. s.conn[p].sid \in Sids
  BY <1>1, LiveConn, ConnFields, Zenon
<1>3. s.ups[s.conn[p].sid].u = "endpoint"
  BY <1>1, Zenon DEF ObjOK
<1> QED BY <1>2, <1>3, Zenon DEF Ceased

\* The connections that the endpoint has ended are marked, some listeners stop reading and
\* some upstreams stop opening.
LEMMA CeasedOK ==
  ASSUME NEW s, TunnelOK(s), Ceased(s), NEW M, \A p \in M : p \in Objs /\ s.conn[p] # NON /\ s.conn[p].up = "endpoint",
         NEW C, C = [o \in Objs |-> IF o \in M THEN [s.conn[o] EXCEPT !.closed = TRUE] ELSE s.conn[o]],
         NEW L \in [Cids -> ListenerConn], \A c \in Cids : Quieter(s.lsn[c], L[c]),
         NEW U \in [Sids -> UpstreamConn], Fades(s.ups, U), NEW e \in Sessions
  PROVE  TunnelOK([s EXCEPT !.ep = e, !.ups = U, !.lsn = L, !.conn = C])
<1>1. s \in TunnelState
  BY DEF TunnelOK
<1>2. ASSUME NEW p \in Objs, s.conn[p] # NON
      PROVE  /\ C[p] \in VpnConnection /\ Marked(s.conn[p], C[p])
             /\ C[p].closed => s.conn[p].closed \/ s.conn[p].up = "endpoint"
  <2>1. s.conn[p] \in VpnConnection
    BY <1>1, <1>2, LiveConn, Zenon
  <2>2. CASE p \in M
    <3>1. C[p] = [s.conn[p] EXCEPT !.closed = TRUE]
      BY <2>2
    <3>2. Marked(s.conn[p], C[p])
      BY <2>1, <3>1, MarkedRecord
    <3> QED BY <2>2, <3>2, Zenon DEF Marked
  <2>3. CASE p \notin M
    <3>1. C[p] = s.conn[p]
      BY <2>3
    <3> QED BY <2>1, <3>1, MarkedSame
  <2> QED BY <2>2, <2>3
<1>3. \A p \in Objs : s.conn[p] = NON => C[p] = NON
  BY Zenon
<1>4. C \in [Objs -> VpnConnection \cup {NON}]
  <2>1. \A p \in Objs : C[p] \in VpnConnection \cup {NON}
    BY <1>2, <1>3
  <2>2. C = [p \in Objs |-> C[p]]
    BY Zenon
  <2> QED BY <2>1, <2>2, Zenon
<1>5. PICK t : t = [s EXCEPT !.ep = e, !.ups = U, !.lsn = L, !.conn = C]
  OBVIOUS
<1>6. /\ t \in TunnelState /\ t.conn = C /\ t.lsn = L /\ t.ups = U /\ t.byClient = s.byClient /\ t.byServer = s.byServer
      /\ t.waiters = s.waiters /\ t.app = s.app /\ t.wire = s.wire
  BY <1>1, <1>4, <1>5 DEF TunnelState
<1>7. ASSUME NEW p \in Objs, s.conn[p] # NON, t.conn[p].closed
      PROVE  \/ s.conn[p].closed
             \/ s.conn[p].up = "endpoint" /\ (s.conn[p].sid # NON => t.ups[s.conn[p].sid].st = "gone")
  <2>1. s.conn[p].closed \/ s.conn[p].up = "endpoint"
    BY <1>2, <1>6, <1>7
  <2>2. CASE s.conn[p].up = "endpoint" /\ s.conn[p].sid # NON
    <3>1. s.ups[s.conn[p].sid].st = "gone"
      BY <1>7, <2>2, EndpointGone
    <3>2. s.conn[p].sid \in Sids
      BY <1>1, <1>7, <2>2, LiveConn, ConnFields, Zenon
    <3> QED BY <1>6, <2>2, <3>1, <3>2, Zenon DEF Fades
  <2> QED BY <2>1, <2>2
<1>8. ASSUME NEW p \in Objs PROVE t.conn[p] = NON <=> s.conn[p] = NON
  BY <1>2, <1>3, <1>6, Apartness
<1>9. ASSUME NEW p \in Objs, s.conn[p] # NON PROVE Marked(s.conn[p], t.conn[p])
  BY <1>2, <1>6, <1>9
<1>10. Lessened(s, t)
  BY <1>6, <1>7, <1>8, <1>9, Zenon DEF Lessened
<1> QED BY <1>5, <1>10, LessenedOK

LEMMA FadesSame ==
  ASSUME NEW f
  PROVE  Fades(f, f)
BY Zenon DEF Fades

LEMMA IdleCeased ==
  ASSUME EndpointIdle
  PROVE  Ceased(State)
BY StateIs, Zenon DEF EndpointIdle, Ceased

LEMMA SessionClosedStep ==
  ASSUME TunnelOK(State), SessionClosed
  PROVE  TunnelOK(State)'
<1>1. PICK cs : cs = {c \in Cids : byClient[c] # NON /\ conn[byClient[c]].up = "endpoint"}
  OBVIOUS
<1>2. PICK M : M = {o \in Objs : \E c \in cs : byClient[c] = o}
  OBVIOUS
<1>3. PICK s : s = State
  OBVIOUS
<1>4. TunnelOK(s) /\ s \in TunnelState /\ s.conn = conn /\ s.byClient = byClient
  BY <1>3, StateIs, Zenon DEF TunnelOK
<1>5. PICK C : C = [o \in Objs |-> IF o \in M THEN [s.conn[o] EXCEPT !.closed = TRUE] ELSE s.conn[o]]
  OBVIOUS
<1>6. Ceased(s) /\ Becomes(CloseEach([s EXCEPT !.ep = "lost",
                   !.conn = [o \in Objs |-> IF \E c \in cs : byClient[c] = o
                                            THEN [conn[o] EXCEPT !.closed = TRUE] ELSE conn[o]]], cs))
  <2>1. EndpointIdle
    BY Zenon DEF SessionClosed
  <2>2. Becomes(CloseEach([s EXCEPT !.ep = "lost",
                   !.conn = [o \in Objs |-> IF \E c \in cs : byClient[c] = o
                                            THEN [conn[o] EXCEPT !.closed = TRUE] ELSE conn[o]]], cs))
    BY <1>1, <1>3, Zenon DEF SessionClosed
  <2> QED BY <1>3, <2>1, <2>2, IdleCeased
<1>7. C = [o \in Objs |-> IF \E c \in cs : byClient[c] = o THEN [conn[o] EXCEPT !.closed = TRUE] ELSE conn[o]]
  <2>1. \A o \in Objs : o \in M <=> \E c \in cs : byClient[c] = o
    BY <1>2
  <2> QED BY <1>4, <1>5, <2>1, Zenon
<1>8. ASSUME NEW p \in M PROVE p \in Objs /\ s.conn[p] # NON /\ s.conn[p].up = "endpoint"
  <2>1. PICK c \in Cids : byClient[c] = p /\ byClient[c] # NON /\ conn[byClient[c]].up = "endpoint"
    BY <1>1, <1>2
  <2>2. s.byClient[c] = p /\ p # NON
    BY <1>4, <2>1
  <2>3. p \in Objs /\ s.conn[p] # NON
    BY <1>4, <2>2, SettledOf
  <2> QED BY <1>4, <2>1, <2>3
<1>9. s.lsn \in [Cids -> ListenerConn] /\ s.ups \in [Sids -> UpstreamConn] /\ "lost" \in Sessions
  BY <1>4, StateFields DEF Sessions
<1>10. (\A c \in Cids : Quieter(s.lsn[c], s.lsn[c])) /\ Fades(s.ups, s.ups)
  BY FadesSame DEF Quieter
<1>11. TunnelOK([s EXCEPT !.ep = "lost", !.ups = s.ups, !.lsn = s.lsn, !.conn = C])
  BY <1>4, <1>5, <1>6, <1>8, <1>9, <1>10, CeasedOK
<1>12. [s EXCEPT !.ep = "lost", !.ups = s.ups, !.lsn = s.lsn, !.conn = C] = [s EXCEPT !.ep = "lost", !.conn = C]
  <2>1. PICK v : v = [s EXCEPT !.ep = "lost", !.ups = s.ups, !.lsn = s.lsn, !.conn = C]
    OBVIOUS
  <2>2. PICK t : t = [s EXCEPT !.ep = "lost", !.conn = C]
    OBVIOUS
  <2>3. v \in TunnelState
    BY <1>11, <2>1, Zenon DEF TunnelOK
  <2>4. /\ v.conn = C /\ v.byClient = s.byClient /\ v.byServer = s.byServer /\ v.waiters = s.waiters /\ v.ep = "lost"
        /\ v.app = s.app /\ v.lsn = s.lsn /\ v.ups = s.ups /\ v.wire = s.wire
    BY <1>4, <2>1 DEF TunnelState
  <2>5. C \in [Objs -> VpnConnection \cup {NON}]
    BY <2>3, <2>4, StateFields
  <2>6. t \in TunnelState
    BY <1>4, <1>9, <2>2, <2>5 DEF TunnelState
  <2>7. /\ t.conn = C /\ t.byClient = s.byClient /\ t.byServer = s.byServer /\ t.waiters = s.waiters /\ t.ep = "lost"
        /\ t.app = s.app /\ t.lsn = s.lsn /\ t.ups = s.ups /\ t.wire = s.wire
    BY <1>4, <2>2 DEF TunnelState
  <2>8. t = v
    <3>1. t = [conn |-> t.conn, byClient |-> t.byClient, byServer |-> t.byServer, waiters |-> t.waiters,
               ep |-> t.ep, app |-> t.app, lsn |-> t.lsn, ups |-> t.ups, wire |-> t.wire]
      BY <2>6, SMT DEF TunnelState
    <3>2. v = [conn |-> v.conn, byClient |-> v.byClient, byServer |-> v.byServer, waiters |-> v.waiters,
               ep |-> v.ep, app |-> v.app, lsn |-> v.lsn, ups |-> v.ups, wire |-> v.wire]
      BY <2>3, SMT DEF TunnelState
    <3> QED BY <2>4, <2>7, <3>1, <3>2, Zenon
  <2> QED BY <2>1, <2>2, <2>8
<1>13. PICK t : t = [s EXCEPT !.ep = "lost", !.conn = C]
  OBVIOUS
<1>14. TunnelOK(t) /\ cs \subseteq Cids /\ Becomes(CloseEach(t, cs))
  BY <1>1, <1>6, <1>7, <1>11, <1>12, <1>13
<1> QED BY <1>14, CloseEachOK, Became

LEMMA AfterEndpointDisconnectStep ==
  ASSUME TunnelOK(State), AfterEndpointDisconnect
  PROVE  TunnelOK(State)'
<1>1. PICK s : s = State
  OBVIOUS
<1>2. TunnelOK(s) /\ s \in TunnelState /\ s.conn = conn /\ s.byClient = byClient /\ s.lsn = lsn /\ s.ups = ups
  BY <1>1, StateIs, Zenon DEF TunnelOK
<1>3. PICK M : M = {o \in Objs : conn[o] # NON /\ conn[o].up = "endpoint" /\ \E c \in Cids : byClient[c] = o}
  OBVIOUS
<1>4. PICK C, L, U :
        /\ C = [o \in Objs |-> IF o \in M THEN [s.conn[o] EXCEPT !.closed = TRUE] ELSE s.conn[o]]
        /\ L = [c \in Cids |-> IF byClient[c] # NON /\ conn[byClient[c]].up = "endpoint"
                               THEN [lsn[c] EXCEPT !.reads = FALSE] ELSE lsn[c]]
        /\ U = [x \in Sids |-> IF ups[x] = [u |-> "fake", st |-> "opening"]
                               THEN [ups[x] EXCEPT !.st = "closing"] ELSE ups[x]]
  OBVIOUS
<1>5. C = [o \in Objs |-> IF conn[o] # NON /\ conn[o].up = "endpoint" /\ \E c \in Cids : byClient[c] = o
                          THEN [conn[o] EXCEPT !.closed = TRUE] ELSE conn[o]]
  <2>1. \A o \in Objs : o \in M <=> conn[o] # NON /\ conn[o].up = "endpoint" /\ \E c \in Cids : byClient[c] = o
    BY <1>3
  <2>2. C = [o \in Objs |-> IF o \in M THEN [conn[o] EXCEPT !.closed = TRUE] ELSE conn[o]]
    BY <1>2, <1>4
  <2> QED BY <2>1, <2>2, Zenon
<1>6. Ceased(s) /\ Becomes([s EXCEPT !.ep = "off", !.ups = U, !.lsn = L, !.conn = C])
  <2>1. EndpointIdle
    BY Zenon DEF AfterEndpointDisconnect
  <2>2. Becomes([s EXCEPT !.ep = "off", !.ups = U, !.lsn = L, !.conn = C])
    BY <1>1, <1>4, <1>5, Zenon DEF AfterEndpointDisconnect
  <2> QED BY <1>1, <2>1, <2>2, IdleCeased
<1>7. \A p \in M : p \in Objs /\ s.conn[p] # NON /\ s.conn[p].up = "endpoint"
  BY <1>2, <1>3
<1>8. \A c \in Cids : L[c] \in ListenerConn /\ Quieter(s.lsn[c], L[c])
  <2>1. SUFFICES ASSUME NEW c \in Cids PROVE L[c] \in ListenerConn /\ Quieter(s.lsn[c], L[c])
    OBVIOUS
  <2>2. s.lsn[c] \in ListenerConn
    BY <1>2, LsnFields
  <2>3. PICK m : m = [s.lsn[c] EXCEPT !.reads = FALSE]
    OBVIOUS
  <2>4. m \in ListenerConn /\ m.reads = FALSE /\ m.st = s.lsn[c].st /\ m.unsent = s.lsn[c].unsent /\ m.pos = s.lsn[c].pos
    BY <2>2, <2>3, Zenon DEF ListenerConn
  <2>5. L[c] = m \/ L[c] = s.lsn[c]
    BY <1>2, <1>4, <2>3
  <2> QED BY <2>2, <2>4, <2>5 DEF Quieter
<1>9. L \in [Cids -> ListenerConn]
  <2>1. L = [c \in Cids |-> L[c]]
    BY <1>4, Zenon
  <2> QED BY <1>8, <2>1, Zenon
<1>10. \A x \in Sids : /\ U[x] \in UpstreamConn /\ U[x].u = s.ups[x].u
                       /\ s.ups[x].st = "gone" => U[x].st = "gone"
                       /\ U[x].st \in {"opening", "aborting"} => s.ups[x].st \in {"opening", "aborting"}
  <2>1. SUFFICES ASSUME NEW x \in Sids
                 PROVE  /\ U[x] \in UpstreamConn /\ U[x].u = s.ups[x].u
                        /\ s.ups[x].st = "gone" => U[x].st = "gone"
                        /\ U[x].st \in {"opening", "aborting"} => s.ups[x].st \in {"opening", "aborting"}
    OBVIOUS
  <2>2. s.ups[x] \in UpstreamConn
    BY <1>2, UpsFields
  <2>3. PICK g : g = [s.ups[x] EXCEPT !.st = "closing"]
    OBVIOUS
  <2>4. g \in UpstreamConn /\ g.st = "closing" /\ g.u = s.ups[x].u
    BY <2>2, <2>3 DEF UpstreamConn
  <2>5. U[x] = IF s.ups[x] = [u |-> "fake", st |-> "opening"] THEN g ELSE s.ups[x]
    BY <1>2, <1>4, <2>3
  <2>6. CASE s.ups[x] = [u |-> "fake", st |-> "opening"]
    <3>1. s.ups[x].st = "opening"
      BY <2>6
    <3> QED BY <2>4, <2>5, <2>6, <3>1
  <2>7. CASE s.ups[x] # [u |-> "fake", st |-> "opening"]
    BY <2>2, <2>5, <2>7
  <2> QED BY <2>6, <2>7
<1>11. U \in [Sids -> UpstreamConn] /\ Fades(s.ups, U)
  <2>1. U = [x \in Sids |-> U[x]]
    BY <1>4, Zenon
  <2>2. U \in [Sids -> UpstreamConn]
    BY <1>10, <2>1, Zenon
  <2> QED BY <1>10, <2>2, Zenon DEF Fades
<1>12. "off" \in Sessions
  BY DEF Sessions
<1>13. TunnelOK([s EXCEPT !.ep = "off", !.ups = U, !.lsn = L, !.conn = C])
  <2>1. C = [o \in Objs |-> IF o \in M THEN [s.conn[o] EXCEPT !.closed = TRUE] ELSE s.conn[o]]
    BY <1>4
  <2> QED BY <1>2, <1>6, <1>7, <1>8, <1>9, <1>11, <1>12, <2>1, CeasedOK
<1> QED BY <1>6, <1>13, Became

LEMMA InitOK ==
  ASSUME Init
  PROVE  TunnelOK(State)
<1>1. PICK s : s = State
  OBVIOUS
<1>2. /\ s.conn = [o \in Objs |-> NON] /\ s.byClient = [c \in Cids |-> NON] /\ s.byServer = [x \in Sids |-> NON]
      /\ s.waiters = {} /\ s.app = {} /\ s.ep = "off"
      /\ s.lsn = [c \in Cids |-> [st |-> "none", reads |-> FALSE, unsent |-> FALSE, pos |-> 1]]
      /\ s.ups = [x \in Sids |-> [u |-> NON, st |-> "unused"]] /\ s.wire = [c \in Cids |-> <<>>]
  BY <1>1, StateIs, Zenon DEF Init
<1>3. MaxPkt \in Nat
  BY TunnelAssumption
<1>4. /\ [st |-> "none", reads |-> FALSE, unsent |-> FALSE, pos |-> 1] \in ListenerConn
      /\ [u |-> NON, st |-> "unused"] \in UpstreamConn /\ <<>> \in Seq(1..MaxPkt)
  BY <1>3 DEF ListenerConn, ListenerStates, UpstreamConn
<1>5. s \in TunnelState
  <2>1. /\ s.conn \in [Objs -> VpnConnection \cup {NON}] /\ s.byClient \in [Cids -> Objs \cup {NON}]
        /\ s.byServer \in [Sids -> Objs \cup {NON}] /\ s.waiters \in SUBSET Cids /\ s.app \in SUBSET Cids
    BY <1>2, Zenon
  <2>2. s.ep \in Sessions
    BY <1>2 DEF Sessions
  <2>3. s.lsn \in [Cids -> ListenerConn] /\ s.ups \in [Sids -> UpstreamConn] /\ s.wire \in [Cids -> Seq(1..MaxPkt)]
    BY <1>2, <1>4, ZenonT(60)
  <2>4. s = [conn |-> s.conn, byClient |-> s.byClient, byServer |-> s.byServer, waiters |-> s.waiters,
             ep |-> s.ep, app |-> s.app, lsn |-> s.lsn, ups |-> s.ups, wire |-> s.wire]
    BY <1>1 DEF State
  <2> QED BY <2>1, <2>2, <2>3, <2>4, Zenon DEF TunnelState
<1>6. \A o \in Objs : s.conn[o] = NON
  BY <1>2
<1>7. \A o \in Objs : ObjOK(s, o) /\ FakeOK(s, o)
  BY <1>6, Zenon DEF ObjOK, FakeOK
<1>8. ASSUME NEW c \in Cids PROVE CliOK(s, c) /\ MovesOK(s, c)
  <2>1. /\ s.byClient[c] = NON /\ s.wire[c] = <<>> /\ c \notin s.app /\ c \notin s.waiters
        /\ s.lsn[c].st = "none" /\ ~s.lsn[c].unsent /\ s.lsn[c].pos = 1
    BY <1>2
  <2>2. s.conn[c] = NON
    BY <1>6 DEF Objs
  <2> QED BY <2>1, <2>2, Zenon DEF CliOK, CliBase, CliBacked, MovesOK
<1>9. ASSUME NEW x \in Sids PROVE SrvOK(s, x)
  <2>1. s.byServer[x] = NON /\ s.ups[x].st = "unused"
    BY <1>2
  <2> QED BY <2>1 DEF SrvOK
<1>10. Alone(s)
  BY <1>6, Zenon DEF Alone
<1>11. TunnelOK(s)
  BY <1>5, <1>7, <1>8, <1>9, <1>10, Zenon DEF TunnelOK
<1> QED BY <1>1, <1>11

LEMMA NextOK ==
  ASSUME TunnelOK(State), [Next]_vars
  PROVE  TunnelOK(State)'
<1>1. CASE UNCHANGED vars
  <2>1. State' = State
    BY <1>1 DEF State, vars
  <2> QED BY <2>1
<1>2. CASE \E c \in Cids : \/ ConnectRequest(c) \/ AppCompletes(c) \/ DestinationResolved(c)
                           \/ ConnectionAccepted(c) \/ ClientClosed(c) \/ ClientDataSent(c) \/ ClientRead(c)
  BY <1>2, ConnectRequestStep, AppCompletesStep, DestinationResolvedStep, ConnectionAcceptedStep, ClientClosedStep,
     ClientDataSentStep, ClientReadStep, Zenon
<1>3. CASE \E o \in Objs : CompleteConnectRequestTask(o) \/ SendBufferedData(o)
  BY <1>3, CompleteConnectRequestTaskStep, SendBufferedDataStep, Zenon
<1>4. CASE \E x \in Sids : \/ UpstreamOpened(x) \/ UpstreamClosed(x) \/ UpstreamError(x)
                           \/ UpstreamRead(x) \/ UpstreamDataSent(x)
  BY <1>4, UpstreamOpenedStep, UpstreamClosedStep, UpstreamErrorStep, UpstreamReadStep, UpstreamDataSentStep, Zenon
<1>5. CASE ResetConnections \/ SessionClosed \/ EndpointDisconnect \/ AfterEndpointDisconnect
  BY <1>5, ResetConnectionsStep, SessionClosedStep, EndpointDisconnectStep, AfterEndpointDisconnectStep, Zenon
<1>6. CASE SessionOpening \/ SessionOpened \/ SessionFailed
  BY <1>6, SessionStep
<1> QED BY <1>1, <1>2, <1>3, <1>4, <1>5, <1>6, Zenon DEF Next

-----------------------------------------------------------------------------
(* What the invariant says of the tunnel.                                  *)

LEMMA TablesAgreeHolds ==
  ASSUME TunnelOK(State)
  PROVE  TablesAgree
<1>1. PICK s : s = State
  OBVIOUS
<1>2. TunnelOK(s) /\ s \in TunnelState /\ s.conn = conn /\ s.byClient = byClient /\ s.byServer = byServer
  BY <1>1, StateIs, Zenon DEF TunnelOK
<1>3. ASSUME NEW c \in Cids, byClient[c] # NON PROVE conn[byClient[c]] # NON /\ conn[byClient[c]].cid = c
  <2>1. CliOK(s, c)
    BY <1>2, Zenon DEF TunnelOK
  <2> QED BY <1>2, <1>3, <2>1, Zenon DEF CliOK, CliBase
<1>4. ASSUME NEW x \in Sids, byServer[x] # NON PROVE conn[byServer[x]] # NON /\ conn[byServer[x]].sid = x
  <2>1. SrvOK(s, x)
    BY <1>2, Zenon DEF TunnelOK
  <2> QED BY <1>2, <1>4, <2>1, Zenon DEF SrvOK
<1>5. ASSUME NEW o \in Objs, conn[o] # NON, conn[o].st # "CONNECTED_MIGRATING" PROVE Reachable(o)
  <2>1. ObjOK(s, o)
    BY <1>2, Zenon DEF TunnelOK
  <2>2. conn[o].cid \in Cids \cup {NON} /\ conn[o].sid \in Sids \cup {NON}
    BY <1>2, <1>5, LiveConn, ConnFields, Zenon
  <2>3. \/ conn[o].cid # NON /\ byClient[conn[o].cid] = o
        \/ conn[o].sid # NON /\ byServer[conn[o].sid] = o
    BY <1>2, <1>5, <2>1, Zenon DEF ObjOK
  <2> QED BY <2>2, <2>3 DEF Reachable
<1> QED BY <1>3, <1>4, <1>5 DEF TablesAgree

LEMMA BytesInOrderHolds ==
  ASSUME TunnelOK(State)
  PROVE  BytesInOrder
<1>1. PICK s : s = State
  OBVIOUS
<1>2. /\ TunnelOK(s) /\ s.conn = conn /\ s.byClient = byClient /\ s.byServer = byServer /\ s.lsn = lsn /\ s.wire = wire
  BY <1>1, StateIs, Zenon DEF TunnelOK
<1>3. SUFFICES ASSUME NEW c \in Cids, lsn[c].st = "open", byClient[c] # NON, conn[byClient[c]].proto = "tcp",
                      NEW b \in (IF conn[byClient[c]].st = "CONNECTED_MIGRATING"
                                 THEN {conn[x].buf : x \in {y \in Sids : conn[y] # NON /\ conn[y].mig = c}}
                                 ELSE {conn[byClient[c]].buf})
               PROVE  wire[c] \o b = Counted(lsn[c].pos - 1)
  BY Zenon DEF BytesInOrder, Counted
<1>4. CliOK(s, c) /\ MovesOK(s, c)
  BY <1>2, Zenon DEF TunnelOK
<1>5. CASE conn[byClient[c]].st = "CONNECTED_MIGRATING"
  <2>1. PICK x \in Sids : conn[x] # NON /\ conn[x].mig = c /\ b = conn[x].buf
    BY <1>3, <1>5
  <2>2. x \in Objs
    BY DEF Objs
  <2>3. conn[byClient[c]].proto = conn[x].proto /\ (conn[x].proto = "tcp" => wire[c] \o conn[x].buf = Counted(lsn[c].pos - 1))
    BY <1>2, <1>3, <1>4, <2>1, <2>2, Zenon DEF MovesOK
  <2> QED BY <1>3, <2>1, <2>3
<1>6. CASE conn[byClient[c]].st # "CONNECTED_MIGRATING"
  <2>1. b = conn[byClient[c]].buf
    BY <1>3, <1>6
  <2>2. wire[c] \o conn[byClient[c]].buf = Counted(lsn[c].pos - 1)
    BY <1>2, <1>3, <1>4, <1>6, Zenon DEF CliOK, CliBase
  <2> QED BY <2>1, <2>2
<1> QED BY <1>5, <1>6

LEMMA BackedHolds ==
  ASSUME TunnelOK(State)
  PROVE  OpenedKnown /\ OpenIsBacked /\ (~EarlyAck => FakeNeverSends)
<1>1. PICK s : s = State
  OBVIOUS
<1>2. /\ TunnelOK(s) /\ s.conn = conn /\ s.byClient = byClient /\ s.byServer = byServer /\ s.lsn = lsn /\ s.ups = ups
  BY <1>1, StateIs, Zenon DEF TunnelOK
<1>3. ASSUME NEW x \in Sids, ups[x].st \in {"opening", "aborting"}
      PROVE  byServer[x] # NON /\ conn[byServer[x]].up = ups[x].u
  <2>1. SrvOK(s, x)
    BY <1>2, Zenon DEF TunnelOK
  <2>2. s.byServer[x] # NON
    BY <1>2, <1>3, <2>1 DEF SrvOK
  <2>3. s.byServer[x] \in Objs /\ s.conn[s.byServer[x]] # NON /\ s.conn[s.byServer[x]].sid = x
    BY <1>2, <2>2, ServerFiled
  <2>4. ObjOK(s, s.byServer[x]) /\ x # NON
    BY <1>2, <2>3, Apartness, Zenon DEF TunnelOK
  <2> QED BY <1>2, <2>2, <2>3, <2>4, Zenon DEF ObjOK
<1>4. ASSUME NEW c \in Cids, lsn[c].st = "open", byClient[c] # NON
      PROVE  conn[byClient[c]].sid # NON /\ byServer[conn[byClient[c]].sid] = byClient[c]
  <2>1. CliOK(s, c)
    BY <1>2, Zenon DEF TunnelOK
  <2> QED BY <1>2, <1>4, <2>1 DEF CliOK, CliBacked
<1>5. ASSUME ~EarlyAck, NEW c \in Cids, byClient[c] # NON, lsn[c].st = "open", conn[byClient[c]].up = "fake",
             conn[byClient[c]].st = "CONNECTED"
      PROVE  conn[byClient[c]].fakec
  <2>1. s.byClient[c] # NON
    BY <1>2, <1>5
  <2>2. s.byClient[c] \in Objs /\ s.conn[s.byClient[c]] # NON /\ s.conn[s.byClient[c]].cid = c /\ c # NON
    BY <1>2, <2>1, SettledOf, Apartness
  <2>3. FakeOK(s, s.byClient[c])
    BY <1>2, <1>5, <2>2, Zenon DEF TunnelOK
  <2> QED BY <1>2, <1>5, <2>2, <2>3 DEF FakeOK
<1>6. OpenedKnown
  BY <1>3 DEF OpenedKnown
<1>7. OpenIsBacked
  BY <1>4, Zenon DEF OpenIsBacked
<1>8. ~EarlyAck => FakeNeverSends
  BY <1>5, Zenon DEF FakeNeverSends
<1> QED BY <1>6, <1>7, <1>8

\* The invariant of the tunnel is inductive.
THEOREM TunnelInvariant == Spec => []TunnelOK(State)
<1>1. Init => TunnelOK(State)
  BY InitOK
<1>2. TunnelOK(State) /\ [Next]_vars => TunnelOK(State)'
  BY NextOK
<1> QED BY <1>1, <1>2, PTL DEF Spec

\* For any number of clients, of server ids and of packets, in both modes and with any of the
\* options: whatever order the listener's, the upstreams' and the application's events come in, the
\* two tables of Tunnel name live connections under the ids they carry, and every live connection but the
\* source of a migration is found in one of them (add_connection, destroy_connection, the migration).
THEOREM TablesStayInStep == Spec => []TablesAgree
<1>1. TunnelOK(State) => TablesAgree
  BY TablesAgreeHolds
<1> QED BY <1>1, TunnelInvariant, PTL

\* For any number of clients and of packets: what a TCP client has sent reaches the wire in order and
\* without a gap, or waits in the one buffer that is drained next, through the lookup of its domain,
\* partial sends and any number of migrations (client READ, send_buffered_data, initiate_connection_migration).
THEOREM ClientBytesInOrder == Spec => []BytesInOrder
<1>1. TunnelOK(State) => BytesInOrder
  BY BytesInOrderHolds
<1> QED BY <1>1, TunnelInvariant, PTL

\* With exclusions_tcp_early_ack_enabled off: the tunnel knows every connection that an upstream
\* still has to open, an established client is backed by a server connection, and the fake upstream is
\* never asked to send (the asserts of SERVER_EVENT_CONNECTION_OPENED and of FakeUpstream::send).
THEOREM BothSidesOpen == ~EarlyAck => (Spec => []OpenOnBothSides)
<1>1. SUFFICES ASSUME ~EarlyAck PROVE Spec => []OpenOnBothSides
  OBVIOUS
<1>2. TunnelOK(State) => OpenOnBothSides
  BY <1>1, BackedHolds DEF OpenOnBothSides
<1> QED BY <1>2, TunnelInvariant, PTL

\* The first two of these hold with the option on as well.
THEOREM OpenIsKnownAndBacked == Spec => [](OpenedKnown /\ OpenIsBacked)
<1>1. TunnelOK(State) => OpenedKnown /\ OpenIsBacked
  BY BackedHolds
<1> QED BY <1>1, TunnelInvariant, PTL
=============================================================================
