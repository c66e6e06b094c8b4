--------------------------- MODULE TunDeviceProofs ---------------------------
(***************************************************************************)
(* Proofs about the flows and the echo requests behind the TUN device, for *)
(* any flows, queue limit and bounds: the data of a connection reaches the *)
(* tunnel in order and is not left in the listener, and an echo request    *)
(* that waits has the attempt that ends it.                                *)
(***************************************************************************)
EXTENDS TunDevice, SequenceTheorems, FiniteSetTheorems, TLAPS

-----------------------------------------------------------------------------
(* Sequences of packets.                                                   *)

Ascending(s) == \A i \in 1..(Len(s) - 1) : s[i] < s[i + 1]
Sorted(s) == \A i, j \in 1..Len(s) : i < j => s[i] < s[j]

\* One packet more, which is taken or kept, or refused.
LEMMA OneMore ==
  ASSUME NEW s \in Seq(Nat), NEW n \in Nat, NEW r \in Nat, InOrderBut(s, n, r)
  PROVE  InOrderBut(Append(s, n + 1), n + 1, r) /\ InOrderBut(s, n + 1, r + 1)
<1> DEFINE w == Append(s, n + 1)
<1>1. Len(s) \in Nat /\ \A i \in 1..Len(s) : s[i] \in Nat
  BY ElementOfSeq, LenProperties, Zenon
<1>2. /\ Len(w) = Len(s) + 1 /\ w[Len(s) + 1] = n + 1 /\ \A i \in 1..Len(s) : w[i] = s[i]
  BY <1>1, AppendProperties, SMT
<1> HIDE DEF w
<1>3. /\ \A i \in 1..(Len(s) - 1) : s[i] < s[i + 1]
      /\ \A i \in 1..Len(s) : s[i] \in 1..n
      /\ Len(s) + r = n
  BY DEF InOrderBut
<1>4. \A i \in 1..Len(w) : w[i] \in 1..(n + 1)
  BY <1>1, <1>2, <1>3, SMT
<1>5. \A i \in 1..(Len(w) - 1) : w[i] < w[i + 1]
  BY <1>1, <1>2, <1>3, SMT
<1>6. Len(w) + r = n + 1 /\ Len(s) + (r + 1) = n + 1 /\ \A i \in 1..Len(s) : s[i] \in 1..(n + 1)
  BY <1>1, <1>2, <1>3, SMT
<1> QED BY <1>3, <1>4, <1>5, <1>6, Zenon DEF InOrderBut, w

\* A queue that is taken in two parts is taken whole.
LEMMA TakenInParts ==
  ASSUME NEW g \in Seq(Nat), NEW q \in Seq(Nat), NEW k \in 0..Len(q)
  PROVE  /\ SubSeq(q, 1, k) \in Seq(Nat) /\ SubSeq(q, k + 1, Len(q)) \in Seq(Nat)
         /\ g \o SubSeq(q, 1, k) \in Seq(Nat)
         /\ (g \o SubSeq(q, 1, k)) \o SubSeq(q, k + 1, Len(q)) = g \o q
         /\ Len(SubSeq(q, k + 1, Len(q))) = Len(q) - k
<1>1. Len(q) \in Nat /\ \A i \in 1..Len(q) : q[i] \in Nat
  BY ElementOfSeq, LenProperties, Zenon
<1>2. SubSeq(q, 1, k) \in Seq(Nat)
  BY <1>1, SubSeqProperties, SMT
<1>3. SubSeq(q, k + 1, Len(q)) \in Seq(Nat) /\ Len(SubSeq(q, k + 1, Len(q))) = Len(q) - k
  BY <1>1, SubSeqProperties, SMT
<1>4. SubSeq(q, 1, k) \o SubSeq(q, k + 1, Len(q)) = q
  <2>1. 1 \in 1..(Len(q) + 1) /\ k \in (1 - 1)..Len(q) /\ Len(q) \in k..Len(q)
    BY <1>1, SMT
  <2>2. SubSeq(q, 1, k) \o SubSeq(q, k + 1, Len(q)) = SubSeq(q, 1, Len(q))
    BY <2>1, ConcatAdjacentSubSeq, Zenon
  <2> QED BY <2>2, SubSeqFull, Zenon
<1>5. g \o SubSeq(q, 1, k) \in Seq(Nat)
  BY <1>2, ConcatProperties, Zenon
<1>6. (g \o SubSeq(q, 1, k)) \o SubSeq(q, k + 1, Len(q)) = g \o (SubSeq(q, 1, k) \o SubSeq(q, k + 1, Len(q)))
  <2> DEFINE a == SubSeq(q, 1, k)
             b == SubSeq(q, k + 1, Len(q))
  <2>1. a \in Seq(Nat) /\ b \in Seq(Nat)
    BY <1>2, <1>3
  <2> HIDE DEF a, b
  <2>2. (g \o a) \o b = g \o (a \o b)
    BY <2>1, ConcatAssociative, SMTT(30)
  <2> QED BY <2>2 DEF a, b
<1> QED BY <1>2, <1>3, <1>4, <1>5, <1>6

\* A packet at the end of what is kept is at the end of the whole.
LEMMA AppendedAtEnd ==
  ASSUME NEW g \in Seq(Nat), NEW q \in Seq(Nat), NEW e \in Nat
  PROVE  g \o Append(q, e) = Append(g \o q, e) /\ Append(q, e) \in Seq(Nat)
<1>1. <<e>> \in Seq(Nat) /\ Append(q, e) \in Seq(Nat) /\ g \o q \in Seq(Nat)
  BY AppendProperties, ConcatProperties, SMT
<1>2. Append(q, e) = q \o <<e>> /\ Append(g \o q, e) = (g \o q) \o <<e>>
  BY <1>1, AppendIsConcat, Zenon
<1>3. (g \o q) \o <<e>> = g \o (q \o <<e>>)
  BY <1>1, ConcatAssociative, SMT
<1> QED BY <1>1, <1>2, <1>3

\* The last packet of a queue is not taken and given up: the rest, without it, is the queue without it.
LEMMA LastGivenUp ==
  ASSUME NEW q \in Seq(Nat), NEW e \in Nat, NEW k \in 0..Len(q)
  PROVE  LET all == Append(q, e)
             rest == SubSeq(all, k + 1, Len(all))
         IN  /\ SubSeq(rest, 1, Len(rest) - 1) = SubSeq(q, k + 1, Len(q))
             /\ SubSeq(all, 1, k) = SubSeq(q, 1, k)
<1> DEFINE all == Append(q, e)
           rest == SubSeq(all, k + 1, Len(all))
<1>1. /\ all \in Seq(Nat) /\ Len(all) = Len(q) + 1 /\ Len(q) \in Nat
      /\ \A i \in 1..Len(q) : all[i] = q[i] /\ q[i] \in Nat /\ all[i] \in Nat
  BY AppendProperties, LenProperties, ElementOfSeq, SMT
<1>2. \A i \in 1..Len(all) : all[i] \in Nat
  BY <1>1, ElementOfSeq, Zenon
<1> HIDE DEF all
<1>3. /\ rest \in Seq(Nat) /\ Len(rest) = Len(q) + 1 - k
      /\ \A i \in 1..Len(q) + 1 - k : rest[i] = all[k + i]
  BY <1>1, <1>2, SubSeqProperties, SMT
<1> HIDE DEF rest
<1> DEFINE a == SubSeq(rest, 1, Len(rest) - 1)
           b == SubSeq(q, k + 1, Len(q))
<1>4. a \in Seq(Nat) /\ Len(a) = Len(q) - k /\ \A i \in 1..(Len(q) - k) : a[i] = rest[i]
  <2>1. \A i \in 1..(Len(rest) - 1) : rest[i] \in Nat
    <3>1. \A i \in 1..Len(rest) : rest[i] \in Nat
      BY <1>3, ElementOfSeq, Zenon
    <3>2. Len(rest) \in Nat
      BY <1>3, LenProperties, Zenon
    <3> QED BY <3>1, <3>2, SMT
  <2> QED BY <1>1, <1>3, <2>1, SubSeqProperties, SMT
<1>5. b \in Seq(Nat) /\ Len(b) = Len(q) - k /\ \A i \in 1..(Len(q) - k) : b[i] = q[k + i]
  <2>1. Len(q) \in Nat /\ \A i \in 1..Len(q) : q[i] \in Nat
    BY <1>1, Zenon
  <2>2. b \in Seq(Nat) /\ Len(b) = Len(q) - k
    BY ONLY <2>1, k \in 0..Len(q), SubSeqProperties, SMT DEF b
  <2>3. \A i \in 1..(Len(q) - k) : b[i] = q[k + i]
    BY ONLY <2>1, k \in 0..Len(q), SubSeqProperties, SMT DEF b
  <2> QED BY <2>2, <2>3
<1> HIDE DEF a, b
<1>6. ASSUME NEW i \in 1..(Len(q) - k) PROVE a[i] = b[i]
  <2>1. i \in 1..Len(q) + 1 - k /\ k + i \in 1..Len(q)
    BY <1>1, SMT
  <2>2. a[i] = rest[i] /\ rest[i] = all[k + i] /\ all[k + i] = q[k + i] /\ b[i] = q[k + i]
    BY <1>1, <1>3, <1>4, <1>5, <2>1, Zenon
  <2> QED BY <2>2
<1>7. a = b
  <2>1. Len(a) = Len(b) /\ \A i \in 1..Len(a) : a[i] = b[i]
    BY <1>4, <1>5, <1>6, Zenon
  <2> QED BY <1>4, <1>5, <2>1, SeqEqual, Zenon
<1> DEFINE c == SubSeq(all, 1, k)
           d == SubSeq(q, 1, k)
<1>8. c \in Seq(Nat) /\ Len(c) = k /\ \A i \in 1..k : c[i] = all[i]
  BY <1>1, <1>2, SubSeqProperties, SMT
<1>9. d \in Seq(Nat) /\ Len(d) = k /\ \A i \in 1..k : d[i] = q[i]
  BY <1>1, SubSeqProperties, SMT
<1> HIDE DEF c, d
<1>10. c = d
  <2>1. \A i \in 1..k : c[i] = d[i]
    <3>1. 1..k \subseteq 1..Len(q)
      BY <1>1, SMT
    <3> QED BY <1>1, <1>8, <1>9, <3>1, Zenon
  <2>2. Len(c) = Len(d) /\ \A i \in 1..Len(c) : c[i] = d[i]
    BY <1>8, <1>9, <2>1, Zenon
  <2> QED BY <1>8, <1>9, <2>2, SeqEqual, Zenon
<1> QED BY <1>7, <1>10 DEF all, rest, a, b, c, d

-----------------------------------------------------------------------------
(* The flows.                                                              *)

Connection ==
    [reads : BOOLEAN, closing : BOOLEAN, unread : Seq(Nat), sched : Nat, readTask : BOOLEAN, closeTask : BOOLEAN]
Descriptor == [st : ConnStates, pend : Seq(Nat)]

\* A TCP connection, of n packets, with the taken ones g: nothing is kept before the client's handshake is over.
Streams(d, c, n, g, t) ==
    /\ InOrderBut(g \o c.unread, n, t)
    /\ c.unread # <<>> => d.st = "accepted"
    /\ c.reads /\ c.unread # <<>> => c.readTask \/ t > 0

\* A UDP connection: the packets that wait and the ones that were taken are some of those that were sent.
Packets(d, c, n, g) ==
    /\ Ascending(g) /\ \A i \in 1..Len(g) : g[i] <= n
    /\ Sorted(d.pend) /\ \A i \in 1..Len(d.pend) : d.pend[i] <= n
    /\ Len(d.pend) <= SndQueueLimit /\ c.unread = <<>>

\* The flow f with its descriptor, its connection, and what it has sent.
FlowOK(f, d, c, n, g, t) ==
    /\ d \in Descriptor /\ c \in Connection \cup {NON} /\ n \in Nat /\ g \in Seq(Nat) /\ t \in Nat
    /\ IF d.st = "none" THEN c = NON
       ELSE c \in Connection /\ IF f \in TcpFlows THEN Streams(d, c, n, g, t) ELSE Packets(d, c, n, g)

StackTyped ==
    /\ desc \in [Flows -> Descriptor] /\ con \in [Flows -> Connection \cup {NON}]
    /\ sent \in [Flows -> Nat] /\ got \in [Flows -> Seq(Nat)] /\ refused \in [Flows -> Nat]

FlowIsOK(f) == FlowOK(f, desc[f], con[f], sent[f], got[f], refused[f])

\* A step that gives the flow f these values and leaves the others alone.
Becomes(f, d, c, n, g, t) ==
    /\ desc' = [desc EXCEPT ![f] = d] /\ con' = [con EXCEPT ![f] = c] /\ sent' = [sent EXCEPT ![f] = n]
    /\ got' = [got EXCEPT ![f] = g] /\ refused' = [refused EXCEPT ![f] = t]

StackOK == StackTyped /\ \A f \in Flows : FlowIsOK(f)

LEMMA ConnectionFields ==
  ASSUME NEW c \in Connection
  PROVE  /\ c.reads \in BOOLEAN /\ c.closing \in BOOLEAN /\ c.unread \in Seq(Nat) /\ c.sched \in Nat
         /\ c.readTask \in BOOLEAN /\ c.closeTask \in BOOLEAN
BY Zenon DEF Connection

LEMMA DescriptorFields ==
  ASSUME NEW d \in Descriptor
  PROVE  d.st \in ConnStates /\ d.pend \in Seq(Nat)
BY Zenon DEF Descriptor

LEMMA NoDescriptor == NoDesc \in Descriptor /\ NoDesc.st = "none" /\ NoDesc.pend = <<>>
<1>1. <<>> \in Seq(Nat)
  BY EmptySeq, Zenon
<1> QED BY <1>1, SMT DEF NoDesc, Descriptor, ConnStates

LEMMA StackInit == Init => StackOK
<1> SUFFICES ASSUME Init PROVE StackOK
  OBVIOUS
<1>1. StackTyped
  BY NoDescriptor, EmptySeq, SMT DEF Init, StackTyped
<1>2. \A f \in Flows : FlowIsOK(f)
  BY <1>1, NoDescriptor, Zenon DEF Init, StackTyped, FlowIsOK, FlowOK
<1> QED BY <1>1, <1>2 DEF StackOK

\* A step that changes one flow.
LEMMA FlowChanged ==
  ASSUME StackOK, NEW f \in Flows, NEW d, NEW c, NEW n, NEW g, NEW t,
         Becomes(f, d, c, n, g, t), FlowOK(f, d, c, n, g, t)
  PROVE  StackOK'
<1>1. StackTyped
  BY DEF StackOK
<1>2. StackTyped'
  BY <1>1, Zenon DEF StackTyped, Becomes, FlowOK
<1>3. ASSUME NEW h \in Flows PROVE FlowIsOK(h)'
  <2>1. CASE h = f
    <3>1. /\ desc'[h] = d /\ con'[h] = c /\ sent'[h] = n /\ got'[h] = g /\ refused'[h] = t
      BY <1>1, <2>1, Zenon DEF StackTyped, Becomes
    <3> QED BY <2>1, <3>1, Zenon DEF FlowIsOK
  <2>2. CASE h # f
    <3>1. /\ desc'[h] = desc[h] /\ con'[h] = con[h] /\ sent'[h] = sent[h] /\ got'[h] = got[h] /\ refused'[h] = refused[h]
      BY <1>1, <2>2, Zenon DEF StackTyped, Becomes
    <3> QED BY <3>1, Zenon DEF StackOK, FlowIsOK
  <2> QED BY <2>1, <2>2
<1> QED BY <1>2, <1>3 DEF StackOK

\* What a step leaves alone it may be said to leave alone at one flow.
LEMMA SameAtFlow ==
  ASSUME StackOK, NEW f \in Flows
  PROVE  /\ desc' = desc => desc' = [desc EXCEPT ![f] = desc[f]]
         /\ con' = con => con' = [con EXCEPT ![f] = con[f]]
         /\ sent' = sent => sent' = [sent EXCEPT ![f] = sent[f]]
         /\ got' = got => got' = [got EXCEPT ![f] = got[f]]
         /\ refused' = refused => refused' = [refused EXCEPT ![f] = refused[f]]
         /\ desc[f] \in Descriptor /\ con[f] \in Connection \cup {NON} /\ sent[f] \in Nat /\ got[f] \in Seq(Nat)
         /\ refused[f] \in Nat /\ FlowIsOK(f)
<1>1. StackTyped /\ FlowIsOK(f)
  BY DEF StackOK
<1>2. /\ desc = [desc EXCEPT ![f] = desc[f]] /\ con = [con EXCEPT ![f] = con[f]]
      /\ sent = [sent EXCEPT ![f] = sent[f]]
  BY <1>1, SMT DEF StackTyped
<1>3. got = [got EXCEPT ![f] = got[f]] /\ refused = [refused EXCEPT ![f] = refused[f]]
  BY <1>1, SMT DEF StackTyped
<1> QED BY <1>1, <1>2, <1>3, Zenon DEF StackTyped

LEMMA DescriptorClosed ==
  ASSUME StackOK, NEW f \in Flows, CloseDescriptor(f)
  PROVE  StackOK'
<1>1. /\ desc' = [desc EXCEPT ![f] = NoDesc] /\ con' = [con EXCEPT ![f] = NON]
      /\ sent' = sent /\ got' = got /\ refused' = refused
  BY DEF CloseDescriptor
<1>2. Becomes(f, NoDesc, NON, sent[f], got[f], refused[f])
  BY <1>1, SameAtFlow, Zenon DEF Becomes
<1>3. FlowOK(f, NoDesc, NON, sent[f], got[f], refused[f])
  BY NoDescriptor, SameAtFlow, Zenon DEF FlowOK
<1> QED BY <1>2, <1>3, FlowChanged, Zenon

\* A step that only changes the connection of a flow.
LEMMA ConnectionChanged ==
  ASSUME StackOK, NEW f \in Flows, NEW c \in Connection, con' = [con EXCEPT ![f] = c],
         UNCHANGED <<desc, sent, got, refused>>, desc[f].st # "none",
         c.unread = con[f].unread, c.reads /\ c.unread # <<>> => c.readTask \/ (con[f].reads /\ (con[f].readTask => c.readTask))
  PROVE  StackOK'
<1>1. Becomes(f, desc[f], c, sent[f], got[f], refused[f])
  BY SameAtFlow, Zenon DEF Becomes
<1>2. FlowOK(f, desc[f], con[f], sent[f], got[f], refused[f])
  BY SameAtFlow, Zenon DEF FlowIsOK
<1>3. FlowOK(f, desc[f], c, sent[f], got[f], refused[f])
  <2>1. CASE f \in TcpFlows
    BY <1>2, <2>1, Zenon DEF Streams, FlowOK
  <2>2. CASE f \notin TcpFlows
    BY <1>2, <2>2, Zenon DEF Packets, FlowOK
  <2> QED BY <2>1, <2>2
<1> QED BY <1>1, <1>3, FlowChanged, Zenon

\* What is known of a flow that has a descriptor.
LEMMA FlowKnown ==
  ASSUME StackOK, NEW f \in Flows, desc[f].st # "none"
  PROVE  /\ con[f] \in Connection /\ sent[f] \in Nat /\ got[f] \in Seq(Nat) /\ refused[f] \in Nat
         /\ desc[f] \in Descriptor
         /\ IF f \in TcpFlows THEN Streams(desc[f], con[f], sent[f], got[f], refused[f])
            ELSE Packets(desc[f], con[f], sent[f], got[f])
BY SameAtFlow, Zenon DEF FlowIsOK, FlowOK

LEMMA NoneIsEmpty ==
  /\ <<>> \in Seq(Nat) /\ Len(<<>>) = 0 /\ << 1 >> \in Seq(Nat) /\ Len(<< 1 >>) = 1 /\ << 1 >>[1] = 1
  /\ Ascending(<<>>) /\ Sorted(<<>>) /\ Sorted(<< 1 >>) /\ InOrderBut(<<>>, 0, 0) /\ <<>> \o <<>> = <<>>
<1>1. <<>> \in Seq(Nat) /\ Len(<<>>) = 0
  BY EmptySeq, SMT
<1>2. << 1 >> \in Seq(Nat) /\ Len(<< 1 >>) = 1 /\ << 1 >>[1] = 1
  BY SMT
<1>3. Ascending(<<>>) /\ Sorted(<<>>) /\ Sorted(<< 1 >>)
  BY <1>1, <1>2, SMT DEF Ascending, Sorted
<1>4. InOrderBut(<<>>, 0, 0)
  BY <1>1, SMT DEF InOrderBut
<1>5. <<>> \o <<>> = <<>>
  BY <1>1, ConcatEmptySeq, Zenon
<1> QED BY <1>1, <1>2, <1>3, <1>4, <1>5

LEMMA NewIsConnection ==
  NewConnection \in Connection /\ NewConnection.unread = <<>> /\ NewConnection.reads = FALSE
<1>1. <<>> \in Seq(Nat)
  BY EmptySeq, Zenon
<1> QED BY <1>1, SMT DEF NewConnection, Connection

LEMMA ConnectionRequested ==
  ASSUME StackOK, NEW f \in Flows, NEW pend, RequestConnection(f, pend),
         IF f \in TcpFlows THEN pend = <<>> ELSE pend = << 1 >>
  PROVE  StackOK'
<1> DEFINE d == [st |-> "requested", pend |-> pend]
<1>1. pend \in Seq(Nat)
  BY NoneIsEmpty, Zenon
<1>2. d \in Descriptor /\ d.st = "requested" /\ d.pend = pend
  BY <1>1, SMT DEF Descriptor, ConnStates
<1>3. Becomes(f, d, NewConnection, Len(pend), <<>>, 0)
  BY Zenon DEF RequestConnection, Becomes
<1> HIDE DEF d
<1>4. Len(pend) \in Nat
  BY <1>1, LenProperties, Zenon
<1>5. CASE f \in TcpFlows
  <2>1. Streams(d, NewConnection, Len(pend), <<>>, 0)
    BY <1>2, <1>5, NoneIsEmpty, NewIsConnection, Zenon DEF Streams
  <2> QED BY <1>2, <1>3, <1>4, <1>5, <2>1, NewIsConnection, NoneIsEmpty, FlowChanged, Zenon DEF FlowOK
<1>6. CASE f \notin TcpFlows
  <2>1. pend = << 1 >> /\ Len(pend) = 1 /\ Sorted(pend) /\ Ascending(<<>>) /\ Len(<<>>) = 0 /\ pend[1] = 1
    BY <1>6, NoneIsEmpty, Zenon
  <2>2. SndQueueLimit \in Nat /\ Len(pend) <= SndQueueLimit
    BY <2>1, StackAssumption, SMT
  <2>3. (\A i \in 1..Len(<<>>) : <<>>[i] <= Len(pend)) /\ \A i \in 1..Len(pend) : pend[i] <= Len(pend)
    <3>1. \A i \in 1..Len(pend) : i = 1
      BY <2>1, SMT
    <3>2. \A i \in 1..Len(<<>>) : FALSE
      BY <2>1, SMT
    <3>3. pend[1] <= Len(pend)
      BY <2>1, SMT
    <3> QED BY <3>1, <3>2, <3>3, Zenon
  <2>4. Packets(d, NewConnection, Len(pend), <<>>)
    BY <1>2, <2>1, <2>2, <2>3, NewIsConnection, Zenon DEF Packets
  <2> QED BY <1>2, <1>3, <1>4, <1>6, <2>4, NewIsConnection, NoneIsEmpty, FlowChanged, Zenon DEF FlowOK
<1> QED BY <1>5, <1>6

\* The client's handshake is over: nothing was kept before.
LEMMA TcpAccepted ==
  ASSUME StackOK, NEW f \in Flows, TcpAccept(f)
  PROVE  StackOK'
<1>1. PICK on \in BOOLEAN : con' = [con EXCEPT ![f].reads = on]
  BY DEF TcpAccept
<1>2. /\ desc[f].st = "have_result" /\ desc' = [desc EXCEPT ![f].st = "accepted"] /\ sent' = sent /\ got' = got /\ refused' = refused
  BY DEF TcpAccept
<1>3. desc[f].st # "none"
  BY <1>2
<1> DEFINE c == [con[f] EXCEPT !.reads = on]
           d == [desc[f] EXCEPT !.st = "accepted"]
<1>4. /\ con[f] \in Connection /\ desc[f] \in Descriptor
      /\ IF f \in TcpFlows THEN Streams(desc[f], con[f], sent[f], got[f], refused[f])
         ELSE Packets(desc[f], con[f], sent[f], got[f])
  BY <1>3, FlowKnown, Zenon
<1>5. c \in Connection /\ c.unread = con[f].unread /\ c.reads = on /\ c.readTask = con[f].readTask
  BY <1>4, Zenon DEF Connection
<1>6. d \in Descriptor /\ d.st = "accepted" /\ d.pend = desc[f].pend
  BY <1>4, SMT DEF Descriptor, ConnStates
<1>7. Becomes(f, d, c, sent[f], got[f], refused[f])
  BY <1>1, <1>2, SameAtFlow, Zenon DEF Becomes
<1> HIDE DEF c, d
<1>8. FlowOK(f, d, c, sent[f], got[f], refused[f])
  <2>1. sent[f] \in Nat /\ got[f] \in Seq(Nat) /\ refused[f] \in Nat
    BY SameAtFlow, Zenon
  <2>2. CASE f \in TcpFlows
    <3>1. con[f].unread = <<>>
      BY <1>2, <1>4, <2>2, Zenon DEF Streams
    <3>2. Streams(d, c, sent[f], got[f], refused[f])
      BY <1>4, <1>5, <1>6, <2>2, <3>1, Zenon DEF Streams
    <3> QED BY <1>5, <1>6, <2>1, <2>2, <3>2, Zenon DEF FlowOK
  <2>3. CASE f \notin TcpFlows
    <3>1. Packets(d, c, sent[f], got[f])
      BY <1>4, <1>5, <1>6, <2>3, Zenon DEF Packets
    <3> QED BY <1>5, <1>6, <2>1, <2>3, <3>1, Zenon DEF FlowOK
  <2> QED BY <2>2, <2>3
<1> QED BY <1>7, <1>8, FlowChanged, Zenon

\* A step that only changes the state of a descriptor, to one before the client's handshake is over.
LEMMA StateChanged ==
  ASSUME StackOK, NEW f \in Flows, NEW st \in ConnStates, st # "none", desc[f].st \notin {"none", "accepted"},
         desc' = [desc EXCEPT ![f].st = st], UNCHANGED <<con, sent, got, refused>>
  PROVE  StackOK'
<1> DEFINE d == [desc[f] EXCEPT !.st = st]
<1>1. /\ con[f] \in Connection /\ desc[f] \in Descriptor
      /\ IF f \in TcpFlows THEN Streams(desc[f], con[f], sent[f], got[f], refused[f])
         ELSE Packets(desc[f], con[f], sent[f], got[f])
  BY FlowKnown, Zenon
<1>2. d \in Descriptor /\ d.st = st /\ d.pend = desc[f].pend
  BY <1>1, Zenon DEF Descriptor
<1>3. Becomes(f, d, con[f], sent[f], got[f], refused[f])
  BY SameAtFlow, Zenon DEF Becomes
<1> HIDE DEF d
<1>4. FlowOK(f, d, con[f], sent[f], got[f], refused[f])
  <2>1. sent[f] \in Nat /\ got[f] \in Seq(Nat) /\ refused[f] \in Nat
    BY SameAtFlow, Zenon
  <2>2. CASE f \in TcpFlows
    <3>1. Streams(d, con[f], sent[f], got[f], refused[f])
      BY <1>1, <1>2, <2>2, Zenon DEF Streams
    <3> QED BY <1>1, <1>2, <2>1, <2>2, <3>1, Zenon DEF FlowOK
  <2>3. CASE f \notin TcpFlows
    <3>1. Packets(d, con[f], sent[f], got[f])
      BY <1>1, <1>2, <2>3, Zenon DEF Packets
    <3> QED BY <1>1, <1>2, <2>1, <2>3, <3>1, Zenon DEF FlowOK
  <2> QED BY <2>2, <2>3
<1> QED BY <1>3, <1>4, FlowChanged, Zenon

\* The packet n + 1 of a connection joins packets that came before it.
LEMMA JoinedAtEnd ==
  ASSUME NEW s \in Seq(Nat), NEW n \in Nat, \A i \in 1..Len(s) : s[i] <= n
  PROVE  /\ Append(s, n + 1) \in Seq(Nat) /\ Len(Append(s, n + 1)) = Len(s) + 1
         /\ \A i \in 1..Len(Append(s, n + 1)) : Append(s, n + 1)[i] <= n + 1
         /\ Ascending(s) => Ascending(Append(s, n + 1))
         /\ Sorted(s) => Sorted(Append(s, n + 1))
<1> DEFINE a == Append(s, n + 1)
<1>1. /\ a \in Seq(Nat) /\ Len(a) = Len(s) + 1 /\ Len(s) \in Nat
      /\ a[Len(s) + 1] = n + 1 /\ \A i \in 1..Len(s) : a[i] = s[i] /\ s[i] \in Nat
  BY AppendProperties, LenProperties, ElementOfSeq, SMT
<1> HIDE DEF a
<1>2. \A i \in 1..Len(a) : a[i] <= n + 1
  BY <1>1, SMTT(30)
<1>3. ASSUME Ascending(s) PROVE Ascending(a)
  <2> SUFFICES ASSUME NEW i \in 1..(Len(a) - 1) PROVE a[i] < a[i + 1]
    BY DEF Ascending
  <2>1. i \in 1..Len(s) /\ (i # Len(s) => i \in 1..(Len(s) - 1) /\ i + 1 \in 1..Len(s))
    BY <1>1, SMT
  <2>2. CASE i = Len(s)
    BY <1>1, <2>1, <2>2, SMT
  <2>3. CASE i # Len(s)
    BY <1>1, <1>3, <2>1, <2>3, SMT DEF Ascending
  <2> QED BY <2>2, <2>3
<1>4. ASSUME Sorted(s) PROVE Sorted(a)
  <2> SUFFICES ASSUME NEW i \in 1..Len(a), NEW j \in 1..Len(a), i < j PROVE a[i] < a[j]
    BY DEF Sorted
  <2>1. i \in 1..Len(s) /\ (j # Len(s) + 1 => j \in 1..Len(s))
    <3>1. Len(a) = Len(s) + 1 /\ Len(s) \in Nat
      BY <1>1
    <3> QED BY ONLY <3>1, i \in 1..Len(a), j \in 1..Len(a), i < j, SMT
  <2>2. CASE j = Len(s) + 1
    BY <1>1, <2>1, <2>2, SMT
  <2>3. CASE j # Len(s) + 1
    BY <1>1, <1>4, <2>1, <2>3, SMT DEF Sorted
  <2> QED BY <2>2, <2>3
<1> QED BY <1>1, <1>2, <1>3, <1>4 DEF a

\* Packets that are dropped leave the others in order.
LEMMA SomeTaken ==
  ASSUME NEW q \in Seq(Nat), NEW n \in Nat, Sorted(q), \A i \in 1..Len(q) : q[i] <= n, NEW s \in Subsequences(q)
  PROVE  s \in Seq(Nat) /\ Ascending(s) /\ \A i \in 1..Len(s) : s[i] <= n
<1>1. PICK m \in 0..Len(q) : s \in {[i \in 1..m |-> q[at[i]]] :
                 at \in {h \in [1..m -> 1..Len(q)] : \A i \in 1..(m - 1) : h[i] < h[i + 1]}}
  BY Zenon DEF Subsequences
<1>2. PICK at \in {h \in [1..m -> 1..Len(q)] : \A i \in 1..(m - 1) : h[i] < h[i + 1]} : s = [i \in 1..m |-> q[at[i]]]
  BY <1>1, Zenon
<1>3. at \in [1..m -> 1..Len(q)] /\ \A i \in 1..(m - 1) : at[i] < at[i + 1]
  BY <1>2, Zenon
<1>4. Len(q) \in Nat /\ m \in Nat /\ \A i \in 1..Len(q) : q[i] \in Nat
  BY LenProperties, ElementOfSeq, SMT
<1>5. \A i \in 1..m : at[i] \in 1..Len(q) /\ q[at[i]] \in Nat /\ s[i] = q[at[i]] /\ q[at[i]] <= n
  BY <1>2, <1>3, <1>4, Zenon
<1>6. s \in Seq(Nat) /\ Len(s) = m
  BY <1>2, <1>4, <1>5, SMT
<1>7. Ascending(s)
  <2> SUFFICES ASSUME NEW i \in 1..(m - 1) PROVE s[i] < s[i + 1]
    BY <1>6 DEF Ascending
  <2>1. i \in 1..m /\ i + 1 \in 1..m
    BY <1>4, SMT
  <2>2. at[i] \in 1..Len(q) /\ at[i + 1] \in 1..Len(q) /\ at[i] < at[i + 1] /\ s[i] = q[at[i]] /\ s[i + 1] = q[at[i + 1]]
    BY <1>3, <1>5, <2>1, Zenon
  <2> QED BY <2>2, Zenon DEF Sorted
<1> QED BY <1>5, <1>6, <1>7, Zenon

\* The steps that only change flags of a connection, or what is on its way to the client.
LEMMA FlagsChanged ==
  ASSUME StackOK, NEW f \in Flows, con[f] \in Connection, desc[f].st # "none", UNCHANGED <<desc, sent, got, refused>>,
         \/ ClientAcks(f)
         \/ con' = [con EXCEPT ![f].closing = TRUE] \/ con' = [con EXCEPT ![f].closeTask = TRUE]
         \/ con' = [con EXCEPT ![f].sched = @ + 1]
         \/ \E on \in BOOLEAN : TurnRead(f, on)
         \/ ~con[f].reads /\ con' = [con EXCEPT ![f].readTask = FALSE]
  PROVE  StackOK'
<1>1. /\ con[f].reads \in BOOLEAN /\ con[f].closing \in BOOLEAN /\ con[f].unread \in Seq(Nat) /\ con[f].sched \in Nat
      /\ con[f].readTask \in BOOLEAN /\ con[f].closeTask \in BOOLEAN
  BY ConnectionFields, Zenon
<1>2. CASE ClientAcks(f)
  <2>1. PICK n \in 0..con[f].sched : DataSent(f, n)
    BY <1>2 DEF ClientAcks
  <2> DEFINE c == [con[f] EXCEPT !.sched = @ - n, !.closeTask = @ \/ (con[f].closing /\ con[f].sched = n)]
  <2>2. con[f].sched - n \in Nat
    BY <1>1, SMT
  <2>3. c \in Connection /\ c.unread = con[f].unread /\ c.reads = con[f].reads /\ c.readTask = con[f].readTask
    BY <1>1, <2>2, Zenon DEF Connection
  <2>4. con' = [con EXCEPT ![f] = c]
    BY <2>1, Zenon DEF DataSent
  <2> QED BY <2>3, <2>4, ConnectionChanged, Zenon
<1>3. CASE con' = [con EXCEPT ![f].closing = TRUE]
  <2> DEFINE c == [con[f] EXCEPT !.closing = TRUE]
  <2>1. c \in Connection /\ c.unread = con[f].unread /\ c.reads = con[f].reads /\ c.readTask = con[f].readTask
    BY Zenon DEF Connection
  <2>2. con' = [con EXCEPT ![f] = c]
    BY <1>3, Zenon
  <2> QED BY <2>1, <2>2, ConnectionChanged, Zenon
<1>4. CASE con' = [con EXCEPT ![f].closeTask = TRUE]
  <2> DEFINE c == [con[f] EXCEPT !.closeTask = TRUE]
  <2>1. c \in Connection /\ c.unread = con[f].unread /\ c.reads = con[f].reads /\ c.readTask = con[f].readTask
    BY Zenon DEF Connection
  <2>2. con' = [con EXCEPT ![f] = c]
    BY <1>4, Zenon
  <2> QED BY <2>1, <2>2, ConnectionChanged, Zenon
<1>5. CASE con' = [con EXCEPT ![f].sched = @ + 1]
  <2> DEFINE c == [con[f] EXCEPT !.sched = @ + 1]
  <2>1. con[f].sched + 1 \in Nat
    BY <1>1, SMT
  <2>2. c \in Connection /\ c.unread = con[f].unread /\ c.reads = con[f].reads /\ c.readTask = con[f].readTask
    BY <2>1, Zenon DEF Connection
  <2>3. con' = [con EXCEPT ![f] = c]
    BY <1>5, Zenon
  <2> QED BY <2>2, <2>3, ConnectionChanged, Zenon
<1>6. ASSUME NEW on \in BOOLEAN, TurnRead(f, on) PROVE StackOK'
  <2> DEFINE c == [con[f] EXCEPT !.reads = on, !.readTask = @ \/ (on /\ ~con[f].reads /\ con[f].unread # <<>>)]
  <2>1. /\ c \in Connection /\ c.unread = con[f].unread /\ c.reads = on
        /\ c.readTask = (con[f].readTask \/ (on /\ ~con[f].reads /\ con[f].unread # <<>>))
    BY <1>1, Zenon DEF Connection
  <2>2. con' = [con EXCEPT ![f] = c]
    BY <1>6, Zenon DEF TurnRead
  <2> HIDE DEF c
  <2>3. c.reads /\ c.unread # <<>> => c.readTask \/ (con[f].reads /\ (con[f].readTask => c.readTask))
    BY <1>1, <2>1, Zenon
  <2> QED BY <2>1, <2>2, <2>3, ConnectionChanged, Zenon
<1>7. CASE ~con[f].reads /\ con' = [con EXCEPT ![f].readTask = FALSE]
  <2> DEFINE c == [con[f] EXCEPT !.readTask = FALSE]
  <2>1. c \in Connection /\ c.unread = con[f].unread /\ c.reads = con[f].reads
    BY Zenon DEF Connection
  <2>2. con' = [con EXCEPT ![f] = c]
    BY <1>7, Zenon
  <2> QED BY <1>7, <2>1, <2>2, ConnectionChanged, Zenon
<1> QED BY <1>2, <1>3, <1>4, <1>5, <1>6, <1>7

\* A packet of the client: the tunnel takes some of what was kept, and the rest is kept with it.
LEMMA TcpDataRead ==
  ASSUME StackOK, NEW f \in Flows, TcpData(f)
  PROVE  StackOK'
<1>1. /\ f \in TcpFlows /\ desc[f].st = "accepted" /\ sent' = [sent EXCEPT ![f] = sent[f] + 1]
      /\ desc' = desc /\ TcpReceive(f)
  BY Zenon DEF TcpData
<1>2. /\ con[f] \in Connection /\ sent[f] \in Nat /\ got[f] \in Seq(Nat) /\ desc[f] \in Descriptor
      /\ refused[f] \in Nat /\ InOrderBut(got[f] \o con[f].unread, sent[f], refused[f])
      /\ con[f].reads /\ con[f].unread # <<>> => con[f].readTask \/ refused[f] > 0
  <2>1. desc[f].st # "none"
    BY <1>1
  <2> QED BY <1>1, <2>1, FlowKnown, Zenon DEF Streams
<1>3. /\ con[f].reads \in BOOLEAN /\ con[f].unread \in Seq(Nat) /\ con[f].readTask \in BOOLEAN
  BY <1>2, ConnectionFields, Zenon
<1> DEFINE n == sent[f] + 1
           q == Append(con[f].unread, n)
<1>4. n \in Nat
  BY <1>2, SMT
<1>5. /\ q \in Seq(Nat) /\ Len(q) = Len(con[f].unread) + 1 /\ Len(con[f].unread) \in Nat
      /\ InOrderBut(got[f] \o q, n, refused[f]) /\ InOrderBut(got[f] \o con[f].unread, n, refused[f] + 1)
  <2>1. got[f] \o q = Append(got[f] \o con[f].unread, n) /\ q \in Seq(Nat)
    BY <1>2, <1>3, <1>4, AppendedAtEnd, Zenon
  <2>2. got[f] \o con[f].unread \in Seq(Nat)
    BY <1>2, <1>3, ConcatProperties, Zenon
  <2>3. Len(q) = Len(con[f].unread) + 1 /\ Len(con[f].unread) \in Nat
    BY <1>3, <1>4, AppendProperties, LenProperties, SMT
  <2> QED BY <1>2, <2>1, <2>2, <2>3, OneMore, Zenon
<1> HIDE DEF q
<1>6. CASE ~con[f].reads
  <2>1. con' = [con EXCEPT ![f].unread = q] /\ got' = got /\ refused' = refused
    BY <1>1, <1>6, Zenon DEF TcpReceive, q
  <2> DEFINE c == [con[f] EXCEPT !.unread = q]
  <2>2. c \in Connection /\ c.unread = q /\ c.reads = FALSE
    BY <1>2, <1>3, <1>5, <1>6, Zenon DEF Connection
  <2>3. Becomes(f, desc[f], c, n, got[f], refused[f])
    BY <1>1, <2>1, SameAtFlow, Zenon DEF Becomes
  <2> HIDE DEF c
  <2>4. Streams(desc[f], c, n, got[f], refused[f])
    BY <1>1, <1>5, <2>2, Zenon DEF Streams
  <2> QED BY <1>1, <1>2, <1>4, <2>2, <2>3, <2>4, FlowChanged, Zenon DEF FlowOK
<1>7. CASE con[f].reads
  <2>1. PICK o \in Offers(q) : TcpRead(f, o)
    BY <1>1, <1>7, Zenon DEF TcpReceive, q
  <2>2. /\ o[1] \in 0..Len(q) /\ o[2] \in {"all", "off", "error"}
        /\ (o[1] = Len(q) => o[2] # "error") /\ (o[1] # Len(q) => o[2] # "all")
    BY <2>1, Zenon DEF Offers
  <2> DEFINE k == o[1]
             rest == SubSeq(q, k + 1, Len(q))
             taken == SubSeq(q, 1, k)
             u == IF o[2] = "error" THEN SubSeq(rest, 1, Len(rest) - 1) ELSE rest
             g == got[f] \o taken
             t == refused[f] + (IF o[2] = "error" THEN 1 ELSE 0)
  <2>3. /\ got' = [got EXCEPT ![f] = g] /\ con' = [con EXCEPT ![f].unread = u, ![f].reads = @ /\ o[2] # "off"]
        /\ refused' = [refused EXCEPT ![f] = t]
    BY <2>1, Zenon DEF TcpRead, q
  <2>4. taken \in Seq(Nat) /\ rest \in Seq(Nat) /\ g \in Seq(Nat) /\ InOrderBut(g \o rest, n, refused[f]) /\ Len(rest) = Len(q) - k
    BY <1>2, <1>5, <2>2, TakenInParts, Zenon
  <2>5. u \in Seq(Nat) /\ InOrderBut(g \o u, n, t)
    <3>1. CASE o[2] = "error"
      <4>1. k \in 0..Len(con[f].unread)
        BY <1>5, <2>2, <3>1, SMT
      <4>2. /\ SubSeq(rest, 1, Len(rest) - 1) = SubSeq(con[f].unread, k + 1, Len(con[f].unread))
            /\ taken = SubSeq(con[f].unread, 1, k)
        BY <1>3, <1>4, <4>1, LastGivenUp, Zenon DEF q
      <4>3. /\ SubSeq(con[f].unread, k + 1, Len(con[f].unread)) \in Seq(Nat)
            /\ (got[f] \o SubSeq(con[f].unread, 1, k)) \o SubSeq(con[f].unread, k + 1, Len(con[f].unread))
                 = got[f] \o con[f].unread
        BY <1>2, <1>3, <4>1, TakenInParts, Zenon
      <4>4. u = SubSeq(con[f].unread, k + 1, Len(con[f].unread)) /\ g = got[f] \o SubSeq(con[f].unread, 1, k)
        BY <3>1, <4>2
      <4> QED BY <1>5, <3>1, <4>3, <4>4
    <3>2. CASE o[2] # "error"
      <4>1. t = refused[f]
        BY <1>2, <3>2, SMT
      <4> QED BY <2>4, <3>2, <4>1
    <3> QED BY <3>1, <3>2
  <2> DEFINE c == [con[f] EXCEPT !.unread = u, !.reads = @ /\ o[2] # "off"]
  <2>6. k \in Nat /\ (o[2] = "all" => Len(rest) = 0)
    <3>1. o[2] = "all" => o[1] = Len(q)
      BY <2>2, Zenon
    <3>2. k \in Nat /\ Len(q) \in Nat
      BY <1>5, <2>2, SMT
    <3> QED BY <2>4, <3>1, <3>2, SMT
  <2>7. o[2] = "all" => u = <<>>
    <3>1. Len(rest) = 0 => rest = <<>>
      BY <2>4, EmptySeq, Zenon
    <3> QED BY <2>6, <3>1
  <2> HIDE DEF u, g, k, rest, taken
  <2>8. c \in Connection /\ c.unread = u /\ c.reads = (con[f].reads /\ o[2] # "off")
    BY <1>2, <1>3, <2>5, Zenon DEF Connection
  <2>9. Becomes(f, desc[f], c, n, g, t)
    BY <1>1, <2>3, SameAtFlow, ZenonT(40) DEF Becomes
  <2> HIDE DEF c
  <2>10. Streams(desc[f], c, n, g, t)
    <3>1. c.reads /\ c.unread # <<>> => o[2] = "error"
      BY <2>2, <2>7, <2>8, Zenon
    <3>2. o[2] = "error" => t > 0
      BY <1>2, SMT
    <3> QED BY <1>1, <2>5, <2>8, <3>1, <3>2, Zenon DEF Streams
  <2>11. t \in Nat /\ g \in Seq(Nat)
    BY <1>2, <2>4, SMT DEF g
  <2> QED BY <1>1, <1>2, <1>4, <2>8, <2>9, <2>10, <2>11, FlowChanged, Zenon DEF FlowOK
<1> QED BY <1>6, <1>7

\* What was kept is offered again.
LEMMA ReadCompleted ==
  ASSUME StackOK, NEW f \in Flows, CompleteRead(f)
  PROVE  StackOK'
<1>1. desc[f].st # "none" /\ con[f] \in Connection
  BY SameAtFlow, Zenon DEF CompleteRead, FlowIsOK, FlowOK
<1>2. /\ sent[f] \in Nat /\ got[f] \in Seq(Nat) /\ desc[f] \in Descriptor /\ refused[f] \in Nat
      /\ IF f \in TcpFlows THEN Streams(desc[f], con[f], sent[f], got[f], refused[f])
         ELSE Packets(desc[f], con[f], sent[f], got[f])
  BY <1>1, FlowKnown, Zenon
<1>3. /\ con[f].reads \in BOOLEAN /\ con[f].unread \in Seq(Nat) /\ con[f].readTask \in BOOLEAN
  BY <1>1, ConnectionFields, Zenon
<1> DEFINE q == con[f].unread
<1>4. CASE ~con[f].reads
  <2>1. con' = [con EXCEPT ![f].readTask = FALSE] /\ UNCHANGED <<desc, sent, got, refused>>
    BY <1>4, Zenon DEF CompleteRead
  <2> QED BY <1>1, <1>4, <2>1, FlagsChanged
<1>5. CASE con[f].reads
  <2>1. PICK o \in Offers(q) :
            IF o[2] = "error" THEN CloseDescriptor(f)
            ELSE /\ con' = [con EXCEPT ![f].readTask = FALSE, ![f].reads = o[2] = "all",
                                       ![f].unread = SubSeq(q, o[1] + 1, Len(q))]
                 /\ got' = [got EXCEPT ![f] = @ \o SubSeq(q, 1, o[1])]
                 /\ UNCHANGED <<desc, gen, sent, refused, up>>
    BY <1>5, Zenon DEF CompleteRead
  <2>2. CASE o[2] = "error"
    BY <2>1, <2>2, DescriptorClosed, Zenon
  <2>3. CASE o[2] # "error"
    <3>1. /\ o[1] \in 0..Len(q) /\ (o[2] = "all" => o[1] = Len(q))
      BY <2>1, Zenon DEF Offers
    <3> DEFINE k == o[1]
               rest == SubSeq(q, k + 1, Len(q))
               g == got[f] \o SubSeq(q, 1, k)
               c == [con[f] EXCEPT !.readTask = FALSE, !.reads = o[2] = "all", !.unread = rest]
    <3>2. rest \in Seq(Nat) /\ g \in Seq(Nat) /\ g \o rest = got[f] \o q /\ Len(rest) = Len(q) - k /\ SubSeq(q, 1, k) \in Seq(Nat)
      BY <1>2, <1>3, <3>1, TakenInParts, Zenon
    <3>3. o[2] = "all" => rest = <<>>
      <4>1. Len(q) \in Nat
        BY <1>3, LenProperties, Zenon
      <4>2. o[2] = "all" => Len(rest) = 0
        BY <3>1, <3>2, <4>1, SMT
      <4> QED BY <3>2, <4>2, EmptySeq, Zenon
    <3>4. desc' = desc /\ sent' = sent /\ refused' = refused /\ con' = [con EXCEPT ![f] = c] /\ got' = [got EXCEPT ![f] = g]
      BY <2>1, <2>3, Zenon
    <3> HIDE DEF rest, g
    <3>5. c \in Connection /\ c.unread = rest /\ c.reads = (o[2] = "all")
      BY <1>1, <3>2, Zenon DEF Connection
    <3> HIDE DEF c, k
    <3>6. Becomes(f, desc[f], c, sent[f], g, refused[f])
      BY <3>4, SameAtFlow, Zenon DEF Becomes
    <3>7. CASE f \in TcpFlows
      <4>1. rest # <<>> => q # <<>>
        <5>1. q = <<>> => rest = <<>>
          <6>1. Len(<<>>) = 0
            BY EmptySeq, SMT
          <6>2. q = <<>> => Len(rest) = 0
            BY <3>1, <3>2, <6>1, SMT DEF k
          <6> QED BY <3>2, <6>2, EmptySeq, Zenon
        <5> QED BY <5>1
      <4>2. Streams(desc[f], c, sent[f], g, refused[f])
        BY <1>2, <3>2, <3>3, <3>5, <3>7, <4>1, Zenon DEF Streams
      <4> QED BY <1>1, <1>2, <3>2, <3>5, <3>6, <3>7, <4>2, FlowChanged, Zenon DEF FlowOK
    <3>8. CASE f \notin TcpFlows
      <4>1. q = <<>>
        BY <1>2, <3>8, Zenon DEF Packets
      <4>2. rest = <<>> /\ g = got[f]
        <5>1. Len(q) = 0
          BY <4>1, EmptySeq, SMT
        <5>2. k = 0
          BY <3>1, <5>1, SMT DEF k
        <5>3. Len(rest) = 0
          BY <3>2, <5>1, <5>2, SMT
        <5>4. rest = <<>>
          BY <3>2, <5>3, EmptySeq, Zenon
        <5>5. SubSeq(q, 1, k) = <<>>
          BY <4>1, <5>2, SMT
        <5>6. g = got[f]
          BY <1>2, <5>5, ConcatEmptySeq, Zenon DEF g
        <5> QED BY <5>4, <5>6
      <4>3. Packets(desc[f], c, sent[f], g)
        BY <1>2, <3>5, <3>8, <4>2, Zenon DEF Packets
      <4> QED BY <1>1, <1>2, <3>2, <3>5, <3>6, <3>8, <4>3, FlowChanged, Zenon DEF FlowOK
    <3> QED BY <3>7, <3>8
  <2> QED BY <2>2, <2>3
<1> QED BY <1>4, <1>5

\* A packet of a UDP flow: it asks, waits, or is offered to the tunnel.
LEMMA UdpArrived ==
  ASSUME StackOK, NEW f \in Flows, UdpArrives(f)
  PROVE  StackOK'
<1>1. f \in UdpFlows /\ f \notin TcpFlows
  BY StackAssumption, Zenon DEF UdpArrives
<1>2. CASE RequestConnection(f, << 1 >>)
  BY <1>1, <1>2, ConnectionRequested, Zenon
<1>3. ASSUME desc[f].st # "none"
      PROVE  /\ con[f] \in Connection /\ sent[f] \in Nat /\ got[f] \in Seq(Nat) /\ desc[f] \in Descriptor /\ refused[f] \in Nat
             /\ desc[f].pend \in Seq(Nat) /\ con[f].unread = <<>> /\ SndQueueLimit \in Nat
             /\ Ascending(got[f]) /\ Sorted(desc[f].pend) /\ Len(desc[f].pend) <= SndQueueLimit
             /\ Len(got[f]) \in Nat /\ Len(desc[f].pend) \in Nat /\ sent[f] + 1 \in Nat
             /\ \A i \in 1..Len(got[f]) : got[f][i] <= sent[f] /\ got[f][i] <= sent[f] + 1
             /\ \A i \in 1..Len(desc[f].pend) : desc[f].pend[i] <= sent[f] /\ desc[f].pend[i] <= sent[f] + 1
  <2>1. /\ con[f] \in Connection /\ sent[f] \in Nat /\ got[f] \in Seq(Nat) /\ desc[f] \in Descriptor /\ refused[f] \in Nat
        /\ Packets(desc[f], con[f], sent[f], got[f])
    BY <1>1, <1>3, FlowKnown, Zenon
  <2>2. desc[f].pend \in Seq(Nat)
    BY <2>1, DescriptorFields, Zenon
  <2>3. SndQueueLimit \in Nat
    BY StackAssumption, SMT
  <2>4. Len(got[f]) \in Nat /\ Len(desc[f].pend) \in Nat /\ sent[f] + 1 \in Nat
    BY <2>1, <2>2, LenProperties, SMT
  <2>5. /\ \A i \in 1..Len(got[f]) : got[f][i] \in Nat /\ got[f][i] <= sent[f]
        /\ \A i \in 1..Len(desc[f].pend) : desc[f].pend[i] \in Nat /\ desc[f].pend[i] <= sent[f]
    BY <2>1, <2>2, ElementOfSeq, Zenon DEF Packets
  <2>6. \A m \in Nat : m <= sent[f] => m <= sent[f] + 1
    BY <2>1, SMT
  <2>7. /\ \A i \in 1..Len(got[f]) : got[f][i] <= sent[f] /\ got[f][i] <= sent[f] + 1
        /\ \A i \in 1..Len(desc[f].pend) : desc[f].pend[i] <= sent[f] /\ desc[f].pend[i] <= sent[f] + 1
    BY <2>5, <2>6, Zenon
  <2> QED BY <2>1, <2>2, <2>3, <2>4, <2>7, Zenon DEF Packets
<1> DEFINE n == sent[f] + 1
<1>4. CASE /\ desc[f].st = "requested" /\ sent[f] < MaxData
           /\ desc' = [desc EXCEPT ![f].pend = Enqueue(@, sent[f] + 1)]
           /\ sent' = [sent EXCEPT ![f] = @ + 1]
           /\ UNCHANGED <<con, gen, got, refused, up>>
  <2>1. desc[f].st # "none"
    BY <1>4
  <2> DEFINE p == Enqueue(desc[f].pend, n)
             d == [desc[f] EXCEPT !.pend = p]
  <2>2. p \in Seq(Nat) /\ Sorted(p) /\ Len(p) <= SndQueueLimit /\ \A i \in 1..Len(p) : p[i] <= n
    <3>1. CASE Len(desc[f].pend) < SndQueueLimit
      <4> DEFINE a == Append(desc[f].pend, n)
      <4>1. a \in Seq(Nat) /\ Len(a) = Len(desc[f].pend) + 1 /\ Sorted(a) /\ \A i \in 1..Len(a) : a[i] <= n
        BY <1>3, <2>1, JoinedAtEnd, Zenon
      <4>2. p = a
        BY <3>1, Zenon DEF Enqueue
      <4> HIDE DEF a, p
      <4>3. Len(a) <= SndQueueLimit
        BY <1>3, <2>1, <3>1, <4>1, SMT
      <4> QED BY <4>1, <4>2, <4>3
    <3>2. CASE ~(Len(desc[f].pend) < SndQueueLimit)
      <4>1. p = desc[f].pend
        BY <3>2, Zenon DEF Enqueue
      <4> QED BY <1>3, <2>1, <4>1, Zenon
    <3> QED BY <3>1, <3>2
  <2>3. desc' = [desc EXCEPT ![f] = d] /\ sent' = [sent EXCEPT ![f] = n] /\ con' = con /\ got' = got /\ refused' = refused
    BY <1>4, Zenon
  <2> HIDE DEF p
  <2>4. d \in Descriptor /\ d.st = desc[f].st /\ d.pend = p
    BY <1>3, <2>1, <2>2, Zenon DEF Descriptor
  <2> HIDE DEF d, n
  <2>5. Becomes(f, d, con[f], n, got[f], refused[f])
    BY <2>3, SameAtFlow, Zenon DEF Becomes
  <2>6. Packets(d, con[f], n, got[f])
    BY <1>3, <2>1, <2>2, <2>4, Zenon DEF Packets, n
  <2>7. n \in Nat
    BY <1>3, <2>1, Zenon DEF n
  <2> QED BY <1>1, <1>3, <2>1, <2>4, <2>5, <2>6, <2>7, FlowChanged, Zenon DEF FlowOK
<1>5. CASE desc[f].st = "confirmed" /\ UdpReceive(f)
  <2>1. desc[f].st # "none"
    BY <1>5
  <2>2. CASE CloseDescriptor(f)
    BY <2>2, DescriptorClosed
  <2>3. CASE sent' = [sent EXCEPT ![f] = @ + 1] /\ UNCHANGED <<desc, con, gen, got, refused, up>>
    <3>1. Becomes(f, desc[f], con[f], n, got[f], refused[f])
      BY <2>3, SameAtFlow, Zenon DEF Becomes
    <3>2. Packets(desc[f], con[f], n, got[f])
      BY <1>3, <2>1, Zenon DEF Packets
    <3> QED BY <1>1, <1>3, <2>1, <3>1, <3>2, FlowChanged, Zenon DEF FlowOK
  <2>4. CASE /\ got' = [got EXCEPT ![f] = Append(@, sent[f] + 1)]
             /\ sent' = [sent EXCEPT ![f] = @ + 1]
             /\ \E on \in BOOLEAN : con' = [con EXCEPT ![f].reads = on]
             /\ UNCHANGED <<desc, gen, refused, up>>
    <3>1. PICK on \in BOOLEAN : con' = [con EXCEPT ![f].reads = on]
      BY <2>4
    <3> DEFINE c == [con[f] EXCEPT !.reads = on]
               g == Append(got[f], n)
    <3>2. c \in Connection /\ c.unread = con[f].unread
      BY <1>3, <2>1, <3>1, Zenon DEF Connection
    <3>3. g \in Seq(Nat) /\ Ascending(g) /\ \A i \in 1..Len(g) : g[i] <= n
      BY <1>3, <2>1, JoinedAtEnd, Zenon
    <3>4. Becomes(f, desc[f], c, n, g, refused[f])
      BY <2>4, <3>1, SameAtFlow, Zenon DEF Becomes
    <3> HIDE DEF c, g
    <3>5. Packets(desc[f], c, n, g)
      BY <1>3, <2>1, <3>2, <3>3, Zenon DEF Packets
    <3> QED BY <1>1, <1>3, <2>1, <3>2, <3>3, <3>4, <3>5, FlowChanged, Zenon DEF FlowOK
  <2> QED BY <1>5, <2>2, <2>3, <2>4, Zenon DEF UdpReceive
<1> QED BY <1>2, <1>4, <1>5, Zenon DEF UdpArrives

\* The request of a UDP flow is answered.
LEMMA UdpCompleted ==
  ASSUME StackOK, NEW f \in Flows, UdpComplete(f)
  PROVE  StackOK'
<1>1. f \notin TcpFlows /\ desc[f].st = "requested" /\ desc[f].st # "none"
  BY StackAssumption, Zenon DEF UdpComplete
<1>2. CASE CloseDescriptor(f)
  BY <1>2, DescriptorClosed
<1>3. CASE desc' = [desc EXCEPT ![f].st = "rejected"] /\ UNCHANGED <<con, gen, sent, got, refused, up>>
  <2>1. "rejected" \in ConnStates /\ desc[f].st \notin {"none", "accepted"}
    BY <1>1 DEF ConnStates
  <2>2. UNCHANGED <<con, sent, got, refused>>
    BY <1>3, Zenon
  <2> QED BY <1>3, <2>1, <2>2, StateChanged
<1>4. ASSUME NEW on \in BOOLEAN, NEW taken \in Subsequences(desc[f].pend),
             desc' = [desc EXCEPT ![f] = [st |-> "confirmed", pend |-> <<>>]], con' = [con EXCEPT ![f].reads = on],
             got' = [got EXCEPT ![f] = taken], UNCHANGED <<gen, sent, refused, up>>
      PROVE  StackOK'
  <2>1. /\ con[f] \in Connection /\ sent[f] \in Nat /\ got[f] \in Seq(Nat) /\ desc[f] \in Descriptor /\ refused[f] \in Nat
        /\ Packets(desc[f], con[f], sent[f], got[f])
    BY <1>1, FlowKnown, Zenon
  <2>2. desc[f].pend \in Seq(Nat)
    BY <2>1, DescriptorFields, Zenon
  <2>3. taken \in Seq(Nat) /\ Ascending(taken) /\ \A i \in 1..Len(taken) : taken[i] <= sent[f]
    BY <2>1, <2>2, SomeTaken, Zenon DEF Packets
  <2> DEFINE c == [con[f] EXCEPT !.reads = on]
             d == [st |-> "confirmed", pend |-> <<>>]
  <2>4. c \in Connection /\ c.unread = con[f].unread
    BY <2>1, Zenon DEF Connection
  <2>5. d \in Descriptor /\ d.st = "confirmed" /\ d.pend = <<>>
    BY NoneIsEmpty, SMT DEF Descriptor, ConnStates
  <2>6. Becomes(f, d, c, sent[f], taken, refused[f])
    BY <1>4, SameAtFlow, Zenon DEF Becomes
  <2>7. Sorted(<<>>) /\ Len(<<>>) <= SndQueueLimit /\ \A i \in 1..Len(<<>>) : <<>>[i] <= sent[f]
    <3>1. Sorted(<<>>) /\ Len(<<>>) = 0
      BY NoneIsEmpty, Zenon
    <3>2. Len(<<>>) <= SndQueueLimit
      BY <3>1, StackAssumption, SMT
    <3>3. \A i \in 1..Len(<<>>) : FALSE
      BY <3>1, SMT
    <3> QED BY <3>1, <3>2, <3>3, Zenon
  <2> HIDE DEF c, d
  <2>8. Packets(d, c, sent[f], taken)
    BY <2>1, <2>3, <2>4, <2>5, <2>7, Zenon DEF Packets
  <2>9. d.st # "none"
    BY <2>5
  <2> QED BY <1>1, <2>1, <2>3, <2>4, <2>5, <2>6, <2>8, <2>9, FlowChanged, Zenon DEF FlowOK
<1> QED BY <1>2, <1>3, <1>4, Zenon DEF UdpComplete, UdpForward

LEMMA ClosedByTunnel ==
  ASSUME StackOK, NEW f \in Flows, CloseConnection(f)
  PROVE  StackOK'
<1>1. PICK graceful, async \in BOOLEAN :
         CASE graceful /\ con[f].sched > 0 ->
                con' = [con EXCEPT ![f].closing = TRUE] /\ UNCHANGED <<desc, gen, sent, got, refused, up>>
           [] ~(graceful /\ con[f].sched > 0) /\ async ->
                con' = [con EXCEPT ![f].closeTask = TRUE] /\ UNCHANGED <<desc, gen, sent, got, refused, up>>
           [] OTHER -> CloseDescriptor(f)
  BY Zenon DEF CloseConnection
<1>2. desc[f].st # "none"
  BY Zenon DEF CloseConnection
<1>3. con[f] \in Connection
  BY <1>2, FlowKnown, Zenon
<1>4. CASE CloseDescriptor(f)
  BY <1>4, DescriptorClosed
<1>5. CASE con' = [con EXCEPT ![f].closing = TRUE] /\ UNCHANGED <<desc, sent, got, refused>>
  BY <1>2, <1>3, <1>5, FlagsChanged
<1>6. CASE con' = [con EXCEPT ![f].closeTask = TRUE] /\ UNCHANGED <<desc, sent, got, refused>>
  BY <1>2, <1>3, <1>6, FlagsChanged
<1>7. \/ con' = [con EXCEPT ![f].closing = TRUE] /\ UNCHANGED <<desc, sent, got, refused>>
      \/ con' = [con EXCEPT ![f].closeTask = TRUE] /\ UNCHANGED <<desc, sent, got, refused>>
      \/ CloseDescriptor(f)
  <2>1. CASE graceful /\ con[f].sched > 0
    BY <1>1, <2>1, Zenon
  <2>2. CASE ~(graceful /\ con[f].sched > 0) /\ async
    BY <1>1, <2>2, Zenon
  <2>3. CASE ~(graceful /\ con[f].sched > 0) /\ ~async
    BY <1>1, <2>3, Zenon
  <2> QED BY <2>1, <2>2, <2>3, Zenon
<1> QED BY <1>4, <1>5, <1>6, <1>7

LEMMA FlowStep ==
  ASSUME StackOK, NEW f \in Flows, IpInput(f) \/ TunnelCalls(f) \/ TimerTick(f) \/ CloseTask(f) \/ CompleteRead(f)
  PROVE  StackOK'
<1>1. ASSUME desc[f].st # "none" PROVE con[f] \in Connection
  BY <1>1, FlowKnown, Zenon
<1>2. CASE SynArrives(f)
  BY <1>2, ConnectionRequested, Zenon DEF SynArrives
<1>3. CASE RstArrives(f) \/ FinArrives(f) \/ TimerTick(f) \/ CloseTask(f)
  BY <1>3, DescriptorClosed, Zenon DEF RstArrives, FinArrives, TimerTick, CloseTask
<1>4. CASE TcpAccept(f)
  BY <1>4, TcpAccepted
<1>5. CASE TcpData(f)
  BY <1>5, TcpDataRead
<1>6. CASE ClientAcks(f)
  <2>1. desc[f].st # "none" /\ UNCHANGED <<desc, sent, got, refused>>
    BY <1>6, Zenon DEF ClientAcks
  <2> QED BY <1>1, <1>6, <2>1, FlagsChanged
<1>7. CASE UdpArrives(f)
  BY <1>7, UdpArrived
<1>8. CASE TcpComplete(f)
  <2>1. desc[f].st = "requested" /\ TcpOutcome(f)
    BY <1>8 DEF TcpComplete
  <2>2. CASE CloseDescriptor(f)
    BY <2>2, DescriptorClosed
  <2>3. ASSUME NEW st \in {"have_result", "drop"}, desc' = [desc EXCEPT ![f].st = st],
               UNCHANGED <<con, gen, sent, got, refused, up>>
        PROVE  StackOK'
    <3>1. st \in ConnStates /\ st # "none" /\ desc[f].st \notin {"none", "accepted"}
      BY <2>1 DEF ConnStates
    <3>2. UNCHANGED <<con, sent, got, refused>>
      BY <2>3, Zenon
    <3> QED BY <2>3, <3>1, <3>2, StateChanged
  <2> QED BY <2>1, <2>2, <2>3, Zenon DEF TcpOutcome
<1>9. CASE UdpComplete(f)
  BY <1>9, UdpCompleted
<1>10. CASE CloseConnection(f)
  BY <1>10, ClosedByTunnel
<1>11. CASE SendToClient(f)
  <2>1. CASE TcpSend(f)
    <3>1. desc[f].st # "none" /\ UNCHANGED <<desc, sent, got, refused>> /\ con' = [con EXCEPT ![f].sched = @ + 1]
      BY <2>1, Zenon DEF TcpSend
    <3> QED BY <1>1, <3>1, FlagsChanged
  <2>2. CASE UdpSend(f)
    BY <2>2, DescriptorClosed, Zenon DEF UdpSend
  <2> QED BY <1>11, <2>1, <2>2 DEF SendToClient
<1>12. CASE TunnelTurnsRead(f)
  <2>1. desc[f].st # "none" /\ UNCHANGED <<desc, sent, got, refused>> /\ \E on \in BOOLEAN : TurnRead(f, on)
    BY <1>12, Zenon DEF TunnelTurnsRead
  <2> QED BY <1>1, <2>1, FlagsChanged
<1>13. CASE CompleteRead(f)
  BY <1>13, ReadCompleted
<1> QED BY <1>2, <1>3, <1>4, <1>5, <1>6, <1>7, <1>8, <1>9, <1>10, <1>11, <1>12, <1>13, Zenon DEF IpInput, TunnelCalls

LEMMA StackClosed ==
  ASSUME StackOK, Deinit
  PROVE  StackOK'
<1>1. StackTyped
  BY DEF StackOK
<1>2. desc' = [f \in Flows |-> NoDesc] /\ con' = [f \in Flows |-> NON] /\ sent' = sent /\ got' = got /\ refused' = refused
  BY DEF Deinit, CleanUp
<1>3. StackTyped'
  BY <1>1, <1>2, NoDescriptor, SMT DEF StackTyped
<1>4. ASSUME NEW f \in Flows PROVE FlowIsOK(f)'
  <2>1. desc'[f] = NoDesc /\ con'[f] = NON /\ sent'[f] \in Nat /\ got'[f] \in Seq(Nat) /\ refused'[f] \in Nat
    BY <1>1, <1>2, Zenon DEF StackTyped
  <2> QED BY <2>1, NoDescriptor, Zenon DEF FlowIsOK, FlowOK
<1> QED BY <1>3, <1>4 DEF StackOK

LEMMA StackStep == StackOK /\ [Next]_vars => StackOK'
<1> SUFFICES ASSUME StackOK, [Next]_vars PROVE StackOK'
  OBVIOUS
<1>1. CASE UNCHANGED vars
  <2>1. UNCHANGED <<desc, con, sent, got, refused>>
    BY <1>1 DEF vars
  <2> QED BY <2>1 DEF StackOK, StackTyped, FlowIsOK
<1>2. CASE Deinit
  BY <1>2, StackClosed
<1>3. ASSUME NEW f \in Flows, IpInput(f) \/ TunnelCalls(f) \/ TimerTick(f) \/ CloseTask(f) \/ CompleteRead(f)
      PROVE  StackOK'
  BY <1>3, FlowStep
<1> QED BY <1>1, <1>2, <1>3 DEF Next

LEMMA StackServes == StackOK => StreamInOrder /\ UnreadServed
<1> SUFFICES ASSUME StackOK, NEW f \in Flows, con[f] # NON
             PROVE  /\ IF f \in TcpFlows
                       THEN InOrderBut(got[f] \o con[f].unread, sent[f], refused[f])
                       ELSE /\ \A i \in 1..(Len(got[f]) - 1) : got[f][i] < got[f][i + 1]
                            /\ Len(desc[f].pend) <= SndQueueLimit /\ con[f].unread = <<>>
                    /\ con[f].reads /\ con[f].unread # <<>> => con[f].readTask \/ refused[f] > 0
  BY Zenon DEF StreamInOrder, UnreadServed
<1>1. desc[f].st # "none"
  BY SameAtFlow, Zenon DEF FlowIsOK, FlowOK
<1>2. CASE f \in TcpFlows
  BY <1>1, <1>2, FlowKnown, Zenon DEF Streams
<1>3. CASE f \notin TcpFlows
  BY <1>1, <1>3, FlowKnown, Zenon DEF Packets, Ascending
<1> QED BY <1>2, <1>3

-----------------------------------------------------------------------------
(* The echo requests.                                                      *)

Frames == Echo!Keys \X Echo!Types \X Nat

EchoTyped ==
    /\ tries \in [Ids -> Seq(Seqnos)]
    /\ echoes \subseteq Echo!Keys /\ socks \subseteq Echo!Keys /\ asked \subseteq Echo!Keys
    /\ wire \in Seq(Frames) /\ rbuf \in Seq(Frames)

\* Every piece on the wire is followed by the rest of its reply, and a reply by the beginning of another.
Whole(w) ==
    \A i \in 1..Len(w) :
       /\ w[i][3] \in 1..ReplySize
       /\ \A d \in 0..(ReplySize - w[i][3]) : i + d <= Len(w) /\ w[i + d] = <<w[i][1], w[i][2], w[i][3] + d>>
       /\ w[i][3] = ReplySize /\ i < Len(w) => w[i + 1][3] = 1

\* What the multiplexer keeps is the beginning of the reply that is next on the wire.
Begun(r, w) ==
    /\ Len(r) < ReplySize
    /\ w # <<>> => w[1][3] = Len(r) + 1
    /\ \A i \in 1..Len(r) : w # <<>> /\ r[i] = <<w[1][1], w[1][2], i>>

EchoOK == EchoTyped /\ Echo!EchoBacked /\ Whole(wire) /\ Begun(rbuf, wire)

LEMMA EchoInit == Echo!Init => EchoOK
<1> SUFFICES ASSUME Echo!Init PROVE EchoOK
  OBVIOUS
<1>1. <<>> \in Seq(Frames) /\ <<>> \in Seq(Seqnos) /\ Len(<<>>) = 0
  BY EmptySeq, SMT
<1>2. EchoTyped
  BY <1>1, SMT DEF Echo!Init, EchoTyped
<1>3. Echo!EchoBacked
  BY Zenon DEF Echo!Init, Echo!EchoBacked
<1>4. Whole(wire) /\ Begun(rbuf, wire)
  BY <1>1, EchoAssumption, SMT DEF Echo!Init, Whole, Begun
<1> QED BY <1>2, <1>3, <1>4 DEF EchoOK

\* What is left of a sequence without its first n elements.
LEMMA FirstDropped ==
  ASSUME NEW S, NEW s \in Seq(S), NEW n \in Nat, n <= Len(s)
  PROVE  LET b == SubSeq(s, n + 1, Len(s))
         IN  b \in Seq(S) /\ Len(b) = Len(s) - n /\ \A i \in 1..(Len(s) - n) : b[i] = s[n + i]
<1> DEFINE b == SubSeq(s, n + 1, Len(s))
<1>1. Len(s) \in Nat /\ \A i \in 1..Len(s) : s[i] \in S
  BY LenProperties, ElementOfSeq, Zenon
<1>2. b \in Seq(S) /\ Len(b) = Len(s) - n
  BY <1>1, SubSeqProperties, SMT
<1>3. \A i \in 1..(Len(s) - n) : b[i] = s[n + i]
  BY ONLY <1>1, n \in Nat, n <= Len(s), SubSeqProperties, SMT DEF b
<1> QED BY <1>2, <1>3

\* The attempts that are left when one is removed.
LEMMA AttemptRemoved ==
  ASSUME NEW s \in Seq(Seqnos), NEW j \in DOMAIN s
  PROVE  /\ Echo!RemoveAt(s, j) \in Seq(Seqnos)
         /\ \A i \in DOMAIN s : i # j => \E m \in DOMAIN Echo!RemoveAt(s, j) : Echo!RemoveAt(s, j)[m] = s[i]
<1>1. Len(s) \in Nat /\ DOMAIN s = 1..Len(s) /\ \A i \in 1..Len(s) : s[i] \in Seqnos
  BY LenProperties, ElementOfSeq, Zenon
<1> DEFINE a == SubSeq(s, 1, j - 1)
           b == SubSeq(s, j + 1, Len(s))
<1>2. a \in Seq(Seqnos) /\ Len(a) = j - 1 /\ \A i \in 1..(j - 1) : a[i] = s[i]
  <2>1. j - 1 \in 0..Len(s) /\ \A i \in 1..(j - 1) : s[i] \in Seqnos
    BY <1>1, SMT
  <2> QED BY ONLY <1>1, <2>1, SubSeqProperties, SMT DEF a
<1>3. b \in Seq(Seqnos) /\ Len(b) = Len(s) - j /\ \A i \in 1..(Len(s) - j) : b[i] = s[j + i]
  <2>1. j \in 1..Len(s)
    BY <1>1
  <2>2. b \in Seq(Seqnos) /\ Len(b) = Len(s) - j
    BY ONLY <1>1, <2>1, SubSeqProperties, SMT DEF b
  <2>3. \A i \in 1..(Len(s) - j) : b[i] = s[j + i]
    BY ONLY <1>1, <2>1, SubSeqProperties, SMT DEF b
  <2> QED BY <2>2, <2>3
<1> HIDE DEF a, b
<1>4. /\ a \o b \in Seq(Seqnos) /\ Len(a \o b) = Len(s) - 1
      /\ \A i \in 1..Len(a \o b) : (a \o b)[i] = IF i <= Len(a) THEN a[i] ELSE b[i - Len(a)]
  <2>1. a \o b \in Seq(Seqnos) /\ Len(a \o b) = Len(a) + Len(b)
    BY <1>2, <1>3, ConcatProperties, Zenon
  <2>2. \A i \in 1..Len(a \o b) : (a \o b)[i] = IF i <= Len(a) THEN a[i] ELSE b[i - Len(a)]
    BY <1>2, <1>3, <2>1, ConcatProperties, ZenonT(40)
  <2>3. Len(a) + Len(b) = Len(s) - 1
    BY <1>1, <1>2, <1>3, SMT
  <2> QED BY <2>1, <2>2, <2>3
<1>5. Echo!RemoveAt(s, j) = a \o b
  BY Zenon DEF Echo!RemoveAt, a, b
<1>6. ASSUME NEW i \in DOMAIN s, i # j PROVE \E m \in DOMAIN (a \o b) : (a \o b)[m] = s[i]
  <2>1. DOMAIN (a \o b) = 1..(Len(s) - 1)
    BY <1>4, LenProperties, Zenon
  <2>2. CASE i < j
    <3>1. i \in 1..(Len(s) - 1) /\ i <= Len(a) /\ i \in 1..(j - 1)
      BY <1>1, <1>2, <2>2, SMT
    <3>2. (a \o b)[i] = s[i]
      BY <1>2, <1>4, <3>1, Zenon
    <3> QED BY <2>1, <3>1, <3>2
  <2>3. CASE ~(i < j)
    <3>1. /\ i - 1 \in 1..(Len(s) - 1) /\ ~(i - 1 <= Len(a)) /\ (i - 1) - Len(a) \in 1..(Len(s) - j)
          /\ j + ((i - 1) - Len(a)) = i
      BY <1>1, <1>2, <1>6, <2>3, SMTT(30)
    <3>2. (a \o b)[i - 1] = s[i]
      BY <1>3, <1>4, <3>1, Zenon
    <3> QED BY <2>1, <3>1, <3>2
  <2> QED BY <2>2, <2>3
<1> QED BY <1>4, <1>5, <1>6

\* A message ends an attempt together with the packet that waits for it.
LEMMA ReplyRegistered ==
  ASSUME EchoOK, NEW k \in Echo!Keys, NEW type, Echo!RegisterReply(k, type)
  PROVE  tries' \in [Ids -> Seq(Seqnos)] /\ echoes' \subseteq Echo!Keys /\ Echo!EchoBacked'
<1>1. /\ tries \in [Ids -> Seq(Seqnos)] /\ echoes \subseteq Echo!Keys /\ Echo!EchoBacked
  BY DEF EchoOK, EchoTyped
<1>2. CASE UNCHANGED <<tries, echoes>>
  BY <1>1, <1>2 DEF Echo!EchoBacked
<1>3. ASSUME NEW j \in Echo!Attempts(k, type), tries' = [tries EXCEPT ![k[1]] = Echo!RemoveAt(@, j)],
             Echo!StackReply({<<k[1], tries[k[1]][j]>>})
      PROVE  tries' \in [Ids -> Seq(Seqnos)] /\ echoes' \subseteq Echo!Keys /\ Echo!EchoBacked'
  <2> DEFINE s == tries[k[1]]
             e == <<k[1], s[j]>>
  <2>1. k[1] \in Ids /\ s \in Seq(Seqnos) /\ j \in DOMAIN s
    BY <1>1, <1>3, Zenon DEF Echo!Keys, Echo!Attempts
  <2>2. /\ Echo!RemoveAt(s, j) \in Seq(Seqnos)
        /\ \A i \in DOMAIN s : i # j => \E m \in DOMAIN Echo!RemoveAt(s, j) : Echo!RemoveAt(s, j)[m] = s[i]
    BY <2>1, AttemptRemoved, Zenon
  <2>3. tries' \in [Ids -> Seq(Seqnos)] /\ tries'[k[1]] = Echo!RemoveAt(s, j)
    BY <1>1, <1>3, <2>1, <2>2, Zenon
  <2>4. echoes' = echoes \ {e}
    BY <1>3 DEF Echo!StackReply
  <2>5. ASSUME NEW x \in echoes' PROVE x[2] \in Echo!Range(tries'[x[1]])
    <3>1. x \in echoes /\ x # e /\ x \in Echo!Keys /\ x[2] \in Echo!Range(tries[x[1]])
      BY <1>1, <2>4, <2>5, Zenon DEF Echo!EchoBacked
    <3>2. x[1] \in Ids /\ x = <<x[1], x[2]>>
      BY <3>1, SMT DEF Echo!Keys
    <3>3. CASE x[1] # k[1]
      <4>1. tries'[x[1]] = tries[x[1]]
        BY <1>1, <1>3, <3>2, <3>3, Zenon
      <4> QED BY <3>1, <4>1
    <3>4. CASE x[1] = k[1]
      <4>1. PICK i \in DOMAIN s : x[2] = s[i]
        BY <3>1, <3>4, Zenon DEF Echo!Range
      <4>2. i # j
        BY <3>1, <3>2, <3>4, <4>1, Zenon
      <4>3. \E m \in DOMAIN Echo!RemoveAt(s, j) : Echo!RemoveAt(s, j)[m] = x[2]
        BY <2>2, <4>1, <4>2, Zenon
      <4> QED BY <2>3, <3>4, <4>3, Zenon DEF Echo!Range
    <3> QED BY <3>3, <3>4
  <2>6. Echo!EchoBacked'
    BY <2>5, Zenon DEF Echo!EchoBacked
  <2> QED BY <1>1, <2>3, <2>4, <2>6
<1> QED BY <1>2, <1>3, Zenon DEF Echo!RegisterReply

\* The pieces left on the wire when the first n are read.
LEMMA PiecesRead ==
  ASSUME NEW w \in Seq(Frames), NEW n \in Nat, n <= Len(w), Whole(w)
  PROVE  LET v == SubSeq(w, n + 1, Len(w))
         IN  /\ v \in Seq(Frames) /\ Len(v) = Len(w) - n /\ (\A i \in 1..Len(v) : v[i] = w[n + i]) /\ Whole(v)
<1> DEFINE v == SubSeq(w, n + 1, Len(w))
<1>1. Len(w) \in Nat /\ \A i \in 1..Len(w) : w[i] \in Frames
  BY LenProperties, ElementOfSeq, Zenon
<1>2. v \in Seq(Frames) /\ Len(v) = Len(w) - n
  BY <1>1, SubSeqProperties, SMT
<1>3. \A i \in 1..(Len(w) - n) : v[i] = w[n + i]
  BY ONLY <1>1, n \in Nat, n <= Len(w), SubSeqProperties, SMT DEF v
<1> HIDE DEF v
<1>4. Whole(v)
  <2> SUFFICES ASSUME NEW i \in 1..Len(v)
               PROVE  /\ v[i][3] \in 1..ReplySize
                      /\ \A d \in 0..(ReplySize - v[i][3]) : i + d <= Len(v) /\ v[i + d] = <<v[i][1], v[i][2], v[i][3] + d>>
                      /\ v[i][3] = ReplySize /\ i < Len(v) => v[i + 1][3] = 1
    BY Zenon DEF Whole
  <2> DEFINE j == n + i
  <2>1. i \in Nat /\ j \in 1..Len(w) /\ v[i] = w[j] /\ j \in Nat
    <3>1. i \in 1..(Len(w) - n)
      BY <1>2
    <3>2. j \in 1..Len(w) /\ i \in Nat /\ j \in Nat
      BY <1>1, <3>1, SMT
    <3> QED BY <1>3, <3>1, <3>2
  <2>2. /\ w[j][3] \in 1..ReplySize
        /\ \A d \in 0..(ReplySize - w[j][3]) : j + d <= Len(w) /\ w[j + d] = <<w[j][1], w[j][2], w[j][3] + d>>
        /\ w[j][3] = ReplySize /\ j < Len(w) => w[j + 1][3] = 1
    BY <2>1, Zenon DEF Whole
  <2> HIDE DEF j
  <2>3. ASSUME NEW d \in 0..(ReplySize - v[i][3]) PROVE i + d <= Len(v) /\ v[i + d] = <<v[i][1], v[i][2], v[i][3] + d>>
    <3>1. j + d <= Len(w) /\ w[j + d] = <<w[j][1], w[j][2], w[j][3] + d>>
      BY <2>1, <2>2, <2>3
    <3>2. d \in Nat
      BY <2>1, <2>2, EchoAssumption, SMT
    <3>3. i + d \in 1..(Len(w) - n) /\ i + d <= Len(v) /\ n + (i + d) = j + d
      BY <1>1, <1>2, <2>1, <3>1, <3>2, SMT DEF j
    <3>4. v[i + d] = w[j + d]
      BY <1>3, <3>3, Zenon
    <3> QED BY <2>1, <3>1, <3>3, <3>4
  <2>4. ASSUME v[i][3] = ReplySize, i < Len(v) PROVE v[i + 1][3] = 1
    <3>1. j < Len(w) /\ i + 1 \in 1..(Len(w) - n) /\ n + (i + 1) = j + 1
      BY <1>1, <1>2, <2>1, <2>4, SMT DEF j
    <3>2. v[i + 1] = w[j + 1]
      <4>1. \A x \in 1..(Len(w) - n) : \A y : n + x = y => v[x] = w[y]
        BY <1>3, Zenon
      <4> QED BY <3>1, <4>1, SMT
    <3> QED BY <2>1, <2>2, <2>4, <3>1, <3>2
  <2> QED BY <2>1, <2>2, <2>3, <2>4
<1> QED BY <1>2, <1>3, <1>4 DEF v

\* A reply of the endpoint, at the end of the wire.
LEMMA ReplyOnWire ==
  ASSUME NEW w \in Seq(Frames), Whole(w), NEW k \in Echo!Keys, NEW t \in Echo!Types
  PROVE  LET v == w \o [i \in 1..ReplySize |-> <<k, t, i>>]
         IN  /\ v \in Seq(Frames) /\ Whole(v) /\ v # <<>>
             /\ v[1] = IF w = <<>> THEN <<k, t, 1>> ELSE w[1]
<1> DEFINE r == [i \in 1..ReplySize |-> <<k, t, i>>]
           v == w \o r
<1>1. ReplySize \in Nat /\ ReplySize >= 1
  BY EchoAssumption, SMT
<1>2. r \in Seq(Frames) /\ Len(r) = ReplySize /\ \A i \in 1..ReplySize : r[i] = <<k, t, i>>
  <2>1. \A i \in 1..ReplySize : <<k, t, i>> \in Frames
    BY <1>1, SMT DEF Frames
  <2>2. r \in Seq(Frames)
    BY <1>1, <2>1, SMT
  <2>3. Len(r) = ReplySize
    BY <1>1, SMT
  <2> QED BY <2>2, <2>3, Zenon
<1> HIDE DEF r
<1>3. /\ v \in Seq(Frames) /\ Len(v) = Len(w) + ReplySize /\ Len(w) \in Nat
      /\ \A i \in 1..Len(v) : v[i] = IF i <= Len(w) THEN w[i] ELSE r[i - Len(w)]
  BY <1>2, ConcatProperties, LenProperties, Zenon
<1> HIDE DEF v
<1>4. \A i \in 1..Len(w) : i \in 1..Len(v) /\ v[i] = w[i]
  <2>1. \A i \in 1..Len(w) : i \in 1..Len(v) /\ i <= Len(w)
    BY <1>1, <1>3, SMT
  <2> QED BY <1>3, <2>1, Zenon
<1>5. ASSUME NEW e \in 1..ReplySize PROVE Len(w) + e \in 1..Len(v) /\ v[Len(w) + e] = <<k, t, e>>
  <2>1. Len(w) + e \in 1..Len(v) /\ ~(Len(w) + e <= Len(w)) /\ (Len(w) + e) - Len(w) = e
    BY <1>1, <1>3, SMT
  <2> QED BY <1>2, <1>3, <2>1, Zenon
<1>6. ASSUME NEW i \in 1..Len(v)
      PROVE  /\ v[i][3] \in 1..ReplySize
             /\ \A d \in 0..(ReplySize - v[i][3]) : i + d <= Len(v) /\ v[i + d] = <<v[i][1], v[i][2], v[i][3] + d>>
             /\ v[i][3] = ReplySize /\ i < Len(v) => v[i + 1][3] = 1
  <2>1. CASE i \in 1..Len(w)
    <3>1. /\ w[i][3] \in 1..ReplySize
          /\ \A d \in 0..(ReplySize - w[i][3]) : i + d <= Len(w) /\ w[i + d] = <<w[i][1], w[i][2], w[i][3] + d>>
          /\ w[i][3] = ReplySize /\ i < Len(w) => w[i + 1][3] = 1
      BY <2>1, Zenon DEF Whole
    <3>2. v[i] = w[i]
      BY <1>4, <2>1
    <3>3. ASSUME NEW d \in 0..(ReplySize - v[i][3]) PROVE i + d <= Len(v) /\ v[i + d] = <<v[i][1], v[i][2], v[i][3] + d>>
      <4>1. i + d <= Len(w) /\ w[i + d] = <<w[i][1], w[i][2], w[i][3] + d>>
        BY <3>1, <3>2, <3>3
      <4>2. w[i][3] \in 1..ReplySize /\ d \in 0..(ReplySize - w[i][3])
        BY <3>1, <3>2, <3>3
      <4>3. i + d \in 1..Len(w) /\ i + d <= Len(v)
        BY <1>1, <1>3, <2>1, <4>1, <4>2, SMT
      <4> QED BY <1>4, <3>2, <4>1, <4>3, Zenon
    <3>4. ASSUME v[i][3] = ReplySize, i < Len(v) PROVE v[i + 1][3] = 1
      <4>1. CASE i < Len(w)
        <5>1. i + 1 \in 1..Len(w)
          BY <1>3, <2>1, <4>1, SMT
        <5> QED BY <1>4, <3>1, <3>2, <3>4, <4>1, <5>1, Zenon
      <4>2. CASE ~(i < Len(w))
        <5>1. i = Len(w) /\ 1 \in 1..ReplySize
          BY <1>1, <1>3, <2>1, <4>2, SMT
        <5> QED BY <1>5, <5>1, SMT
      <4> QED BY <4>1, <4>2
    <3> QED BY <3>1, <3>2, <3>3, <3>4
  <2>2. CASE i \notin 1..Len(w)
    <3> DEFINE e == i - Len(w)
    <3>1. e \in 1..ReplySize /\ i = Len(w) + e
      BY <1>1, <1>3, <2>2, SMT
    <3> HIDE DEF e
    <3>2. v[i] = <<k, t, e>>
      BY <1>5, <3>1
    <3>3. v[i][1] = k /\ v[i][2] = t /\ v[i][3] = e
      BY <3>2
    <3>4. ASSUME NEW d \in 0..(ReplySize - e) PROVE i + d <= Len(v) /\ v[i + d] = <<k, t, e + d>>
      <4>1. e + d \in 1..ReplySize /\ Len(w) + (e + d) = i + d
        BY <1>1, <1>3, <3>1, SMT
      <4>2. Len(w) + (e + d) \in 1..Len(v) /\ v[Len(w) + (e + d)] = <<k, t, e + d>>
        BY <1>5, <4>1
      <4>3. i + d \in 1..Len(v) /\ v[i + d] = <<k, t, e + d>>
        BY <4>1, <4>2
      <4> QED BY <1>1, <1>3, <4>3, SMT
    <3>5. ~(e = ReplySize /\ i < Len(v))
      BY <1>1, <1>3, <3>1, SMT
    <3> QED BY <3>1, <3>3, <3>4, <3>5
  <2> QED BY <2>1, <2>2
<1>7. v # <<>>
  <2>1. Len(v) # 0
    BY <1>1, <1>3, SMT
  <2> QED BY <1>3, <2>1, EmptySeq, Zenon
<1>8. v[1] = IF w = <<>> THEN <<k, t, 1>> ELSE w[1]
  <2>1. 1 \in 1..ReplySize
    BY <1>1, SMT
  <2>2. CASE w = <<>>
    <3>1. Len(w) = 0
      BY <2>2, EmptySeq, SMT
    <3>2. Len(w) + 1 = 1
      BY <3>1, SMT
    <3>3. v[Len(w) + 1] = <<k, t, 1>>
      BY <1>5, <2>1
    <3> QED BY <2>2, <3>2, <3>3
  <2>3. CASE w # <<>>
    <3>1. Len(w) # 0
      BY <2>3, EmptySeq, Zenon
    <3>2. 1 \in 1..Len(w)
      BY <1>3, <3>1, SMT
    <3> QED BY <1>4, <2>3, <3>2
  <2> QED BY <2>2, <2>3
<1> QED BY <1>3, <1>6, <1>7, <1>8 DEF Whole, v, r

\* The multiplexer reads pieces of the stream: a complete reply is raised, the beginning of one is kept.
LEMMA MuxHasRead ==
  ASSUME EchoOK, Echo!MuxRead
  PROVE  EchoOK'
<1>1. /\ wire \in Seq(Frames) /\ rbuf \in Seq(Frames) /\ Whole(wire) /\ Begun(rbuf, wire) /\ wire # <<>>
      /\ EchoTyped /\ Echo!EchoBacked
  BY DEF EchoOK, EchoTyped, Echo!MuxRead
<1> DEFINE n == ReplySize - Len(rbuf)
<1>2. Len(wire) \in Nat /\ Len(rbuf) \in Nat /\ ReplySize \in Nat /\ Len(wire) # 0 /\ Len(rbuf) < ReplySize
  <2>1. Len(wire) # 0
    BY <1>1, EmptySeq, Zenon
  <2>2. Len(wire) \in Nat /\ Len(rbuf) \in Nat
    BY <1>1, LenProperties, Zenon
  <2>3. ReplySize \in Nat
    BY EchoAssumption, SMT
  <2> QED BY <1>1, <2>1, <2>2, <2>3 DEF Begun
<1>3. 1 \in 1..Len(wire) /\ wire[1][3] = Len(rbuf) + 1 /\ n \in Nat /\ n >= 1 /\ wire[1] \in Frames
  <2>1. 1 \in 1..Len(wire) /\ n \in Nat /\ n >= 1
    BY <1>2, SMT
  <2>2. wire[1] \in Frames
    BY <1>1, <2>1, ElementOfSeq, Zenon
  <2> QED BY <1>1, <2>1, <2>2 DEF Begun
<1>4. ASSUME NEW d \in 0..(n - 1)
      PROVE  1 + d <= Len(wire) /\ wire[1 + d] = <<wire[1][1], wire[1][2], Len(rbuf) + 1 + d>>
  <2>1. d \in 0..(ReplySize - wire[1][3])
    BY <1>2, <1>3, SMT
  <2>2. 1 + d <= Len(wire) /\ wire[1 + d] = <<wire[1][1], wire[1][2], wire[1][3] + d>>
    BY <1>1, <1>3, <2>1, Zenon DEF Whole
  <2> QED BY <1>3, <2>2
<1>5. UNCHANGED <<socks, asked>>
  BY DEF Echo!MuxRead
<1>6. CASE /\ Len(wire) >= n
           /\ Echo!RegisterReply(Head(rbuf \o wire)[1], Head(rbuf \o wire)[2])
           /\ wire' = SubSeq(wire, n + 1, Len(wire)) /\ rbuf' = <<>>
  <2>1. Head(rbuf \o wire) \in Frames
    <3>1. rbuf \o wire \in Seq(Frames) /\ Len(rbuf \o wire) = Len(rbuf) + Len(wire)
      BY <1>1, ConcatProperties, Zenon
    <3>2. Len(rbuf \o wire) # 0
      BY <1>2, <3>1, SMT
    <3>3. rbuf \o wire # <<>>
      BY <3>1, <3>2, EmptySeq, SMT
    <3> QED BY <3>1, <3>3, HeadTailProperties, Zenon
  <2>2. Head(rbuf \o wire)[1] \in Echo!Keys
    <3>1. \A x \in Frames : x[1] \in Echo!Keys
      BY Zenon DEF Frames
    <3> QED BY <2>1, <3>1, Zenon
  <2>3. tries' \in [Ids -> Seq(Seqnos)] /\ echoes' \subseteq Echo!Keys /\ Echo!EchoBacked'
    BY <1>6, <2>2, ReplyRegistered, Zenon
  <2>4. /\ wire' \in Seq(Frames) /\ Len(wire') = Len(wire) - n /\ (\A i \in 1..Len(wire') : wire'[i] = wire[n + i])
        /\ Whole(wire')
    <3>1. n <= Len(wire)
      BY <1>2, <1>3, <1>6, SMT
    <3> QED BY <1>1, <1>3, <1>6, <3>1, PiecesRead, Zenon
  <2>5. wire' # <<>> => wire'[1][3] = 1
    <3> SUFFICES ASSUME wire' # <<>> PROVE wire'[1][3] = 1
      OBVIOUS
    <3>1. Len(wire') # 0 /\ Len(wire') \in Nat
      BY <2>4, EmptySeq, LenProperties, Zenon
    <3>2. 1 \in 1..Len(wire') /\ n \in 1..Len(wire) /\ n < Len(wire) /\ n - 1 \in 0..(n - 1) /\ 1 + (n - 1) = n
          /\ Len(rbuf) + 1 + (n - 1) = ReplySize
      BY <1>2, <1>3, <2>4, <3>1, SMT
    <3>3. wire'[1] = wire[n + 1]
      BY <2>4, <3>2, Zenon
    <3>4. wire[n][3] = ReplySize
      <4>1. wire[1 + (n - 1)] = <<wire[1][1], wire[1][2], Len(rbuf) + 1 + (n - 1)>>
        BY <1>4, <3>2
      <4>2. wire[n] = <<wire[1][1], wire[1][2], ReplySize>>
        BY <3>2, <4>1
      <4> QED BY <4>2
    <3> HIDE DEF n
    <3>5. wire[n + 1][3] = 1
      BY <1>1, <3>2, <3>4, Zenon DEF Whole
    <3> QED BY <3>3, <3>5
  <2>6. Begun(rbuf', wire')
    <3>1. Len(<<>>) = 0 /\ Len(<<>>) + 1 = 1 /\ \A i \in 1..Len(<<>>) : FALSE
      BY EmptySeq, SMT
    <3>2. Len(<<>>) < ReplySize
      BY <1>2, <3>1, SMT
    <3> QED BY <1>6, <2>5, <3>1, <3>2, Zenon DEF Begun
  <2>7. rbuf' \in Seq(Frames)
    BY <1>6, EmptySeq, Zenon
  <2>8. EchoTyped'
    BY <1>1, <1>5, <2>3, <2>4, <2>7 DEF EchoTyped
  <2> QED BY <2>3, <2>4, <2>6, <2>8 DEF EchoOK
<1>7. ASSUME NEW m \in 1..(n - 1), m <= Len(wire), rbuf' = rbuf \o SubSeq(wire, 1, m),
             wire' = SubSeq(wire, m + 1, Len(wire)), UNCHANGED <<echoes, tries>>
      PROVE  EchoOK'
  <2> DEFINE t == SubSeq(wire, 1, m)
  <2>0. m \in Nat /\ m >= 1 /\ m < n
    BY <1>2, <1>3, SMT
  <2>1. /\ wire' \in Seq(Frames) /\ Len(wire') = Len(wire) - m /\ (\A i \in 1..Len(wire') : wire'[i] = wire[m + i])
        /\ Whole(wire')
    BY <1>1, <1>7, <2>0, PiecesRead, Zenon
  <2>2. t \in Seq(Frames) /\ Len(t) = m /\ \A i \in 1..m : t[i] = wire[i]
    <3>1. \A i \in 1..m : wire[i] \in Frames
      <4>1. 1..m \subseteq 1..Len(wire)
        BY <1>2, <1>7, <2>0, SMT
      <4> QED BY <1>1, <4>1, ElementOfSeq, Zenon
    <3>2. m \in 0..Len(wire)
      BY <1>2, <1>7, <2>0, SMT
    <3>3. t \in Seq(Frames) /\ Len(t) = m
      BY ONLY <1>2, <2>0, <3>1, <3>2, SubSeqProperties, SMT DEF t
    <3>4. \A i \in 1..m : t[i] = wire[i]
      BY ONLY <1>2, <2>0, <3>1, <3>2, SubSeqProperties, SMT DEF t
    <3> QED BY <3>3, <3>4
  <2> HIDE DEF t
  <2>3. /\ rbuf' \in Seq(Frames) /\ Len(rbuf') = Len(rbuf) + m
        /\ \A i \in 1..Len(rbuf') : rbuf'[i] = IF i <= Len(rbuf) THEN rbuf[i] ELSE t[i - Len(rbuf)]
    <3>1. rbuf' = rbuf \o t
      BY <1>7 DEF t
    <3>2. rbuf' \in Seq(Frames) /\ Len(rbuf') = Len(rbuf) + Len(t)
      BY <1>1, <2>2, <3>1, ConcatProperties, Zenon
    <3>3. \A i \in 1..Len(rbuf) + Len(t) : rbuf'[i] = IF i <= Len(rbuf) THEN rbuf[i] ELSE t[i - Len(rbuf)]
      BY <1>1, <2>2, <3>1, ConcatProperties, Zenon
    <3> QED BY <2>2, <3>2, <3>3
  <2>4. /\ m \in 0..(n - 1) /\ 1 + m <= Len(wire) /\ wire[1 + m] = <<wire[1][1], wire[1][2], Len(rbuf) + 1 + m>>
    <3>1. m \in 0..(n - 1)
      BY <2>0, <1>3, SMT
    <3> QED BY <1>4, <3>1
  <2>5. 1 \in 1..Len(wire') /\ wire' # <<>> /\ wire'[1] = <<wire[1][1], wire[1][2], Len(rbuf) + 1 + m>>
    <3>1. Len(wire') # 0 /\ 1 \in 1..Len(wire')
      BY <1>2, <2>0, <2>1, <2>4, SMT
    <3>2. wire' # <<>>
      BY <3>1, EmptySeq, SMT
    <3>3. wire'[1] = wire[m + 1]
      BY <2>1, <3>1, Zenon
    <3>4. m + 1 = 1 + m
      BY <2>0, SMT
    <3> QED BY <2>4, <3>1, <3>2, <3>3, <3>4
  <2>6. wire'[1][1] = wire[1][1] /\ wire'[1][2] = wire[1][2] /\ wire'[1][3] = Len(rbuf) + 1 + m
    BY <2>5
  <2>7. ASSUME NEW i \in 1..Len(rbuf') PROVE rbuf'[i] = <<wire[1][1], wire[1][2], i>>
    <3>1. CASE i <= Len(rbuf)
      <4>1. i \in 1..Len(rbuf) /\ rbuf'[i] = rbuf[i]
        <5>1. i \in 1..Len(rbuf)
          BY <1>2, <2>0, <2>3, <3>1, SMT
        <5> QED BY <2>3, <3>1, <5>1, Zenon
      <4> QED BY <1>1, <4>1, Zenon DEF Begun
    <3>2. CASE ~(i <= Len(rbuf))
      <4> DEFINE e == i - Len(rbuf)
                 d == e - 1
      <4>1. e \in 1..m /\ d \in 0..(n - 1) /\ 1 + d = e /\ Len(rbuf) + 1 + d = i
        BY <1>2, <1>3, <2>0, <2>3, <3>2, SMT
      <4>2. rbuf'[i] = t[e] /\ t[e] = wire[e]
        BY <2>2, <2>3, <3>2, <4>1, Zenon
      <4> HIDE DEF e, d
      <4>3. wire[1 + d] = <<wire[1][1], wire[1][2], Len(rbuf) + 1 + d>>
        BY <1>4, <4>1
      <4> QED BY <4>1, <4>2, <4>3
    <3> QED BY <3>1, <3>2
  <2>8. Len(rbuf') < ReplySize /\ Len(rbuf) + 1 + m = Len(rbuf') + 1
    BY <1>2, <1>3, <2>0, <2>3, SMT
  <2>9. Begun(rbuf', wire')
    BY <2>5, <2>6, <2>7, <2>8, Zenon DEF Begun
  <2>10. EchoTyped'
    BY <1>1, <1>5, <1>7, <2>1, <2>3 DEF EchoTyped
  <2>11. Echo!EchoBacked'
    BY <1>1, <1>7 DEF Echo!EchoBacked
  <2> QED BY <2>1, <2>9, <2>10, <2>11 DEF EchoOK
<1>8. \/ /\ Len(wire) >= n
         /\ Echo!RegisterReply(Head(rbuf \o wire)[1], Head(rbuf \o wire)[2])
         /\ wire' = SubSeq(wire, n + 1, Len(wire)) /\ rbuf' = <<>>
      \/ \E m \in 1..(n - 1) : /\ m <= Len(wire)
                               /\ rbuf' = rbuf \o SubSeq(wire, 1, m) /\ wire' = SubSeq(wire, m + 1, Len(wire))
                               /\ UNCHANGED <<echoes, tries>>
  BY Zenon DEF Echo!MuxRead
<1> QED BY <1>6, <1>7, <1>8

\* An attempt is filed before the stack is told that the request went out.
LEMMA RequestFiled ==
  ASSUME EchoOK, NEW k \in Echo!Keys, Echo!EchoRequest(k)
  PROVE  EchoOK'
<1>1. EchoTyped /\ Echo!EchoBacked /\ Whole(wire) /\ Begun(rbuf, wire)
  BY DEF EchoOK
<1>2. CASE k \in echoes /\ echoes' = echoes \ {k} /\ UNCHANGED <<tries, socks, mux, asked, wire, rbuf, connected>>
  <2>1. EchoTyped' /\ Echo!EchoBacked'
    BY <1>1, <1>2, Zenon DEF EchoTyped, Echo!EchoBacked
  <2> QED BY <1>1, <1>2, <2>1 DEF EchoOK
<1>3. ASSUME NEW ok \in BOOLEAN, Echo!TunnelRequest(k, ok), echoes' = IF ok THEN echoes \cup {k} ELSE echoes
      PROVE  EchoOK'
  <2>1. CASE ~ok /\ UNCHANGED <<tries, socks, mux, asked, wire, rbuf>>
    <3>1. UNCHANGED <<echoes, tries, socks, asked, wire, rbuf>>
      BY <1>3, <2>1, Zenon
    <3>2. EchoTyped' /\ Echo!EchoBacked'
      BY <1>1, <3>1 DEF EchoTyped, Echo!EchoBacked
    <3> QED BY <1>1, <3>1, <3>2 DEF EchoOK
  <2>2. CASE /\ tries' = [tries EXCEPT ![k[1]] = Append(@, k[2])]
             /\ \/ Echo!MuxSend(k, ok)
                \/ Echo!DirectSend(k, ok)
                \/ ok /\ UNCHANGED <<socks, mux, asked, wire, rbuf>>
    <3>1. wire' = wire /\ rbuf' = rbuf
      BY <2>2, Zenon DEF Echo!MuxSend, Echo!DirectSend
    <3>2. asked' \subseteq Echo!Keys /\ socks' \subseteq Echo!Keys
      BY <1>1, <2>2, Zenon DEF Echo!MuxSend, Echo!DirectSend, EchoTyped
    <3>3. k[1] \in Ids /\ k[2] \in Seqnos /\ tries[k[1]] \in Seq(Seqnos)
      BY <1>1, Zenon DEF Echo!Keys, EchoTyped
    <3> DEFINE s == tries[k[1]]
               a == Append(s, k[2])
    <3>4. /\ a \in Seq(Seqnos) /\ DOMAIN a = 1..(Len(s) + 1) /\ DOMAIN s = 1..Len(s) /\ Len(s) \in Nat
          /\ a[Len(s) + 1] = k[2] /\ \A i \in 1..Len(s) : a[i] = s[i]
      <4>1. a \in Seq(Seqnos) /\ Len(a) = Len(s) + 1 /\ a[Len(s) + 1] = k[2] /\ \A i \in 1..Len(s) : a[i] = s[i]
        BY <3>3, AppendProperties, SMT
      <4> QED BY <3>3, <4>1, LenProperties, Zenon
    <3> HIDE DEF a
    <3>5. tries' \in [Ids -> Seq(Seqnos)] /\ tries'[k[1]] = a
      BY <1>1, <2>2, <3>3, <3>4, Zenon DEF EchoTyped, a
    <3>6. k[2] \in Echo!Range(a) /\ Echo!Range(s) \subseteq Echo!Range(a)
      <4>1. Len(s) + 1 \in DOMAIN a /\ DOMAIN s \subseteq DOMAIN a
        BY <3>4, SMT
      <4> QED BY <3>4, <4>1, ZenonT(40) DEF Echo!Range
    <3>7. ASSUME NEW x \in echoes' PROVE x[2] \in Echo!Range(tries'[x[1]])
      <4>1. CASE x = k
        BY <3>5, <3>6, <4>1, Zenon
      <4>2. CASE x # k
        <5>1. x \in echoes /\ x \in Echo!Keys /\ x[2] \in Echo!Range(tries[x[1]])
          BY <1>1, <1>3, <3>7, <4>2, Zenon DEF Echo!EchoBacked, EchoTyped
        <5>2. x[1] \in Ids
          BY <5>1, Zenon DEF Echo!Keys
        <5>3. CASE x[1] = k[1]
          BY <3>5, <3>6, <5>1, <5>3, Zenon
        <5>4. CASE x[1] # k[1]
          <6>1. tries'[x[1]] = tries[x[1]]
            BY <1>1, <2>2, <5>2, <5>4, Zenon DEF EchoTyped
          <6> QED BY <5>1, <6>1
        <5> QED BY <5>3, <5>4
      <4> QED BY <4>1, <4>2
    <3>8. Echo!EchoBacked'
      BY <3>7, Zenon DEF Echo!EchoBacked
    <3>9. echoes' \subseteq Echo!Keys
      BY <1>1, <1>3, Zenon DEF EchoTyped
    <3>10. EchoTyped'
      BY <1>1, <3>1, <3>2, <3>5, <3>9 DEF EchoTyped
    <3> QED BY <1>1, <3>1, <3>8, <3>10 DEF EchoOK
  <2> QED BY <1>3, <2>1, <2>2, Zenon DEF Echo!TunnelRequest
<1> QED BY <1>2, <1>3, Zenon DEF Echo!EchoRequest

\* The attempts whose time is over go with the packets that wait for them.
LEMMA AttemptsTimedOut ==
  ASSUME EchoOK, Echo!TimerCallback
  PROVE  EchoOK'
<1>1. EchoTyped /\ Echo!EchoBacked /\ Whole(wire) /\ Begun(rbuf, wire)
  BY DEF EchoOK
<1>2. PICK n \in [Ids -> 0..Echo!Cardinality(Seqnos)] :
         /\ \A i \in Ids : n[i] <= Len(tries[i])
         /\ Echo!StackReply(UNION {{<<i, tries[i][j]>> : j \in 1..n[i]} : i \in Ids})
         /\ tries' = [i \in Ids |-> SubSeq(tries[i], n[i] + 1, Len(tries[i]))]
  BY Zenon DEF Echo!TimerCallback
<1>3. Echo!Cardinality(Seqnos) \in Nat
  <2>1. Echo!Cardinality(Seqnos) = Cardinality(Seqnos)
    BY Zenon DEF Echo!Cardinality, Cardinality
  <2> QED BY <2>1, EchoAssumption, FS_CardinalityType, Zenon
<1> DEFINE left(i) == SubSeq(tries[i], n[i] + 1, Len(tries[i]))
<1>4. ASSUME NEW i \in Ids
      PROVE  /\ left(i) \in Seq(Seqnos) /\ n[i] \in Nat /\ Len(tries[i]) \in Nat /\ DOMAIN tries[i] = 1..Len(tries[i])
             /\ DOMAIN left(i) = 1..(Len(tries[i]) - n[i])
             /\ \A j \in 1..(Len(tries[i]) - n[i]) : left(i)[j] = tries[i][n[i] + j]
  <2> DEFINE s == tries[i]
             m == n[i]
             b == SubSeq(s, m + 1, Len(s))
  <2>1. s \in Seq(Seqnos) /\ m \in 0..Echo!Cardinality(Seqnos) /\ m <= Len(s)
    BY <1>1, <1>2, Zenon DEF EchoTyped
  <2>2. Len(s) \in Nat /\ DOMAIN s = 1..Len(s) /\ \A j \in 1..Len(s) : s[j] \in Seqnos
    BY <2>1, LenProperties, ElementOfSeq, Zenon
  <2>3. m \in Nat
    BY <1>3, <2>1, SMT
  <2> HIDE DEF s, m
  <2>4. b \in Seq(Seqnos) /\ Len(b) = Len(s) - m /\ \A j \in 1..(Len(s) - m) : b[j] = s[m + j]
    BY <2>1, <2>3, FirstDropped, Zenon
  <2>5. DOMAIN b = 1..(Len(s) - m)
    BY <2>4, LenProperties, Zenon
  <2> QED BY <2>2, <2>3, <2>4, <2>5 DEF s, m, b
<1> HIDE DEF left
<1>5. tries' = [i \in Ids |-> left(i)]
  BY <1>2 DEF left
<1>6. tries' \in [Ids -> Seq(Seqnos)] /\ \A i \in Ids : tries'[i] = left(i)
  BY <1>4, <1>5, Zenon
<1>7. ASSUME NEW x \in echoes' PROVE x[2] \in Echo!Range(tries'[x[1]])
  <2> DEFINE i == x[1]
  <2>1. /\ x \in echoes /\ x \in Echo!Keys /\ x[2] \in Echo!Range(tries[i])
        /\ x \notin UNION {{<<h, tries[h][j]>> : j \in 1..n[h]} : h \in Ids}
    BY <1>1, <1>2, <1>7, Zenon DEF Echo!EchoBacked, EchoTyped, Echo!StackReply
  <2>2. i \in Ids /\ x = <<i, x[2]>>
    BY <2>1, SMT DEF Echo!Keys
  <2>3. PICK j \in DOMAIN tries[i] : x[2] = tries[i][j]
    BY <2>1, Zenon DEF Echo!Range
  <2>4. j \notin 1..n[i]
    <3> SUFFICES ASSUME j \in 1..n[i] PROVE FALSE
      OBVIOUS
    <3>1. x = <<i, tries[i][j]>>
      BY <2>2, <2>3
    <3>2. x \in {<<i, tries[i][jj]>> : jj \in 1..n[i]}
      BY <3>1
    <3>3. {<<i, tries[i][jj]>> : jj \in 1..n[i]} \in {{<<h, tries[h][jj]>> : jj \in 1..n[h]} : h \in Ids}
      BY <2>2
    <3> QED BY <2>1, <3>2, <3>3, Zenon
  <2> HIDE DEF i
  <2>5. j - n[i] \in 1..(Len(tries[i]) - n[i]) /\ n[i] + (j - n[i]) = j
    <3>1. n[i] \in Nat /\ Len(tries[i]) \in Nat /\ j \in 1..Len(tries[i])
      BY <1>4, <2>2, <2>3, Zenon
    <3> QED BY <2>4, <3>1, SMT
  <2>6. j - n[i] \in DOMAIN left(i) /\ left(i)[j - n[i]] = x[2]
    BY <1>4, <2>2, <2>3, <2>5, Zenon
  <2>7. x[2] \in Echo!Range(left(i))
    BY <2>6, Zenon DEF Echo!Range
  <2> QED BY <1>6, <2>2, <2>7, Zenon DEF i
<1>8. Echo!EchoBacked'
  BY <1>7, Zenon DEF Echo!EchoBacked
<1>9. UNCHANGED <<socks, asked, wire, rbuf>> /\ echoes' \subseteq Echo!Keys
  BY <1>1, <1>2, Zenon DEF Echo!TimerCallback, Echo!StackReply, EchoTyped
<1>10. EchoTyped'
  BY <1>1, <1>6, <1>9 DEF EchoTyped
<1> QED BY <1>1, <1>8, <1>9, <1>10 DEF EchoOK

LEMMA EchoStep == EchoOK /\ [Echo!Next]_echoVars => EchoOK'
<1> SUFFICES ASSUME EchoOK, [Echo!Next]_echoVars PROVE EchoOK'
  OBVIOUS
<1>1. EchoTyped /\ Echo!EchoBacked /\ Whole(wire) /\ Begun(rbuf, wire)
  BY DEF EchoOK
<1>2. CASE UNCHANGED <<echoes, tries, socks, asked, wire, rbuf>>
  BY <1>1, <1>2 DEF EchoOK, EchoTyped, Echo!EchoBacked
<1>3. CASE UNCHANGED echoVars \/ Echo!SessionChanges
  BY <1>2, <1>3, Zenon DEF echoVars, Echo!SessionChanges
<1>4. ASSUME NEW k \in Echo!Keys, Echo!EchoRequest(k) PROVE EchoOK'
  BY <1>4, RequestFiled
<1>5. CASE Echo!EndpointReplies
  <2>1. PICK k \in asked, t \in {"ECHO_REPLY", "UNREACHABLE"} : wire' = wire \o [i \in 1..ReplySize |-> <<k, t, i>>]
    BY <1>5, Zenon DEF Echo!EndpointReplies
  <2>2. k \in Echo!Keys /\ t \in Echo!Types /\ wire \in Seq(Frames)
    BY <1>1, <2>1, Zenon DEF EchoTyped, Echo!Types
  <2>3. wire' \in Seq(Frames) /\ Whole(wire') /\ wire' # <<>> /\ wire'[1] = IF wire = <<>> THEN <<k, t, 1>> ELSE wire[1]
    BY <1>1, <2>1, <2>2, ReplyOnWire, Zenon
  <2>4. UNCHANGED <<echoes, tries, socks, asked, rbuf>>
    BY <1>5, Zenon DEF Echo!EndpointReplies
  <2>5. Begun(rbuf', wire')
    <3>1. CASE wire # <<>>
      BY <1>1, <2>3, <2>4, <3>1, Zenon DEF Begun
    <3>2. CASE wire = <<>>
      <4>1. rbuf \in Seq(Frames) /\ Len(rbuf) \in Nat /\ Len(rbuf) < ReplySize /\ \A i \in 1..Len(rbuf) : FALSE
        BY <1>1, <3>2, LenProperties, Zenon DEF Begun, EchoTyped
      <4>2. Len(rbuf) = 0
        BY <4>1, SMT
      <4>3. wire'[1][3] = Len(rbuf) + 1
        BY <2>3, <3>2, <4>2, SMT
      <4> QED BY <2>3, <2>4, <4>1, <4>3, Zenon DEF Begun
    <3> QED BY <3>1, <3>2
  <2>6. EchoTyped' /\ Echo!EchoBacked'
    BY <1>1, <2>3, <2>4 DEF EchoTyped, Echo!EchoBacked
  <2> QED BY <2>3, <2>5, <2>6 DEF EchoOK
<1>6. CASE Echo!MuxRead
  BY <1>6, MuxHasRead
<1>7. CASE Echo!StreamClosed
  <2>1. asked' = {} /\ wire' = <<>> /\ rbuf' = <<>> /\ UNCHANGED <<echoes, tries, socks>>
    BY <1>7, Zenon DEF Echo!StreamClosed, Echo!MuxClose
  <2>2. <<>> \in Seq(Frames) /\ Len(<<>>) = 0
    BY EmptySeq, SMT
  <2>3. EchoTyped' /\ Echo!EchoBacked'
    BY <1>1, <2>1, <2>2, Zenon DEF EchoTyped, Echo!EchoBacked
  <2>4. Whole(<<>>) /\ Begun(<<>>, <<>>)
    BY <2>2, EchoAssumption, SMT DEF Whole, Begun
  <2> QED BY <2>1, <2>3, <2>4 DEF EchoOK
<1>8. CASE Echo!DirectReply
  <2>1. PICK k \in socks, type \in Echo!Types : Echo!RegisterReply(k, type) /\ socks' = socks \ {k}
    BY <1>8, Zenon DEF Echo!DirectReply
  <2>2. tries' \in [Ids -> Seq(Seqnos)] /\ echoes' \subseteq Echo!Keys /\ Echo!EchoBacked'
    BY <1>1, <2>1, ReplyRegistered, Zenon DEF EchoTyped
  <2>3. UNCHANGED <<asked, wire, rbuf>>
    BY <1>8, Zenon DEF Echo!DirectReply
  <2>4. EchoTyped'
    BY <1>1, <2>1, <2>2, <2>3, Zenon DEF EchoTyped
  <2> QED BY <1>1, <2>2, <2>3, <2>4 DEF EchoOK
<1>9. CASE Echo!TimerCallback
  BY <1>9, AttemptsTimedOut
<1> QED BY <1>3, <1>4, <1>5, <1>6, <1>7, <1>8, <1>9 DEF Echo!Next

LEMMA EchoIsServed == EchoOK => EchoServed
<1> SUFFICES ASSUME EchoOK PROVE EchoServed
  OBVIOUS
<1>1. Echo!EchoBacked /\ Begun(rbuf, wire) /\ rbuf \in Seq(Frames)
  BY DEF EchoOK, EchoTyped
<1>2. Echo!RepliesAligned
  <2> SUFFICES ASSUME NEW i \in 1..Len(rbuf)
               PROVE  /\ rbuf[i][3] = i /\ rbuf[i][1] = rbuf[1][1] /\ rbuf[i][2] = rbuf[1][2]
                      /\ wire # <<>> /\ wire[1][3] = Len(rbuf) + 1
    BY Zenon DEF Echo!RepliesAligned
  <2>1. 1 \in 1..Len(rbuf)
    <3>1. Len(rbuf) \in Nat
      BY <1>1, LenProperties, Zenon
    <3> QED BY <3>1, SMT
  <2>2. wire # <<>> /\ rbuf[i] = <<wire[1][1], wire[1][2], i>> /\ rbuf[1] = <<wire[1][1], wire[1][2], 1>>
    BY <1>1, <2>1, Zenon DEF Begun
  <2>3. wire[1][3] = Len(rbuf) + 1
    BY <1>1, <2>2, Zenon DEF Begun
  <2> QED BY <2>2, <2>3
<1> QED BY <1>1, <1>2 DEF EchoServed

-----------------------------------------------------------------------------
(* The device.                                                             *)

LEMMA DeviceInvariant == DeviceSpec => [](StackOK /\ EchoOK)
<1>1. DeviceInit => StackOK /\ EchoOK
  BY StackInit, EchoInit DEF DeviceInit
<1>2. StackOK /\ EchoOK /\ [DeviceNext]_<<part, vars, echoVars>> => StackOK' /\ EchoOK'
  <2> SUFFICES ASSUME StackOK, EchoOK, [DeviceNext]_<<part, vars, echoVars>> PROVE StackOK' /\ EchoOK'
    OBVIOUS
  <2>1. [Next]_vars /\ [Echo!Next]_echoVars
    BY Zenon DEF DeviceNext
  <2> QED BY <2>1, StackStep, EchoStep
<1> QED BY <1>1, <1>2, PTL DEF DeviceSpec

\* Whatever the tunnel takes, pauses or refuses, what it has of a TCP flow with what the listener keeps for it is
\* what the client has sent, in order and without a gap, and of a UDP flow it is a subsequence
\* (tcp_conn_manager.cpp, udp_conn_manager.cpp, tun_device_listener.cpp).
THEOREM StreamsDelivered == DeviceSpec => []StreamInOrder
BY DeviceInvariant, StackServes, PTL

\* Data that is kept for a connection whose reads are on is about to be read out: turn_read and complete_read
\* leave no client waiting for data that sits in the listener (tun_device_listener.cpp).
THEOREM KeptIsServed == DeviceSpec => []UnreadServed
BY DeviceInvariant, StackServes, PTL

\* A packet that waits for an echo reply has the attempt that ends it, and the replies that arrive in pieces never
\* lose their frame (icmp_manager.cpp, ip_hooks.cpp, http_icmp_multiplexer.cpp).
THEOREM EchoesServed == DeviceSpec => []EchoServed
BY DeviceInvariant, EchoIsServed, PTL
=============================================================================
