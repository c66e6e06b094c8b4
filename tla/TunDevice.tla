------------------------------ MODULE TunDevice ------------------------------
(* What sits behind the TUN device: the flows of TunStack and the echo requests *)
(* of Icmp. The two share nothing but the stack they run on: a behaviour is one *)
(* of TunStack or one of Icmp.                                                  *)
EXTENDS TunStack, FiniteSets

CONSTANTS Ids, Seqnos, ReplySize, MaxWire

VARIABLES part, echoes, tries, socks, mux, asked, wire, rbuf, connected

echoVars == <<echoes, tries, socks, mux, asked, wire, rbuf, connected>>

Echo == INSTANCE Icmp WITH desc <- echoes, sent <- asked

\* The sequence numbers of a request are a finite type, and a reply has a size.
ASSUME EchoAssumption == IsFiniteSet(Seqnos) /\ ReplySize \in Nat \ {0} /\ MaxWire \in Nat

DeviceInit == part \in {"flows", "echo"} /\ Init /\ Echo!Init

DeviceNext == \/ part = "flows" /\ Next /\ UNCHANGED <<part, echoVars>>
              \/ part = "echo" /\ Echo!Next /\ UNCHANGED <<part, vars>>

DeviceSpec == DeviceInit /\ [][DeviceNext]_<<part, vars, echoVars>> /\ Fairness

\* A packet that waits in the stack for an echo reply has an attempt that IcmpManager times
\* (core/src/icmp_manager.cpp), and HttpIcmpMultiplexer never loses the frame of the replies it reads in
\* pieces; see Icmp.
EchoServed == Echo!EchoBacked /\ Echo!RepliesAligned
=============================================================================
