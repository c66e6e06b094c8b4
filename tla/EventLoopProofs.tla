---------------------------- MODULE EventLoopProofs ----------------------------
(***************************************************************************)
(* Proofs about the event loop, for any number of threads, task numbers    *)
(* and any budget: every task is finalized exactly once, no wake-up of the *)
(* loop is lost, tasks begin in the order of their numbers, and the state  *)
(* machine of the session is never run by two threads at once.             *)
(***************************************************************************)
EXTENDS EventLoop, FiniteSetTheorems, SequenceTheorems, WellFoundedInduction, TLAPS

-----------------------------------------------------------------------------
(* The inductive invariant, part by part.                                  *)

\* What a thread at a step of a call has behind it.
InCall(r) ==
  /\ r.at = "idle" <=> r.op = "none"
  /\ r.at = "idle" => r = NoCall
  /\ r.at \in {"lock", "body", "dispatch"} => r.task = -1
  /\ r.at = "dispatch" => r.op = "connect"
  /\ r.at = "arm" => /\ r.task # -1
                     /\ \/ r.next = "wait" /\ r.op \in {"connect", "listen"}
                        \/ r.next = "return"
                        \/ r.next = "assign" /\ r.op = "update"
                        \/ r.next = "exit" /\ r.op = "stop"
  /\ r.at = "wait" => r.op \in {"connect", "listen"} /\ r.next = "wait" /\ r.task # -1
  /\ r.at = "post" => r.op = "connect" /\ r.next = "wait" /\ r.task # -1
  /\ r.at = "assign" => r.op = "update" /\ r.task # -1
  /\ r.at = "finalize" => r.cancelled # -1
  /\ r.at \in {"exit", "stopping", "waiting", "join"} => r.op \in {"stop", "connect"}
  /\ r.at = "reset" => r.op = "stop"

\* A thread is past the lock of its call exactly while it owns stop_guard.
Locked ==
  \A t \in Threads :
    /\ InCall(thread[t])
    /\ thread[t].at \in {"idle", "lock"} <=> stop_guard # t

\* The task numbers a call has used of the two that are kept for it.
Used(r) == IF r.task = -1 THEN 0 ELSE IF r.op = "connect" /\ r.next = "return" THEN 2 ELSE 1

\* There is a number for every call that is in progress.
NumbersKept ==
  g_next_task_id + Reserved <= MaxId + (IF stop_guard = Nobody THEN 0 ELSE Used(thread[stop_guard]))

Ascending(q) == \A i, j \in 1..Len(q) : i < j => q[i] < q[j]

\* The executor, or a thread that cancels it, has the task.
ExecutorHas(id) == executor.pc \in {"action", "finalize"} /\ executor.task = id
ThreadHas(id) == \E t \in Threads : thread[t].at = "finalize" /\ thread[t].cancelled = id

\* A task is in one place, and the log knows which.
Logged ==
  /\ Ascending(loop.task_queue)
  /\ \A id \in Ids :
       /\ log[id].place = "none" <=> id >= g_next_task_id
       /\ log[id].place = "task_queue" <=> id \in ToSet(loop.task_queue)
       /\ log[id].place = "deferred_task_queue" <=> id \in loop.deferred_task_queue
       /\ log[id].place = "taken" <=> ExecutorHas(id) \/ ThreadHas(id)
       /\ ~(ExecutorHas(id) /\ ThreadHas(id))
       /\ log[id].finals = IF log[id].place = "finalized" THEN 1 ELSE 0

Running == {"poll", "queue", "action", "finalize", "returned"}

\* How the state of the loop follows its executor and the thread that stops it.
Phases ==
  /\ executor.pc \in Running <=> loop.state = "ELS_RUNNING"
  /\ executor.pc \in {"action", "finalize"} => executor.task # -1
  /\ executor.pc = "queue" => executor.back = "queue"
  /\ executor.pc = "begin" =>
       \E t \in Threads :
         /\ thread[t].op = "connect"
         /\ \/ thread[t].at = "dispatch"
            \/ /\ thread[t].at \in {"arm", "wait"} /\ thread[t].next = "wait"
               /\ log[thread[t].task].place = "task_queue"
  /\ loop.stopping_externally \/ loop.state = "ELS_BASE_EXITED" =>
       \E t \in Threads : thread[t].at = "waiting"
  /\ loop.state = "nullptr" =>
       executor.pc = "none" /\ loop.task_queue = <<>> /\ loop.deferred_task_queue = {}
  /\ \A t \in Threads :
       /\ thread[t].at \in {"dispatch", "arm", "wait", "post"} => loop.state # "nullptr"
       /\ thread[t].at \in {"join", "reset"} =>
            /\ loop.task_queue = <<>> /\ loop.deferred_task_queue = {}
            /\ executor.pc \in {"none", "failing", "ended"}
       /\ thread[t].at = "reset" => executor.pc = "none"

\* Somebody answers for task_queue_scheduled.
Answered ==
  \/ loop.callbacks > 0
  \/ executor.pc = "queue"
  \/ executor.pc \in {"action", "finalize"} /\ executor.back = "queue"
  \/ \E t \in Threads : thread[t].at = "arm"

Scheduled ==
  /\ loop.task_queue # <<>> => loop.task_queue_scheduled
  /\ loop.task_queue_scheduled => Answered

LoopConsistent == TypeOK /\ Locked /\ NumbersKept /\ Logged /\ Phases /\ Scheduled

-----------------------------------------------------------------------------
(* Facts about the constants and the queue.                                *)

\* Nobody is not a thread, and numbers are naturals below MaxId.
LEMMA Constants ==
  /\ MaxId \in Nat /\ Budget \in Nat \ {0} /\ LoopMayFail \in BOOLEAN
  /\ IsFiniteSet(Threads) /\ Nobody \notin Threads
  /\ \A id \in Ids : id \in Nat /\ id < MaxId
  /\ -1 \notin Ids
  BY EventLoopAssumption DEF Nobody, Ids

\* The empty queue.
LEMMA EmptyQueue ==
  <<>> \in Seq(Ids) /\ Ascending(<<>>) /\ ToSet(<<>>) = {}
  BY DEF Ascending, ToSet

\* A queue and the set of its tasks.
LEMMA QueueSet ==
  ASSUME NEW q \in Seq(Ids)
  PROVE  /\ ToSet(q) = {q[i] : i \in 1..Len(q)}
         /\ ToSet(q) \subseteq Ids
         /\ q = <<>> <=> ToSet(q) = {}
<1>1. ToSet(q) = {q[i] : i \in 1..Len(q)}
  BY LenProperties DEF ToSet
<1>2. \A i \in 1..Len(q) : q[i] \in Ids
  BY ElementOfSeq
<1>3. ASSUME q # <<>> PROVE ToSet(q) # {}
  <2>1. 1 \in 1..Len(q)
    BY <1>3, EmptySeq, LenProperties
  <2>2. q[1] \in ToSet(q)
    BY <1>1, <2>1
  <2> QED
    BY <2>2
<1> QED
  BY <1>1, <1>2, <1>3, EmptyQueue

\* A number above those of the queue is put at its end.
LEMMA AppendedQueue ==
  ASSUME NEW q \in Seq(Ids), NEW id \in Ids, Ascending(q), \A x \in ToSet(q) : x < id
  PROVE  /\ Append(q, id) \in Seq(Ids)
         /\ Append(q, id) # <<>>
         /\ Ascending(Append(q, id))
         /\ ToSet(Append(q, id)) = ToSet(q) \cup {id}
<1>1. /\ Append(q, id) \in Seq(Ids)
      /\ Len(q) \in Nat
      /\ Len(Append(q, id)) = Len(q) + 1
      /\ \A i \in 1..Len(q) : Append(q, id)[i] = q[i]
      /\ Append(q, id)[Len(q) + 1] = id
  BY LenProperties
<1>2. \A i \in 1..Len(q) : q[i] \in ToSet(q) /\ q[i] < id
  BY QueueSet
<1>3. Ascending(Append(q, id))
  <2>1. SUFFICES ASSUME NEW i \in 1..Len(q) + 1, NEW j \in 1..Len(q) + 1, i < j
                 PROVE  Append(q, id)[i] < Append(q, id)[j]
    BY <1>1 DEF Ascending
  <2>2. i \in 1..Len(q)
    BY <1>1, <2>1
  <2>3. CASE j = Len(q) + 1
    BY <1>1, <1>2, <2>2, <2>3
  <2>4. CASE j # Len(q) + 1
    <3>1. j \in 1..Len(q)
      BY <1>1, <2>4
    <3> QED
      BY <1>1, <2>1, <2>2, <3>1 DEF Ascending
  <2> QED
    BY <2>3, <2>4
<1>4. ToSet(Append(q, id)) = {Append(q, id)[i] : i \in 1..Len(q) + 1}
  BY <1>1, QueueSet
<1>5. ToSet(Append(q, id)) = ToSet(q) \cup {id}
  <2>1. \A i \in 1..Len(q) + 1 : i \in 1..Len(q) \/ i = Len(q) + 1
    BY <1>1
  <2>2. \A i \in 1..Len(q) : i \in 1..Len(q) + 1
    BY <1>1
  <2>3. Len(q) + 1 \in 1..Len(q) + 1
    BY <1>1
  <2> QED
    BY <1>1, <1>4, <2>1, <2>2, <2>3, QueueSet
<1> QED
  BY <1>1, <1>3, <1>5, QueueSet

\* The first task of the queue is its least, and the rest is what is left without it.
LEMMA TailOfQueue ==
  ASSUME NEW q \in Seq(Ids), q # <<>>, Ascending(q)
  PROVE  /\ Tail(q) \in Seq(Ids)
         /\ Head(q) \in ToSet(q)
         /\ Ascending(Tail(q))
         /\ ToSet(Tail(q)) = ToSet(q) \ {Head(q)}
         /\ \A x \in ToSet(q) : Head(q) <= x
<1>1. /\ Tail(q) \in Seq(Ids)
      /\ Len(q) \in Nat \ {0}
      /\ Len(Tail(q)) = Len(q) - 1
      /\ \A i \in 1..Len(q) - 1 : Tail(q)[i] = q[i + 1]
      /\ Head(q) = q[1]
  BY HeadTailProperties, EmptySeq
<1>2. \A i \in 1..Len(q) : q[i] \in Ids /\ q[i] \in Nat
  BY ElementOfSeq, Constants
<1>3. \A i \in 1..Len(q) : i # 1 => q[1] < q[i]
  BY <1>1 DEF Ascending
<1>4. Ascending(Tail(q))
  BY <1>1 DEF Ascending
<1>5. Head(q) \in ToSet(q) /\ \A x \in ToSet(q) : Head(q) <= x
  BY <1>1, <1>2, <1>3, QueueSet
<1>6. ToSet(Tail(q)) = {Tail(q)[i] : i \in 1..Len(q) - 1}
  BY <1>1, QueueSet
<1>7. ASSUME NEW x PROVE x \in ToSet(Tail(q)) <=> x \in ToSet(q) \ {Head(q)}
  <2>1. ASSUME NEW i \in 1..Len(q) - 1, x = Tail(q)[i] PROVE x \in ToSet(q) \ {Head(q)}
    <3>1. i + 1 \in 1..Len(q) /\ i + 1 # 1
      BY <1>1
    <3>2. x = q[i + 1] /\ q[1] < q[i + 1]
      BY <1>1, <1>3, <2>1, <3>1
    <3> QED
      BY <1>1, <1>2, <3>1, <3>2, QueueSet
  <2>2. ASSUME NEW i \in 1..Len(q), x = q[i], x # Head(q) PROVE x \in ToSet(Tail(q))
    <3>1. i - 1 \in 1..Len(q) - 1 /\ (i - 1) + 1 = i
      BY <1>1, <2>2
    <3>2. Tail(q)[i - 1] = x
      BY <1>1, <2>2, <3>1
    <3> QED
      BY <1>6, <3>1, <3>2
  <2> QED
    BY <1>6, <2>1, <2>2, QueueSet
<1> QED
  BY <1>1, <1>4, <1>5, <1>7

\* A set of naturals that is not empty has a least element.
LEMMA LeastOf ==
  ASSUME NEW S, S \subseteq Nat, S # {}
  PROVE  Min(S) \in S
<1>1. PICK x \in S : \A y \in S : ~(<<y, x>> \in OpToRel(<, Nat))
  BY NatLessThanWellFounded, WFMin
<1>2. \A y \in S : y < x => <<y, x>> \in OpToRel(<, Nat)
  BY DEF OpToRel
<1>3. \A y \in S : ~(y < x)
  BY <1>1, <1>2, Zenon
<1>4. \E z \in S : \A y \in S : z <= y
  BY <1>3
<1> QED
  BY <1>4 DEF Min

\* What vpn_event_loop_cancel leaves of the queue.
LEMMA RemovedFromQueue ==
  ASSUME NEW q \in Seq(Ids), NEW id, Ascending(q)
  PROVE  /\ RemoveFirst(q, id) \in Seq(Ids)
         /\ Ascending(RemoveFirst(q, id))
         /\ ToSet(RemoveFirst(q, id)) = ToSet(q) \ {id}
<1> DEFINE I == {i \in 1..Len(q) : q[i] = id}
<1>1. Len(q) \in Nat /\ \A i \in 1..Len(q) : q[i] \in Ids /\ q[i] \in Nat
  BY LenProperties, ElementOfSeq, Constants
<1>2. CASE I = {}
  <2>1. RemoveFirst(q, id) = q
    BY <1>2 DEF RemoveFirst
  <2> QED
    BY <1>2, <2>1, QueueSet
<1>3. CASE I # {}
  <2>1. I \subseteq Nat
    BY <1>1
  <2>2. Min(I) \in I
    BY <1>3, <2>1, LeastOf
  <2>3. SelectInSeq(q, LAMBDA v : v = id) = Min(I)
    BY <1>3 DEF SelectInSeq
  <2>4. RemoveFirst(q, id) = RemoveAt(q, Min(I))
    BY <1>3, <2>3 DEF RemoveFirst
  <2> HIDE DEF I
  <2>5. PICK k \in 1..Len(q) : k = Min(I) /\ q[k] = id
    BY <2>2 DEF I
  <2> DEFINE a == SubSeq(q, 1, k - 1)
             b == SubSeq(q, k + 1, Len(q))
             r == RemoveFirst(q, id)
  <2>6. a \in Seq(Ids) /\ Len(a) = k - 1 /\ \A i \in 1..k - 1 : a[i] = q[i]
    BY <1>1, SubSeqProperties
  <2>7. b \in Seq(Ids) /\ Len(b) = Len(q) - k /\ \A i \in 1..Len(q) - k : b[i] = q[k + i]
    <3>1. \A i \in k + 1..Len(q) : q[i] \in Ids
      BY <1>1
    <3>2. k + 1 \in Int /\ Len(q) \in Int
      BY <1>1
    <3>3. /\ b \in Seq(Ids)
          /\ Len(b) = IF k + 1 <= Len(q) THEN Len(q) - (k + 1) + 1 ELSE 0
          /\ \A i \in 1..Len(q) - (k + 1) + 1 : b[i] = q[(k + 1) + i - 1]
      BY <3>1, <3>2, SubSeqProperties
    <3> HIDE DEF b
    <3> QED
      BY <1>1, <3>3
  <2>8. r = a \o b
    BY <2>4, <2>5 DEF RemoveAt
  <2> HIDE DEF a, b
  <2>9. /\ r \in Seq(Ids)
        /\ Len(r) = Len(q) - 1
        /\ \A i \in 1..Len(q) - 1 : r[i] = IF i < k THEN q[i] ELSE q[i + 1]
    <3>1. /\ a \o b \in Seq(Ids)
          /\ Len(a \o b) = Len(a) + Len(b)
          /\ \A i \in 1..Len(a) + Len(b) :
               (a \o b)[i] = IF i <= Len(a) THEN a[i] ELSE b[i - Len(a)]
      BY <2>6, <2>7, ConcatProperties
    <3>2. Len(a) + Len(b) = Len(q) - 1
      BY <1>1, <2>6, <2>7
    <3>3. ASSUME NEW i \in 1..Len(q) - 1 PROVE r[i] = IF i < k THEN q[i] ELSE q[i + 1]
      <4>1. CASE i < k
        BY <1>1, <2>6, <2>8, <3>1, <3>2, <4>1
      <4>2. CASE ~(i < k)
        <5>1. i - (k - 1) \in 1..Len(q) - k /\ k + (i - (k - 1)) = i + 1
          BY <1>1, <4>2
        <5>2. r[i] = b[i - (k - 1)]
          BY <1>1, <2>6, <2>8, <3>1, <3>2, <4>2
        <5> QED
          BY <2>7, <4>2, <5>1, <5>2
      <4> QED
        BY <4>1, <4>2
    <3> QED
      BY <2>8, <3>1, <3>2, <3>3
  <2> HIDE DEF r
  <2>10. Ascending(r)
    <3>1. SUFFICES ASSUME NEW i \in 1..Len(q) - 1, NEW j \in 1..Len(q) - 1, i < j
                   PROVE  r[i] < r[j]
      BY <2>9 DEF Ascending
    <3>2. PICK m \in 1..Len(q) : m = IF i < k THEN i ELSE i + 1
      BY <1>1
    <3>3. PICK n \in 1..Len(q) : n = IF j < k THEN j ELSE j + 1
      BY <1>1
    <3>4. m < n /\ r[i] = q[m] /\ r[j] = q[n]
      BY <1>1, <2>9, <3>1, <3>2, <3>3
    <3> QED
      BY <3>4 DEF Ascending
  <2>11. \A i \in 1..Len(q) : i # k => q[i] # id
    BY <1>1, <2>5 DEF Ascending
  <2>12. ToSet(r) = {r[i] : i \in 1..Len(q) - 1}
    BY <2>9, QueueSet
  <2>13. ASSUME NEW x PROVE x \in ToSet(r) <=> x \in ToSet(q) \ {id}
    <3>1. ASSUME NEW i \in 1..Len(q) - 1, x = r[i] PROVE x \in ToSet(q) \ {id}
      <4>1. PICK j \in 1..Len(q) : j # k /\ x = q[j]
        <5>1. i \in 1..Len(q) /\ i + 1 \in 1..Len(q)
          BY <1>1
        <5> QED
          BY <1>1, <2>9, <3>1, <5>1
      <4> QED
        BY <2>11, <4>1, QueueSet
    <3>2. ASSUME NEW i \in 1..Len(q), x = q[i], x # id PROVE x \in ToSet(r)
      <4>1. i # k
        BY <2>5, <3>2
      <4>2. CASE i < k
        BY <1>1, <2>9, <2>12, <3>2, <4>2
      <4>3. CASE k < i
        <5>1. i - 1 \in 1..Len(q) - 1 /\ ~(i - 1 < k) /\ (i - 1) + 1 = i
          BY <1>1, <4>3
        <5>2. r[i - 1] = x
          BY <2>9, <3>2, <5>1
        <5> QED
          BY <2>12, <5>1, <5>2
      <4> QED
        BY <1>1, <4>1, <4>2, <4>3
    <3> QED
      BY <2>12, <3>1, <3>2, QueueSet
  <2> QED
    BY <2>9, <2>10, <2>13 DEF r
<1> QED
  BY <1>2, <1>3

-----------------------------------------------------------------------------
(* Steps seen part by part.                                                *)

\* The beginning is consistent.
LEMMA LoopBegins ==
  ASSUME Init
  PROVE  LoopConsistent
<1>1. loop = vpn_event_loop_create /\ executor = NoExecutor
  BY DEF Init
<1>2. \A t \in Threads : thread[t] = NoCall
  BY DEF Init
<1>3. TypeOK
  <2>1. 0 \in 0..Budget /\ 0 \in 0..MaxId
    BY Constants
  <2>2. NoCall \in ThreadType
    BY DEF NoCall, ThreadType, Steps, MaybeId
  <2>3. executor \in ExecutorType
    BY <1>1, <2>1 DEF NoExecutor, ExecutorType, MaybeId
  <2>4. loop \in LoopType
    BY <1>1, EmptyQueue DEF vpn_event_loop_create, LoopType, EventLoopStates
  <2>5. log \in [Ids -> LogType]
    BY DEF Init, LogType
  <2> QED
    BY <2>1, <2>2, <2>3, <2>4, <2>5 DEF Init, TypeOK, MaybeId
<1>4. Locked
  BY <1>2, Constants DEF Init, Locked, InCall, NoCall
<1>5. NumbersKept
  <2>1. {t \in Threads : thread[t].op # "none"} = {}
    BY <1>2 DEF NoCall
  <2>2. Reserved = 0
    BY <2>1, FS_EmptySet DEF Reserved
  <2> QED
    BY <2>2, Constants DEF Init, NumbersKept
<1>6. Logged
  <2>1. Ascending(loop.task_queue) /\ ToSet(loop.task_queue) = {} /\ loop.deferred_task_queue = {}
    BY <1>1, EmptyQueue DEF vpn_event_loop_create
  <2>2. \A id \in Ids : ~ExecutorHas(id) /\ ~ThreadHas(id)
    BY <1>1, <1>2 DEF NoExecutor, NoCall, ExecutorHas, ThreadHas
  <2>3. \A id \in Ids : log[id].place = "none" /\ log[id].finals = 0 /\ id >= g_next_task_id
    BY Constants DEF Init
  <2> QED
    BY <2>1, <2>2, <2>3 DEF Logged
<1>7. Phases
  BY <1>1, <1>2 DEF vpn_event_loop_create, NoExecutor, NoCall, Phases, Running
<1>8. Scheduled
  BY <1>1 DEF vpn_event_loop_create, Scheduled
<1> QED
  BY <1>3, <1>4, <1>5, <1>6, <1>7, <1>8 DEF LoopConsistent

\* The calls in progress are finitely many, and that of the owner of stop_guard is one of them.
LEMMA CallsInProgress ==
  ASSUME LoopConsistent
  PROVE  /\ Reserved \in Nat
         /\ \A t \in Threads : stop_guard = t => Reserved >= 2
<1>1. IsFiniteSet({t \in Threads : thread[t].op # "none"})
  BY Constants, FS_Subset
<1>2. Cardinality({t \in Threads : thread[t].op # "none"}) \in Nat
  BY <1>1, FS_CardinalityType
<1>3. ASSUME NEW t \in Threads, stop_guard = t
      PROVE  {u \in Threads : thread[u].op # "none"} # {}
  BY <1>3 DEF LoopConsistent, Locked, InCall
<1>4. ASSUME NEW t \in Threads, stop_guard = t
      PROVE  Cardinality({u \in Threads : thread[u].op # "none"}) # 0
  BY <1>1, <1>3, <1>4, FS_EmptySet
<1> DEFINE c == Cardinality({u \in Threads : thread[u].op # "none"})
<1>5. Reserved = 2 * c /\ c \in Nat /\ \A t \in Threads : stop_guard = t => c # 0
  BY <1>2, <1>4 DEF Reserved
<1> HIDE DEF c
<1> QED
  BY <1>5

\* There is a number left for a call that has not used its two.
LEMMA NumberLeft ==
  ASSUME LoopConsistent, NEW t \in Threads, stop_guard = t, Used(thread[t]) <= 1
  PROVE  g_next_task_id \in Ids /\ g_next_task_id + 1 \in 0..MaxId
<1>1. Used(thread[t]) \in 0..2
  BY DEF Used
<1>2. g_next_task_id + Reserved <= MaxId + Used(thread[t])
  BY Constants DEF LoopConsistent, NumbersKept
<1>3. g_next_task_id \in 0..MaxId
  BY DEF LoopConsistent, TypeOK
<1> QED
  BY <1>1, <1>2, <1>3, CallsInProgress, Constants DEF Ids

\* A number that a task of an action may take.
LEMMA NumberForAction ==
  ASSUME LoopConsistent, g_next_task_id + Reserved < MaxId
  PROVE  g_next_task_id \in Ids /\ g_next_task_id + 1 \in 0..MaxId
<1>1. g_next_task_id \in 0..MaxId
  BY DEF LoopConsistent, TypeOK
<1> QED
  BY <1>1, CallsInProgress, Constants DEF Ids

\* The owner of stop_guard goes on within its call.
LEMMA OwnerGoesOn ==
  ASSUME LoopConsistent, NEW t \in Threads, stop_guard = t, stop_guard' = stop_guard,
         \A u \in Threads : u # t => thread'[u] = thread[u],
         thread'[t].op = thread[t].op, InCall(thread'[t]), thread'[t].at \notin {"idle", "lock"},
         g_next_task_id' \in Nat,
         g_next_task_id' + Used(thread[t]) <= g_next_task_id + Used(thread'[t])
  PROVE  Locked' /\ NumbersKept'
<1>1. Locked'
  <2>1. \A u \in Threads : u # t => InCall(thread'[u]) /\ thread'[u].at \in {"idle", "lock"}
    BY Constants DEF LoopConsistent, Locked
  <2> QED
    BY <2>1 DEF Locked
<1>2. NumbersKept'
  <2>1. {u \in Threads : thread'[u].op # "none"} = {u \in Threads : thread[u].op # "none"}
    OBVIOUS
  <2>2. Reserved' = Reserved
    BY <2>1 DEF Reserved
  <2>3. g_next_task_id + Reserved <= MaxId + Used(thread[t])
    BY Constants DEF LoopConsistent, NumbersKept
  <2>4. Used(thread[t]) \in 0..2 /\ Used(thread'[t]) \in 0..2
    BY DEF Used
  <2>5. g_next_task_id \in 0..MaxId
    BY DEF LoopConsistent, TypeOK
  <2>6. g_next_task_id' + Reserved' <= MaxId + Used(thread'[t])
    BY <2>2, <2>3, <2>4, <2>5, CallsInProgress, Constants
  <2>7. stop_guard' # Nobody
    BY Constants
  <2>8. Used(thread[stop_guard])' = Used(thread'[t])
    BY DEF Used
  <2> QED
    BY <2>6, <2>7, <2>8 DEF NumbersKept
<1> QED
  BY <1>1, <1>2

\* The threads and the numbers do not change.
LEMMA ThreadsRest ==
  ASSUME LoopConsistent, UNCHANGED <<thread, stop_guard>>
  PROVE  /\ Locked'
         /\ g_next_task_id' = g_next_task_id => NumbersKept'
  BY DEF LoopConsistent, Locked, NumbersKept, Reserved, Used

\* A task of an action takes a number.
LEMMA ActionTakesNumber ==
  ASSUME LoopConsistent, UNCHANGED <<thread, stop_guard>>,
         g_next_task_id + Reserved < MaxId, g_next_task_id' = g_next_task_id + 1
  PROVE  NumbersKept'
<1>1. Reserved' = Reserved
  BY DEF Reserved
<1>2. Used(thread[stop_guard])' \in 0..2
  BY DEF Used
<1>3. g_next_task_id \in 0..MaxId
  BY DEF LoopConsistent, TypeOK
<1> QED
  BY <1>1, <1>2, <1>3, CallsInProgress, Constants DEF NumbersKept

\* No task changes its place.
LEMMA PlacesRest ==
  ASSUME LoopConsistent, UNCHANGED <<log, g_next_task_id>>,
         loop'.task_queue = loop.task_queue, loop'.deferred_task_queue = loop.deferred_task_queue,
         \A id \in Ids : ExecutorHas(id)' <=> ExecutorHas(id),
         \A id \in Ids : ThreadHas(id)' <=> ThreadHas(id)
  PROVE  Logged'
  BY DEF LoopConsistent, Logged

\* The owner of stop_guard is the only thread past the lock.
LEMMA OnlyOwner ==
  ASSUME LoopConsistent, NEW t \in Threads, thread[t].at \notin {"idle", "lock"}
  PROVE  /\ stop_guard = t
         /\ \A u \in Threads : u # t => thread[u].at \in {"idle", "lock"}
  BY DEF LoopConsistent, Locked

-----------------------------------------------------------------------------
(* Steps of the application's threads.                                     *)

\* A call begins.
LEMMA CallBegins ==
  ASSUME LoopConsistent, NEW t \in Threads,
         NEW op \in {"connect", "submit", "update", "listen", "stop"}, Call(t, op)
  PROVE  LoopConsistent'
<1>1. /\ thread[t].at = "idle" /\ thread[t].op = "none"
      /\ thread' \in [Threads -> ThreadType]
      /\ thread'[t].op = op /\ thread'[t].at = "lock" /\ thread'[t].task = -1
      /\ \A u \in Threads : u # t => thread'[u] = thread[u]
      /\ UNCHANGED <<loop, executor, stop_guard, update_exclusions_task, g_next_task_id, log>>
  <2> DEFINE r == [NoCall EXCEPT !.op = op, !.at = "lock"]
  <2>1. r \in ThreadType
    BY DEF NoCall, ThreadType, Steps, MaybeId
  <2>2. r.op = op /\ r.at = "lock" /\ r.task = -1 /\ NoCall.at = "idle" /\ NoCall.op = "none"
    BY DEF NoCall
  <2>3. thread[t] = NoCall /\ thread' = [thread EXCEPT ![t] = r] /\ thread \in [Threads -> ThreadType]
    BY DEF Call, LoopConsistent, TypeOK
  <2> HIDE DEF r
  <2>4. thread' \in [Threads -> ThreadType] /\ thread'[t] = r
    BY <2>1, <2>3
  <2> QED
    BY <2>2, <2>3, <2>4 DEF Call
<1>2. TypeOK'
  BY <1>1 DEF LoopConsistent, TypeOK
<1>3. Locked'
  BY <1>1 DEF LoopConsistent, Locked, InCall
<1>4. NumbersKept'
  <2> DEFINE C == {u \in Threads : thread[u].op # "none"}
             D == {u \in Threads : thread'[u].op # "none"}
  <2>1. D = C \cup {t} /\ t \notin C
    BY <1>1
  <2>2. IsFiniteSet(C)
    BY Constants, FS_Subset
  <2>3. Cardinality(D) = Cardinality(C) + 1
    BY <2>1, <2>2, FS_AddElement
  <2>4. Reserved = 2 * Cardinality(C) /\ Reserved' = 2 * Cardinality(D) /\ Cardinality(C) \in Nat
    BY <2>2, FS_CardinalityType DEF Reserved
  <2> HIDE DEF C, D
  <2>5. g_next_task_id + Reserved + 2 <= MaxId /\ g_next_task_id \in 0..MaxId
    BY DEF Call, LoopConsistent, TypeOK
  <2>6. Used(thread[stop_guard])' \in 0..2
    BY DEF Used
  <2> QED
    BY <1>1, <2>3, <2>4, <2>5, <2>6, Constants DEF NumbersKept
<1>5. Logged'
  BY <1>1, PlacesRest DEF ExecutorHas, ThreadHas
<1>6. Phases'
  BY <1>1 DEF LoopConsistent, Phases
<1>7. Scheduled'
  BY <1>1 DEF LoopConsistent, Scheduled, Answered
<1> QED
  BY <1>2, <1>3, <1>4, <1>5, <1>6, <1>7 DEF LoopConsistent

\* A thread takes stop_guard.
LEMMA CallLocks ==
  ASSUME LoopConsistent, NEW t \in Threads, Lock(t)
  PROVE  LoopConsistent'
<1>1. /\ thread[t].at = "lock" /\ stop_guard = Nobody /\ stop_guard' = t
      /\ thread'[t] = [thread[t] EXCEPT !.at = "body"]
      /\ \A u \in Threads : u # t => thread'[u] = thread[u]
      /\ UNCHANGED <<loop, executor, update_exclusions_task, g_next_task_id, log>>
  BY DEF Lock, LoopConsistent, TypeOK
<1>2. thread[t] \in ThreadType
  BY DEF LoopConsistent, TypeOK
<1>3. /\ thread'[t].at = "body" /\ thread'[t].op = thread[t].op
      /\ thread'[t].task = thread[t].task /\ thread'[t].next = thread[t].next
      /\ thread'[t] \in ThreadType
  BY <1>1, <1>2 DEF ThreadType, Steps
<1>4. TypeOK'
  <2>1. thread' \in [Threads -> ThreadType]
    BY <1>3 DEF Lock, LoopConsistent, TypeOK
  <2> QED
    BY <1>1, <2>1 DEF LoopConsistent, TypeOK
<1>5. \A u \in Threads : thread[u].at \in {"idle", "lock"}
  BY <1>1, Constants DEF LoopConsistent, Locked
<1>6. Locked'
  <2>1. InCall(thread'[t])
    BY <1>1, <1>3 DEF LoopConsistent, Locked, InCall
  <2> QED
    BY <1>1, <1>3, <1>5, <2>1 DEF LoopConsistent, Locked
<1>7. NumbersKept'
  <2>1. {u \in Threads : thread'[u].op # "none"} = {u \in Threads : thread[u].op # "none"}
    <3>1. \A u \in Threads : thread'[u].op = thread[u].op
      BY <1>1, <1>3, Zenon
    <3> QED BY ONLY <3>1, Zenon
  <2>2. Reserved' = Reserved
    BY <2>1 DEF Reserved
  <2>3. g_next_task_id + Reserved <= MaxId /\ g_next_task_id \in 0..MaxId
    BY <1>1, Constants DEF LoopConsistent, NumbersKept, TypeOK
  <2>4. Used(thread[stop_guard])' \in 0..2
    BY DEF Used
  <2> QED
    BY <1>1, <2>2, <2>3, <2>4, CallsInProgress, Constants DEF NumbersKept
<1>8. Logged'
  BY <1>1, <1>3, PlacesRest DEF ExecutorHas, ThreadHas
<1>9. Phases'
  BY <1>1, <1>3, <1>5 DEF LoopConsistent, Phases
<1>10. Scheduled'
  BY <1>1, <1>3 DEF LoopConsistent, Scheduled, Answered
<1> QED
  BY <1>4, <1>6, <1>7, <1>8, <1>9, <1>10 DEF LoopConsistent

\* A call returns.
LEMMA CallReturns ==
  ASSUME LoopConsistent, NEW t \in Threads, Return(t)
  PROVE  LoopConsistent'
<1>1. /\ thread[t].at = "return" /\ stop_guard' = Nobody
      /\ thread'[t] = NoCall /\ NoCall.at = "idle" /\ NoCall.op = "none"
      /\ \A u \in Threads : u # t => thread'[u] = thread[u]
      /\ UNCHANGED <<loop, executor, update_exclusions_task, g_next_task_id, log>>
  BY DEF Return, NoCall, LoopConsistent, TypeOK
<1>2. stop_guard = t /\ \A u \in Threads : u # t => thread[u].at \in {"idle", "lock"}
  BY <1>1, OnlyOwner
<1>3. TypeOK'
  <2>1. NoCall \in ThreadType
    BY DEF NoCall, ThreadType, Steps, MaybeId
  <2>2. thread' \in [Threads -> ThreadType]
    BY <2>1 DEF Return, LoopConsistent, TypeOK
  <2> QED
    BY <1>1, <2>2 DEF LoopConsistent, TypeOK
<1>4. Locked'
  <2>1. InCall(NoCall)
    BY DEF InCall, NoCall
  <2> QED
    BY <1>1, <1>2, <2>1, Constants DEF LoopConsistent, Locked
<1>5. NumbersKept'
  <2> DEFINE C == {u \in Threads : thread[u].op # "none"}
             D == {u \in Threads : thread'[u].op # "none"}
  <2>1. thread[t].op # "none"
    BY <1>1 DEF LoopConsistent, Locked, InCall
  <2>2. D = C \ {t} /\ t \in C
    BY <1>1, <2>1
  <2>3. IsFiniteSet(C)
    BY Constants, FS_Subset
  <2>4. IsFiniteSet(D) /\ Cardinality(D) = Cardinality(C) - 1
    BY <2>2, <2>3, FS_RemoveElement
  <2>5. Reserved = 2 * Cardinality(C) /\ Reserved' = 2 * Cardinality(D)
    BY DEF Reserved
  <2>6. Cardinality(C) \in Nat /\ Cardinality(D) \in Nat
    BY <2>3, <2>4, FS_CardinalityType
  <2> HIDE DEF C, D
  <2>7. g_next_task_id + Reserved <= MaxId + Used(thread[t])
    BY <1>2, Constants DEF LoopConsistent, NumbersKept
  <2>8. Used(thread[t]) \in 0..2
    BY DEF Used
  <2>9. g_next_task_id \in 0..MaxId
    BY DEF LoopConsistent, TypeOK
  <2> QED
    BY <1>1, <2>4, <2>5, <2>6, <2>7, <2>8, <2>9, Constants DEF NumbersKept
<1>6. Logged'
  BY <1>1, PlacesRest DEF ExecutorHas, ThreadHas
<1>7. Phases'
  BY <1>1, <1>2 DEF LoopConsistent, Phases
<1>8. Scheduled'
  BY <1>1 DEF LoopConsistent, Scheduled, Answered
<1> QED
  BY <1>3, <1>4, <1>5, <1>6, <1>7, <1>8 DEF LoopConsistent

\* A thread goes to another step of its call.
LEMMA AtStep ==
  ASSUME LoopConsistent, NEW t \in Threads, NEW step \in Steps, at(t, step)
  PROVE  /\ thread' \in [Threads -> ThreadType]
         /\ thread'[t].at = step
         /\ thread'[t].op = thread[t].op /\ thread'[t].next = thread[t].next
         /\ thread'[t].task = thread[t].task /\ thread'[t].cancelled = thread[t].cancelled
         /\ \A u \in Threads : u # t => thread'[u] = thread[u]
<1>1. thread \in [Threads -> ThreadType] /\ thread[t] \in ThreadType
  BY DEF LoopConsistent, TypeOK
<1>2. thread'[t] = [thread[t] EXCEPT !.at = step] /\ \A u \in Threads : u # t => thread'[u] = thread[u]
  BY <1>1 DEF at
<1>3. /\ thread'[t] \in ThreadType /\ thread'[t].at = step
      /\ thread'[t].op = thread[t].op /\ thread'[t].next = thread[t].next
      /\ thread'[t].task = thread[t].task /\ thread'[t].cancelled = thread[t].cancelled
  BY <1>1, <1>2 DEF ThreadType
<1>4. thread' \in [Threads -> ThreadType]
  BY <1>1, <1>3 DEF at
<1> QED
  BY <1>2, <1>3, <1>4

\* The owner of stop_guard goes to another step without taking a number.
LEMMA OwnerMoves ==
  ASSUME LoopConsistent, NEW t \in Threads, NEW step \in Steps \ {"idle", "lock"}, at(t, step),
         thread[t].at \notin {"idle", "lock"}, UNCHANGED <<stop_guard, g_next_task_id>>,
         InCall(thread'[t])
  PROVE  /\ Locked' /\ NumbersKept'
         /\ stop_guard = t
         /\ \A u \in Threads : u # t => thread[u].at \in {"idle", "lock"} /\ thread'[u] = thread[u]
         /\ thread[t].at # "finalize" /\ step # "finalize" =>
              \A id \in Ids : ThreadHas(id)' <=> ThreadHas(id)
<1>1. stop_guard = t /\ \A u \in Threads : u # t => thread[u].at \in {"idle", "lock"}
  BY OnlyOwner
<1>2. /\ thread'[t].at = step
      /\ thread'[t].op = thread[t].op /\ thread'[t].next = thread[t].next
      /\ thread'[t].task = thread[t].task
      /\ \A u \in Threads : u # t => thread'[u] = thread[u]
  BY AtStep
<1>3. Used(thread'[t]) = Used(thread[t]) /\ Used(thread[t]) \in 0..2
  BY <1>2 DEF Used
<1>4. g_next_task_id \in 0..MaxId
  BY DEF LoopConsistent, TypeOK
<1>5. Locked' /\ NumbersKept'
  BY <1>1, <1>2, <1>3, <1>4, OwnerGoesOn, Constants
<1> QED
  BY <1>1, <1>2, <1>5 DEF ThreadHas

\* A step of a thread that changes nothing but where it is.
Moves(t, step) ==
  /\ \/ thread[t].at = "body" /\ step = "return"
     \/ thread[t].at = "body" /\ step = "join" /\ thread[t].op = "stop" /\ loop.state = "nullptr"
     \/ /\ thread[t].at = "wait" /\ log[thread[t].task].place = "finalized"
        /\ \/ step = "return"
           \/ step \in {"post", "exit"} /\ thread[t].op = "connect"
  /\ at(t, step)
  /\ UNCHANGED <<loop, executor, stop_guard, update_exclusions_task, g_next_task_id, log>>

LEMMA MovesAre ==
  ASSUME LoopConsistent, NEW t \in Threads,
         \/ ConnectRefused(t) \/ ListenRefused(t) \/ Dispatched(t) \/ NotActive(t)
         \/ StopWithoutLoop(t)
  PROVE  \E step \in Steps : Moves(t, step)
<1>1. {"return", "join", "post", "exit"} \subseteq Steps
  BY DEF Steps
<1>2. CASE ConnectRefused(t) \/ ListenRefused(t) \/ NotActive(t)
  BY <1>1, <1>2 DEF ConnectRefused, ListenRefused, NotActive, Moves
<1>3. CASE StopWithoutLoop(t)
  BY <1>1, <1>3 DEF StopWithoutLoop, Moves
<1>4. CASE Dispatched(t)
  <2>1. thread[t].op \in {"connect", "listen"}
    BY <1>4 DEF Dispatched, LoopConsistent, Locked, InCall
  <2> QED
    BY <1>1, <1>4, <2>1 DEF Dispatched, Moves
<1> QED
  BY <1>2, <1>3, <1>4

LEMMA CallMoves ==
  ASSUME LoopConsistent, NEW t \in Threads, NEW step \in Steps, Moves(t, step)
  PROVE  LoopConsistent'
<1>1. /\ at(t, step) /\ step \in Steps \ {"idle", "lock"}
      /\ step \in {"return", "join", "post", "exit"} /\ thread[t].at \in {"body", "wait"}
      /\ UNCHANGED <<loop, executor, stop_guard, update_exclusions_task, g_next_task_id, log>>
  BY DEF Moves
<1>2. /\ thread' \in [Threads -> ThreadType]
      /\ thread'[t].at = step
      /\ thread'[t].op = thread[t].op /\ thread'[t].next = thread[t].next
      /\ thread'[t].task = thread[t].task /\ thread'[t].cancelled = thread[t].cancelled
      /\ \A u \in Threads : u # t => thread'[u] = thread[u]
  BY <1>1, AtStep
<1>3. InCall(thread[t])
  BY DEF LoopConsistent, Locked
<1>4. InCall(thread'[t])
  BY <1>1, <1>2, <1>3 DEF InCall, Moves
<1>5. /\ Locked' /\ NumbersKept'
      /\ stop_guard = t
      /\ \A u \in Threads : u # t => thread[u].at \in {"idle", "lock"}
      /\ \A id \in Ids : ThreadHas(id)' <=> ThreadHas(id)
  BY <1>1, <1>4, OwnerMoves
<1>6. TypeOK'
  BY <1>1, <1>2 DEF LoopConsistent, TypeOK
<1>7. Logged'
  BY <1>1, <1>5, PlacesRest DEF ExecutorHas
<1>8. Phases'
  <2>1. executor.pc # "begin"
    BY <1>1, <1>5 DEF Moves, LoopConsistent, Phases
  <2> QED
    BY <1>1, <1>2, <1>5, <2>1 DEF Moves, LoopConsistent, Phases
<1>9. Scheduled'
  BY <1>1, <1>2 DEF LoopConsistent, Scheduled, Answered
<1> QED
  BY <1>5, <1>6, <1>7, <1>8, <1>9 DEF LoopConsistent

\* vpn_connect starts the thread of the loop.
LEMMA LoopStarts ==
  ASSUME LoopConsistent, NEW t \in Threads, run_event_loop(t)
  PROVE  LoopConsistent'
<1>1. /\ at(t, "dispatch") /\ "dispatch" \in Steps \ {"idle", "lock"}
      /\ thread[t].op = "connect" /\ thread[t].at = "body" /\ executor.pc = "none"
      /\ loop' = IF loop.state = "nullptr" THEN vpn_event_loop_create ELSE loop
      /\ executor' = [NoExecutor EXCEPT !.pc = "begin"]
      /\ UNCHANGED <<stop_guard, update_exclusions_task, g_next_task_id, log>>
  BY DEF run_event_loop, Steps
<1>2. /\ thread' \in [Threads -> ThreadType]
      /\ thread'[t].at = "dispatch"
      /\ thread'[t].op = thread[t].op /\ thread'[t].next = thread[t].next
      /\ thread'[t].task = thread[t].task /\ thread'[t].cancelled = thread[t].cancelled
      /\ \A u \in Threads : u # t => thread'[u] = thread[u]
  BY <1>1, AtStep
<1>3. InCall(thread'[t])
  BY <1>1, <1>2 DEF LoopConsistent, Locked, InCall
<1>4. /\ Locked' /\ NumbersKept'
      /\ stop_guard = t
      /\ \A u \in Threads : u # t => thread[u].at \in {"idle", "lock"}
      /\ \A id \in Ids : ThreadHas(id)' <=> ThreadHas(id)
  BY <1>1, <1>3, OwnerMoves
<1>5. executor'.pc = "begin" /\ executor' \in ExecutorType
  <2>1. 0 \in 0..Budget
    BY Constants
  <2> QED
    BY <1>1, <2>1 DEF NoExecutor, ExecutorType, MaybeId
<1>6. /\ loop' \in LoopType
      /\ loop'.task_queue = loop.task_queue /\ loop'.deferred_task_queue = loop.deferred_task_queue
      /\ loop'.state \notin {"nullptr", "ELS_RUNNING", "ELS_BASE_EXITED"}
      /\ loop'.stopping_externally => loop.stopping_externally
      /\ loop'.task_queue_scheduled => loop'.callbacks = loop.callbacks /\ loop.task_queue_scheduled
      /\ loop'.task_queue # <<>> => loop'.task_queue_scheduled
  <2>1. CASE loop.state = "nullptr"
    BY <1>1, <2>1, EmptyQueue
    DEF vpn_event_loop_create, LoopType, EventLoopStates, LoopConsistent, Phases
  <2>2. CASE loop.state # "nullptr"
    <3>1. loop.state # "ELS_RUNNING" /\ loop.state # "ELS_BASE_EXITED"
      BY <1>1, <1>4 DEF LoopConsistent, Phases, Running
    <3> QED
      BY <1>1, <2>2, <3>1 DEF LoopConsistent, TypeOK, Scheduled
  <2> QED
    BY <2>1, <2>2
<1>7. TypeOK'
  BY <1>1, <1>2, <1>5, <1>6 DEF LoopConsistent, TypeOK
<1>8. Logged'
  BY <1>1, <1>4, <1>5, <1>6, PlacesRest DEF ExecutorHas
<1>9. Phases'
  <2>1. ~loop'.stopping_externally
    BY <1>1, <1>4, <1>6 DEF LoopConsistent, Phases
  <2> QED
    BY <1>1, <1>2, <1>4, <1>5, <1>6, <2>1 DEF Phases, Running
<1>10. Scheduled'
  BY <1>1, <1>2, <1>4, <1>5, <1>6 DEF LoopConsistent, Scheduled, Answered
<1> QED
  BY <1>4, <1>7, <1>8, <1>9, <1>10 DEF LoopConsistent

-----------------------------------------------------------------------------
(* How the log follows the lists.                                          *)

\* What the finalizers of a set of tasks leave in the log.
LEMMA FinalizedEffect ==
  ASSUME NEW l \in [Ids -> LogType], NEW S
  PROVE  /\ finalized(l, S) \in [Ids -> LogType]
         /\ \A id \in Ids : id \notin S => finalized(l, S)[id] = l[id]
         /\ \A id \in Ids : id \in S =>
              /\ finalized(l, S)[id].place = "finalized"
              /\ l[id].finals = 0 => finalized(l, S)[id].finals = 1
<1>1. \A id \in Ids : l[id] \in LogType
  OBVIOUS
<1>2. ASSUME NEW r \in LogType
      PROVE  LET f == [r EXCEPT !.place = "finalized", !.finals = IF @ < 2 THEN @ + 1 ELSE 2]
             IN f \in LogType /\ f.place = "finalized" /\ (r.finals = 0 => f.finals = 1)
  <2> DEFINE n == IF r.finals < 2 THEN r.finals + 1 ELSE 2
             f == [r EXCEPT !.place = "finalized", !.finals = n]
  <2>1. n \in 0..2 /\ (r.finals = 0 => n = 1)
    BY DEF LogType
  <2>2. f = [r EXCEPT !.place = "finalized", !.finals = IF @ < 2 THEN @ + 1 ELSE 2]
    BY DEF LogType
  <2> HIDE DEF n
  <2>3. f \in LogType /\ f.place = "finalized" /\ f.finals = n
    BY <2>1 DEF LogType
  <2> HIDE DEF f
  <2> QED
    BY <2>1, <2>2, <2>3
<1> QED
  BY <1>1, <1>2 DEF finalized

\* A new task is put in a list, or refused and finalized.
LEMMA NewTask ==
  ASSUME LoopConsistent, g_next_task_id \in Ids, g_next_task_id' = g_next_task_id + 1,
         \A id \in Ids : id # g_next_task_id =>
           log'[id].place = log[id].place /\ log'[id].finals = log[id].finals,
         \A id \in Ids : ExecutorHas(id)' <=> ExecutorHas(id),
         \A id \in Ids : ThreadHas(id)' <=> ThreadHas(id),
         \/ /\ log'[g_next_task_id].place = "task_queue" /\ log'[g_next_task_id].finals = 0
            /\ loop'.task_queue = Append(loop.task_queue, g_next_task_id)
            /\ loop'.deferred_task_queue = loop.deferred_task_queue
         \/ /\ log'[g_next_task_id].place = "deferred_task_queue" /\ log'[g_next_task_id].finals = 0
            /\ loop'.task_queue = loop.task_queue
            /\ loop'.deferred_task_queue = loop.deferred_task_queue \cup {g_next_task_id}
         \/ /\ log'[g_next_task_id].place = "finalized" /\ log'[g_next_task_id].finals = 1
            /\ loop'.task_queue = loop.task_queue
            /\ loop'.deferred_task_queue = loop.deferred_task_queue
  PROVE  Logged'
<1> DEFINE g == g_next_task_id
<1>1. loop.task_queue \in Seq(Ids) /\ loop.deferred_task_queue \subseteq Ids
  BY DEF LoopConsistent, TypeOK, LoopType
<1>2. /\ log[g].place = "none"
      /\ \A id \in Ids : id # g => (id >= g <=> id >= g + 1)
  BY Constants DEF LoopConsistent, Logged
<1>3. /\ g \notin ToSet(loop.task_queue) /\ g \notin loop.deferred_task_queue
      /\ ~ExecutorHas(g) /\ ~ThreadHas(g)
  BY <1>2 DEF LoopConsistent, Logged
<1>4. \A x \in ToSet(loop.task_queue) : x < g
  <2>1. \A x \in ToSet(loop.task_queue) : x \in Ids /\ log[x].place = "task_queue"
    BY <1>1, QueueSet DEF LoopConsistent, Logged
  <2> QED
    BY <2>1, Constants DEF LoopConsistent, Logged
<1>5. /\ Ascending(loop'.task_queue)
      /\ ToSet(loop'.task_queue) = IF log'[g].place = "task_queue" THEN ToSet(loop.task_queue) \cup {g}
                                   ELSE ToSet(loop.task_queue)
  <2>1. Ascending(loop.task_queue)
    BY DEF LoopConsistent, Logged
  <2> QED
    BY <1>1, <1>4, <2>1, AppendedQueue
<1>6. ASSUME NEW id \in Ids
      PROVE  /\ log'[id].place = "none" <=> id >= g + 1
             /\ log'[id].place = "task_queue" <=> id \in ToSet(loop'.task_queue)
             /\ log'[id].place = "deferred_task_queue" <=> id \in loop'.deferred_task_queue
             /\ log'[id].place = "taken" <=> ExecutorHas(id)' \/ ThreadHas(id)'
             /\ ~(ExecutorHas(id)' /\ ThreadHas(id)')
             /\ log'[id].finals = IF log'[id].place = "finalized" THEN 1 ELSE 0
  <2>1. CASE id = g
    <3>1. ~(g >= g + 1)
      BY Constants
    <3> QED
      BY <1>3, <1>5, <2>1, <3>1
  <2>2. CASE id # g
    BY <1>2, <1>5, <2>2 DEF LoopConsistent, Logged
  <2> QED
    BY <2>1, <2>2
<1> QED
  BY <1>5, <1>6 DEF Logged

\* One task leaves its place, and is taken or finalized.
LEMMA TaskLeaves ==
  ASSUME LoopConsistent, NEW id \in Ids, g_next_task_id' = g_next_task_id,
         \A x \in Ids : x # id =>
           /\ log'[x].place = log[x].place /\ log'[x].finals = log[x].finals
           /\ x \in ToSet(loop'.task_queue) <=> x \in ToSet(loop.task_queue)
           /\ x \in loop'.deferred_task_queue <=> x \in loop.deferred_task_queue
           /\ ExecutorHas(x)' <=> ExecutorHas(x)
           /\ ThreadHas(x)' <=> ThreadHas(x),
         Ascending(loop'.task_queue), log[id].place # "none",
         id \notin ToSet(loop'.task_queue), id \notin loop'.deferred_task_queue,
         \/ /\ log'[id].place = "taken" /\ log'[id].finals = 0
            /\ ExecutorHas(id)' <=> ~ThreadHas(id)'
         \/ /\ log'[id].place = "finalized" /\ log'[id].finals = 1
            /\ ~ExecutorHas(id)' /\ ~ThreadHas(id)'
  PROVE  Logged'
<1>1. ASSUME NEW x \in Ids
      PROVE  /\ log'[x].place = "none" <=> x >= g_next_task_id
             /\ log'[x].place = "task_queue" <=> x \in ToSet(loop'.task_queue)
             /\ log'[x].place = "deferred_task_queue" <=> x \in loop'.deferred_task_queue
             /\ log'[x].place = "taken" <=> ExecutorHas(x)' \/ ThreadHas(x)'
             /\ ~(ExecutorHas(x)' /\ ThreadHas(x)')
             /\ log'[x].finals = IF log'[x].place = "finalized" THEN 1 ELSE 0
  <2>1. CASE x = id
    BY <2>1 DEF LoopConsistent, Logged
  <2>2. CASE x # id
    BY <2>2 DEF LoopConsistent, Logged
  <2> QED
    BY <2>1, <2>2
<1> QED
  BY <1>1 DEF Logged

\* A task is taken out of a list.
LEMMA WithoutEffect ==
  ASSUME LoopConsistent, NEW id \in Ids
  PROVE  /\ without(loop, id) \in LoopType
         /\ Ascending(without(loop, id).task_queue)
         /\ ToSet(without(loop, id).task_queue) = ToSet(loop.task_queue) \ {id}
         /\ without(loop, id).deferred_task_queue = loop.deferred_task_queue \ {id}
         /\ without(loop, id).state = loop.state
         /\ without(loop, id).stopping_externally = loop.stopping_externally
         /\ without(loop, id).task_queue_scheduled = loop.task_queue_scheduled
         /\ without(loop, id).callbacks = loop.callbacks
         /\ loop.task_queue = <<>> => without(loop, id).task_queue = <<>>
<1> DEFINE q == RemoveFirst(loop.task_queue, id)
<1>1. loop \in LoopType /\ loop.task_queue \in Seq(Ids) /\ Ascending(loop.task_queue)
  BY DEF LoopConsistent, TypeOK, LoopType, Logged
<1>2. q \in Seq(Ids) /\ Ascending(q) /\ ToSet(q) = ToSet(loop.task_queue) \ {id}
  BY <1>1, RemovedFromQueue
<1>3. loop.task_queue = <<>> => q = <<>>
  BY <1>1, <1>2, QueueSet
<1>4. without(loop, id) = [loop EXCEPT !.task_queue = q, !.deferred_task_queue = @ \ {id}]
  BY DEF without
<1> HIDE DEF q
<1> QED
  BY <1>1, <1>2, <1>3, <1>4 DEF LoopType

-----------------------------------------------------------------------------
(* The other steps of the threads.                                         *)

\* A thread submits a task.
Submits(t, kind, next) ==
  /\ thread[t].at \in {"body", "dispatch", "post"} /\ loop.state # "nullptr"
  /\ \/ next = "wait" /\ thread[t].op = "connect" /\ thread[t].at = "dispatch"
     \/ next = "wait" /\ thread[t].op = "listen" /\ thread[t].at = "body"
     \/ next = "return" /\ thread[t].op = "connect" /\ thread[t].at = "post"
     \/ next = "return" /\ thread[t].op = "submit" /\ thread[t].at = "body"
     \/ next = "assign" /\ thread[t].op = "update" /\ thread[t].at = "body"
     \/ next = "exit" /\ thread[t].op = "stop" /\ thread[t].at = "body"
  /\ vpn_event_loop_submit(kind) /\ submitted(t, next)
  /\ UNCHANGED <<executor, stop_guard, update_exclusions_task>>

\* The actions that submit a task.
LEMMA SubmitsAre ==
  ASSUME LoopConsistent, NEW t \in Threads,
         DispatchSync(t) \/ Submit(t) \/ UpdateExclusions(t) \/ SubmitShutdown(t)
  PROVE  \E kind \in {"call", "update"}, next \in {"wait", "return", "assign", "exit"} :
           Submits(t, kind, next)
<1>1. InCall(thread[t])
  BY DEF LoopConsistent, Locked
<1>2. /\ thread[t].at \in {"dispatch", "post"} => loop.state # "nullptr"
      /\ executor.pc # "none" => loop.state # "nullptr"
  BY DEF LoopConsistent, Phases
<1>3. CASE DispatchSync(t)
  <2>1. Submits(t, "call", "wait")
    BY <1>1, <1>2, <1>3 DEF DispatchSync, Submits, InCall
  <2> QED
    BY <2>1
<1>4. CASE Submit(t)
  <2>1. Submits(t, "call", "return")
    BY <1>1, <1>2, <1>4 DEF Submit, Submits, InCall
  <2> QED
    BY <2>1
<1>5. CASE UpdateExclusions(t)
  <2>1. Submits(t, "update", "assign")
    BY <1>5 DEF UpdateExclusions, Submits, Active
  <2> QED
    BY <2>1
<1>6. CASE SubmitShutdown(t)
  <2>1. Submits(t, "call", "exit")
    BY <1>6 DEF SubmitShutdown, Submits
  <2> QED
    BY <2>1
<1> QED
  BY <1>3, <1>4, <1>5, <1>6

\* vpn_event_loop_submit and the loop.
LEMMA SubmitEffect ==
  ASSUME LoopConsistent, NEW kind \in {"call", "update"}, vpn_event_loop_submit(kind),
         g_next_task_id \in Ids
  PROVE  /\ loop' \in LoopType /\ log' \in [Ids -> LogType]
         /\ loop'.state = loop.state /\ loop'.stopping_externally = loop.stopping_externally
         /\ loop'.callbacks = loop.callbacks
         /\ loop'.deferred_task_queue = loop.deferred_task_queue
         /\ \A id \in Ids : id # g_next_task_id => log'[id] = log[id]
         /\ loop.state = "ELS_BASE_EXITED" =>
              loop' = loop /\ log'[g_next_task_id].place = "finalized" /\ log'[g_next_task_id].finals = 1
         /\ loop.state # "ELS_BASE_EXITED" =>
              /\ loop'.task_queue_scheduled
              /\ loop'.task_queue = Append(loop.task_queue, g_next_task_id)
              /\ log'[g_next_task_id].place = "task_queue" /\ log'[g_next_task_id].finals = 0
<1> DEFINE g == g_next_task_id
           l == [log EXCEPT ![g].kind = kind]
<1>1. loop \in LoopType /\ log \in [Ids -> LogType] /\ loop.task_queue \in Seq(Ids)
  BY DEF LoopConsistent, TypeOK, LoopType
<1>2. log[g].finals = 0 /\ log[g] \in LogType
  BY <1>1, Constants DEF LoopConsistent, Logged
<1>3. l \in [Ids -> LogType] /\ l[g].finals = 0 /\ \A id \in Ids : id # g => l[id] = log[id]
  <2>1. [log[g] EXCEPT !.kind = kind] \in LogType
    BY <1>2 DEF LogType
  <2>2. l[g] = [log[g] EXCEPT !.kind = kind]
    BY <1>1
  <2>3. l[g].finals = 0
    BY <1>2, <2>2 DEF LogType
  <2> QED
    BY <1>1, <2>1, <2>3
<1>4. CASE loop.state = "ELS_BASE_EXITED"
  <2>1. loop' = loop /\ log' = finalized(l, {g})
    BY <1>4 DEF vpn_event_loop_submit
  <2> HIDE DEF l
  <2> QED
    BY <1>1, <1>3, <1>4, <2>1, FinalizedEffect
<1>5. CASE loop.state # "ELS_BASE_EXITED"
  <2>1. /\ loop' = [loop EXCEPT !.task_queue = Append(@, g), !.task_queue_scheduled = TRUE]
        /\ log' = [l EXCEPT ![g].place = "task_queue"]
    BY <1>5 DEF vpn_event_loop_submit
  <2>2. Append(loop.task_queue, g) \in Seq(Ids)
    BY <1>1
  <2>3. /\ loop' \in LoopType
        /\ loop'.state = loop.state /\ loop'.stopping_externally = loop.stopping_externally
        /\ loop'.callbacks = loop.callbacks
        /\ loop'.deferred_task_queue = loop.deferred_task_queue
        /\ loop'.task_queue_scheduled
        /\ loop'.task_queue = Append(loop.task_queue, g)
    BY <1>1, <2>1, <2>2 DEF LoopType
  <2> HIDE DEF l
  <2>4. l[g] \in LogType
    BY <1>3
  <2>5. log'[g] = [l[g] EXCEPT !.place = "task_queue"] /\ \A id \in Ids : id # g => log'[id] = l[id]
    BY <1>3, <2>1
  <2>6. log'[g] \in LogType /\ log'[g].place = "task_queue" /\ log'[g].finals = 0
    BY <1>3, <2>4, <2>5 DEF LogType
  <2>7. log' \in [Ids -> LogType]
    BY <1>3, <2>1, <2>5, <2>6
  <2> QED
    BY <1>3, <1>5, <2>3, <2>5, <2>6, <2>7
<1> QED
  BY <1>4, <1>5

LEMMA CallSubmits ==
  ASSUME LoopConsistent, NEW t \in Threads, NEW kind \in {"call", "update"},
         NEW next \in {"wait", "return", "assign", "exit"}, Submits(t, kind, next)
  PROVE  LoopConsistent'
<1> DEFINE g == g_next_task_id
<1>1. /\ stop_guard = t
      /\ \A u \in Threads : u # t => thread[u].at \in {"idle", "lock"}
      /\ thread[t].at \in {"body", "dispatch", "post"}
      /\ loop.state # "nullptr"
      /\ UNCHANGED <<executor, stop_guard, update_exclusions_task>>
      /\ g_next_task_id' = g + 1
      /\ vpn_event_loop_submit(kind)
  BY OnlyOwner DEF Submits, vpn_event_loop_submit
<1>2. thread[t] \in ThreadType /\ InCall(thread[t]) /\ thread \in [Threads -> ThreadType]
  BY DEF LoopConsistent, TypeOK, Locked
<1>3. loop.state # "ELS_BASE_EXITED" /\ ~loop.stopping_externally
  BY <1>1 DEF LoopConsistent, Phases
<1>4. Used(thread[t]) = IF thread[t].at = "post" THEN 1 ELSE 0
  BY <1>1, <1>2 DEF InCall, Used
<1>5. g \in Ids /\ g + 1 \in 0..MaxId
  BY <1>1, <1>4, NumberLeft
<1>6. /\ thread' \in [Threads -> ThreadType]
      /\ thread'[t].task = g /\ thread'[t].next = next /\ thread'[t].op = thread[t].op
      /\ thread'[t].at = (IF loop.task_queue_scheduled THEN next ELSE "arm")
      /\ \A u \in Threads : u # t => thread'[u] = thread[u]
  <2> DEFINE step == IF loop.task_queue_scheduled THEN next ELSE "arm"
             r == [thread[t] EXCEPT !.task = g, !.next = next, !.at = step]
  <2>1. thread' = [thread EXCEPT ![t].task = g, ![t].next = next, ![t].at = step]
    BY <1>3 DEF Submits, submitted, must_arm
  <2>2. step \in Steps /\ next \in Steps /\ g \in MaybeId
    BY <1>5 DEF Steps, MaybeId
  <2> HIDE DEF step
  <2>3. thread'[t] = r /\ \A u \in Threads : u # t => thread'[u] = thread[u]
    BY <1>2, <2>1
  <2>4. r \in ThreadType /\ r.task = g /\ r.next = next /\ r.op = thread[t].op /\ r.at = step
    BY <1>2, <2>2 DEF ThreadType
  <2>5. thread' \in [Threads -> ThreadType]
    BY <1>2, <2>1, <2>3, <2>4
  <2> HIDE DEF r
  <2> QED
    BY <2>3, <2>4, <2>5 DEF step
<1>7. InCall(thread'[t]) /\ thread'[t].at \notin {"idle", "lock"} /\ g # -1
  BY <1>2, <1>5, <1>6, Constants DEF Submits, InCall
<1>8. Used(thread'[t]) = Used(thread[t]) + 1
  BY <1>2, <1>4, <1>6, <1>7 DEF Submits, Used
<1>9. Locked' /\ NumbersKept'
  <2>1. g + 1 + Used(thread[t]) <= g + Used(thread'[t]) /\ g + 1 \in Nat
    BY <1>4, <1>5, <1>8, Constants
  <2> QED
    BY <1>1, <1>6, <1>7, <2>1, OwnerGoesOn
<1>10. /\ loop' \in LoopType /\ log' \in [Ids -> LogType]
       /\ loop'.state = loop.state /\ loop'.stopping_externally = loop.stopping_externally
       /\ loop'.callbacks = loop.callbacks
       /\ loop'.deferred_task_queue = loop.deferred_task_queue
       /\ \A id \in Ids : id # g => log'[id] = log[id]
       /\ loop'.task_queue_scheduled
       /\ loop'.task_queue = Append(loop.task_queue, g)
       /\ log'[g].place = "task_queue" /\ log'[g].finals = 0
  BY <1>1, <1>3, <1>5, SubmitEffect
<1>11. TypeOK'
  BY <1>1, <1>5, <1>6, <1>10 DEF LoopConsistent, TypeOK
<1>12. Logged'
  <2>1. \A id \in Ids : (ExecutorHas(id)' <=> ExecutorHas(id)) /\ (ThreadHas(id)' <=> ThreadHas(id))
    BY <1>1, <1>6 DEF ExecutorHas, ThreadHas
  <2> QED
    BY <1>1, <1>5, <1>10, <2>1, NewTask
<1>13. Phases'
  <2>1. executor.pc = "begin" =>
          /\ thread'[t].op = "connect" /\ thread'[t].at \in {"arm", "wait"} /\ thread'[t].next = "wait"
          /\ log'[thread'[t].task].place = "task_queue"
    BY <1>1, <1>6, <1>10 DEF Submits, LoopConsistent, Phases
  <2> QED
    BY <1>1, <1>3, <1>6, <1>10, <2>1 DEF LoopConsistent, Phases
<1>14. Scheduled'
  BY <1>1, <1>6, <1>10 DEF LoopConsistent, Scheduled, Answered
<1> QED
  BY <1>9, <1>11, <1>12, <1>13, <1>14 DEF LoopConsistent

\* A thread adds the callback that will serve the queue.
LEMMA CallArms ==
  ASSUME LoopConsistent, NEW t \in Threads, Arm(t)
  PROVE  LoopConsistent'
<1>1. /\ thread[t].at = "arm" /\ at(t, thread[t].next)
      /\ loop' = [loop EXCEPT !.callbacks = @ + 1]
      /\ UNCHANGED <<executor, stop_guard, update_exclusions_task, g_next_task_id, log>>
  BY DEF Arm
<1>2. InCall(thread[t]) /\ thread[t].next \in {"wait", "return", "assign", "exit"}
  BY <1>1 DEF LoopConsistent, Locked, InCall
<1>3. thread[t].next \in Steps \ {"idle", "lock"}
  BY <1>2 DEF Steps
<1>4. /\ thread' \in [Threads -> ThreadType]
      /\ thread'[t].at = thread[t].next
      /\ thread'[t].op = thread[t].op /\ thread'[t].next = thread[t].next
      /\ thread'[t].task = thread[t].task /\ thread'[t].cancelled = thread[t].cancelled
      /\ \A u \in Threads : u # t => thread'[u] = thread[u]
  BY <1>1, <1>3, AtStep
<1>5. InCall(thread'[t])
  BY <1>1, <1>2, <1>4 DEF InCall
<1>6. /\ Locked' /\ NumbersKept'
      /\ stop_guard = t
      /\ \A u \in Threads : u # t => thread[u].at \in {"idle", "lock"}
      /\ \A id \in Ids : ThreadHas(id)' <=> ThreadHas(id)
  BY <1>1, <1>2, <1>3, <1>5, OwnerMoves
<1>7. /\ loop' \in LoopType /\ loop'.callbacks > 0
      /\ loop'.state = loop.state /\ loop'.stopping_externally = loop.stopping_externally
      /\ loop'.task_queue = loop.task_queue /\ loop'.deferred_task_queue = loop.deferred_task_queue
      /\ loop'.task_queue_scheduled = loop.task_queue_scheduled
  BY <1>1 DEF LoopConsistent, TypeOK, LoopType
<1>8. TypeOK'
  BY <1>1, <1>4, <1>7 DEF LoopConsistent, TypeOK
<1>9. Logged'
  BY <1>1, <1>6, <1>7, PlacesRest DEF ExecutorHas
<1>10. Phases'
  BY <1>1, <1>2, <1>4, <1>6, <1>7 DEF LoopConsistent, Phases
<1>11. Scheduled'
  BY <1>7 DEF LoopConsistent, Scheduled, Answered
<1> QED
  BY <1>6, <1>8, <1>9, <1>10, <1>11 DEF LoopConsistent

\* vpn_update_exclusions replaces its task, and cancels the one before.
LEMMA CallAssigns ==
  ASSUME LoopConsistent, NEW t \in Threads, Assign(t)
  PROVE  LoopConsistent'
<1> DEFINE old == update_exclusions_task
           found == old # -1 /\ InLists(old)
<1>1. /\ thread[t].at = "assign"
      /\ stop_guard = t
      /\ \A u \in Threads : u # t => thread[u].at \in {"idle", "lock"}
      /\ UNCHANGED <<executor, stop_guard, g_next_task_id>>
      /\ loop' = (IF found THEN without(loop, old) ELSE loop)
      /\ log' = (IF found THEN [log EXCEPT ![old].place = "taken"] ELSE log)
      /\ thread' = [thread EXCEPT ![t].cancelled = IF found THEN old ELSE -1,
                                  ![t].at = IF found THEN "finalize" ELSE "return"]
  BY OnlyOwner DEF Assign
<1>2. /\ thread \in [Threads -> ThreadType] /\ thread[t] \in ThreadType /\ InCall(thread[t])
      /\ old \in MaybeId /\ loop \in LoopType /\ log \in [Ids -> LogType]
      /\ loop.task_queue \in Seq(Ids)
  BY DEF LoopConsistent, TypeOK, Locked, LoopType
<1>3. found => old \in Ids
  BY <1>2 DEF MaybeId
<1>4. /\ thread' \in [Threads -> ThreadType]
      /\ thread'[t].op = thread[t].op /\ thread'[t].next = thread[t].next
      /\ thread'[t].task = thread[t].task
      /\ thread'[t].cancelled = (IF found THEN old ELSE -1)
      /\ thread'[t].at = (IF found THEN "finalize" ELSE "return")
      /\ \A u \in Threads : u # t => thread'[u] = thread[u]
  <2> DEFINE c == IF found THEN old ELSE -1
             step == IF found THEN "finalize" ELSE "return"
             r == [thread[t] EXCEPT !.cancelled = c, !.at = step]
  <2>1. c \in MaybeId /\ step \in Steps
    BY <1>2, <1>3 DEF MaybeId, Steps
  <2>2. thread' = [thread EXCEPT ![t].cancelled = c, ![t].at = step]
    BY <1>1
  <2> HIDE DEF c, step
  <2>3. thread'[t] = r /\ \A u \in Threads : u # t => thread'[u] = thread[u]
    BY <1>2, <2>2
  <2>4. /\ r \in ThreadType /\ r.cancelled = c /\ r.at = step
        /\ r.op = thread[t].op /\ r.next = thread[t].next /\ r.task = thread[t].task
    BY <1>2, <2>1 DEF ThreadType
  <2>5. thread' \in [Threads -> ThreadType]
    BY <1>2, <2>2, <2>3, <2>4
  <2> HIDE DEF r
  <2> QED
    BY <2>3, <2>4, <2>5 DEF c, step
<1>5. Locked' /\ NumbersKept'
  <2>1. InCall(thread'[t])
    BY <1>1, <1>2, <1>4 DEF InCall
  <2>2. Used(thread'[t]) = Used(thread[t]) /\ Used(thread[t]) \in 0..2
    BY <1>4 DEF Used
  <2>3. g_next_task_id \in Nat
    BY Constants DEF LoopConsistent, TypeOK
  <2> QED
    BY <1>1, <1>4, <2>1, <2>2, <2>3, OwnerGoesOn
<1>6. /\ loop' \in LoopType
      /\ loop'.state = loop.state /\ loop'.stopping_externally = loop.stopping_externally
      /\ loop'.callbacks = loop.callbacks
      /\ loop'.task_queue_scheduled = loop.task_queue_scheduled
      /\ loop.task_queue = <<>> => loop'.task_queue = <<>>
      /\ loop.deferred_task_queue = {} => loop'.deferred_task_queue = {}
  BY <1>1, <1>2, <1>3, WithoutEffect
<1>7. /\ log' \in [Ids -> LogType]
      /\ found => log'[old].place = "taken" /\ log'[old].finals = log[old].finals
      /\ \A id \in Ids : id # old => log'[id] = log[id]
  <2>1. CASE found
    <3>1. log[old] \in LogType
      BY <1>2, <1>3, <2>1
    <3>2. log'[old] = [log[old] EXCEPT !.place = "taken"] /\ \A id \in Ids : id # old => log'[id] = log[id]
      BY <1>1, <1>2, <1>3, <2>1
    <3>3. log'[old] \in LogType /\ log'[old].place = "taken" /\ log'[old].finals = log[old].finals
      BY <3>1, <3>2 DEF LogType
    <3> QED
      BY <1>1, <1>2, <1>3, <2>1, <3>2, <3>3
  <2>2. CASE ~found
    BY <1>1, <1>2, <2>2
  <2> QED
    BY <2>1, <2>2
<1>8. TypeOK'
  <2>1. update_exclusions_task' \in MaybeId
    BY <1>2 DEF Assign, MaybeId, ThreadType
  <2> QED
    BY <1>1, <1>4, <1>6, <1>7, <2>1 DEF LoopConsistent, TypeOK
<1>9. Logged'
  <2>1. \A id \in Ids : /\ ExecutorHas(id)' <=> ExecutorHas(id)
                        /\ ~ThreadHas(id)
                        /\ ThreadHas(id)' <=> found /\ id = old
    BY <1>1, <1>4 DEF ExecutorHas, ThreadHas
  <2>2. CASE found
    <3>1. /\ Ascending(loop'.task_queue)
          /\ ToSet(loop'.task_queue) = ToSet(loop.task_queue) \ {old}
          /\ loop'.deferred_task_queue = loop.deferred_task_queue \ {old}
      BY <1>1, <1>3, <2>2, WithoutEffect
    <3>2. old \in ToSet(loop.task_queue) \cup loop.deferred_task_queue /\ old \in Ids
      BY <1>3, <2>2 DEF InLists
    <3>3. log[old].place \in {"task_queue", "deferred_task_queue"}
      BY <3>2 DEF LoopConsistent, Logged
    <3>4. log[old].finals = 0 /\ ~ExecutorHas(old)
      BY <3>2, <3>3 DEF LoopConsistent, Logged
    <3> HIDE DEF old
    <3> QED
      BY <1>1, <1>7, <2>1, <2>2, <3>1, <3>2, <3>3, <3>4, TaskLeaves
  <2>3. CASE ~found
    BY <1>1, <2>1, <2>3, PlacesRest
  <2> QED
    BY <2>2, <2>3
<1>10. Phases'
  <2>1. executor.pc # "begin" /\ loop.state # "ELS_BASE_EXITED" /\ ~loop.stopping_externally
    BY <1>1 DEF LoopConsistent, Phases
  <2> QED
    BY <1>1, <1>4, <1>6, <2>1 DEF LoopConsistent, Phases
<1>11. Scheduled'
  BY <1>1, <1>4, <1>6 DEF LoopConsistent, Scheduled, Answered
<1> QED
  BY <1>5, <1>8, <1>9, <1>10, <1>11 DEF LoopConsistent

\* The cancelled task is finalized.
LEMMA CallFinalizes ==
  ASSUME LoopConsistent, NEW t \in Threads, FinalizeCancelled(t)
  PROVE  LoopConsistent'
<1> DEFINE id == thread[t].cancelled
<1>1. /\ thread[t].at = "finalize" /\ at(t, "return") /\ "return" \in Steps \ {"idle", "lock"}
      /\ log' = finalized(log, {id})
      /\ UNCHANGED <<loop, executor, stop_guard, update_exclusions_task, g_next_task_id>>
  BY DEF FinalizeCancelled, Steps
<1>2. /\ thread' \in [Threads -> ThreadType]
      /\ thread'[t].at = "return"
      /\ thread'[t].op = thread[t].op /\ thread'[t].next = thread[t].next
      /\ thread'[t].task = thread[t].task /\ thread'[t].cancelled = thread[t].cancelled
      /\ \A u \in Threads : u # t => thread'[u] = thread[u]
  BY <1>1, AtStep
<1>3. InCall(thread'[t])
  BY <1>1, <1>2 DEF LoopConsistent, Locked, InCall
<1>4. /\ Locked' /\ NumbersKept'
      /\ stop_guard = t
      /\ \A u \in Threads : u # t => thread[u].at \in {"idle", "lock"}
  BY <1>1, <1>3, OwnerMoves
<1>5. id \in Ids /\ ThreadHas(id)
  BY <1>1 DEF LoopConsistent, TypeOK, ThreadType, MaybeId, Locked, InCall, ThreadHas
<1>6. log[id].place = "taken" /\ log[id].finals = 0 /\ ~ExecutorHas(id)
  BY <1>5 DEF LoopConsistent, Logged
<1>7. /\ log' \in [Ids -> LogType]
      /\ log'[id].place = "finalized" /\ log'[id].finals = 1
      /\ \A x \in Ids : x # id => log'[x] = log[x]
  BY <1>1, <1>5, <1>6, FinalizedEffect DEF LoopConsistent, TypeOK
<1>8. TypeOK'
  BY <1>1, <1>2, <1>7 DEF LoopConsistent, TypeOK
<1>9. Logged'
  <2>1. \A x \in Ids : /\ ExecutorHas(x)' <=> ExecutorHas(x)
                       /\ ~ThreadHas(x)'
                       /\ ThreadHas(x) <=> x = id
    BY <1>1, <1>2, <1>4 DEF ExecutorHas, ThreadHas
  <2>2. id \notin ToSet(loop.task_queue) /\ id \notin loop.deferred_task_queue /\ Ascending(loop.task_queue)
    BY <1>5, <1>6 DEF LoopConsistent, Logged
  <2> HIDE DEF id
  <2> QED
    BY <1>1, <1>5, <1>6, <1>7, <2>1, <2>2, TaskLeaves
<1>10. Phases'
  <2>1. executor.pc # "begin" /\ loop.state # "ELS_BASE_EXITED" /\ ~loop.stopping_externally
    BY <1>1, <1>4 DEF LoopConsistent, Phases
  <2> QED
    BY <1>1, <1>2, <1>4, <2>1 DEF LoopConsistent, Phases
<1>11. Scheduled'
  BY <1>1, <1>2 DEF LoopConsistent, Scheduled, Answered
<1> QED
  BY <1>4, <1>8, <1>9, <1>10, <1>11 DEF LoopConsistent

\* The two steps of a stop before its wait.
LEMMA CallStops ==
  ASSUME LoopConsistent, NEW t \in Threads, vpn_event_loop_exit(t) \/ FinalizeExit(t)
  PROVE  LoopConsistent'
<1>1. PICK step \in {"stopping", "waiting"} :
        /\ at(t, step) /\ step \in Steps \ {"idle", "lock"}
        /\ step = "stopping" => thread[t].at = "exit" /\ loop' = [loop EXCEPT !.exit = TRUE]
        /\ step = "waiting" =>
             thread[t].at = "stopping" /\ loop' = [loop EXCEPT !.stopping_externally = TRUE]
        /\ UNCHANGED <<executor, stop_guard, update_exclusions_task, g_next_task_id, log>>
  <2>1. CASE vpn_event_loop_exit(t)
    BY <2>1 DEF vpn_event_loop_exit, Steps
  <2>2. CASE FinalizeExit(t)
    BY <2>2 DEF FinalizeExit, Steps
  <2> QED
    BY <2>1, <2>2
<1>2. /\ thread' \in [Threads -> ThreadType]
      /\ thread'[t].at = step
      /\ thread'[t].op = thread[t].op /\ thread'[t].next = thread[t].next
      /\ thread'[t].task = thread[t].task /\ thread'[t].cancelled = thread[t].cancelled
      /\ \A u \in Threads : u # t => thread'[u] = thread[u]
  BY <1>1, AtStep
<1>3. InCall(thread'[t]) /\ thread[t].at \notin {"idle", "lock", "finalize"}
  BY <1>1, <1>2 DEF LoopConsistent, Locked, InCall
<1>4. /\ Locked' /\ NumbersKept'
      /\ stop_guard = t
      /\ \A u \in Threads : u # t => thread[u].at \in {"idle", "lock"}
      /\ \A id \in Ids : ThreadHas(id)' <=> ThreadHas(id)
  BY <1>1, <1>3, OwnerMoves
<1>5. /\ loop' \in LoopType
      /\ loop'.state = loop.state /\ loop'.callbacks = loop.callbacks
      /\ loop'.task_queue = loop.task_queue /\ loop'.deferred_task_queue = loop.deferred_task_queue
      /\ loop'.task_queue_scheduled = loop.task_queue_scheduled
      /\ step = "stopping" => loop'.stopping_externally = loop.stopping_externally
  <2>1. loop \in LoopType
    BY DEF LoopConsistent, TypeOK
  <2> QED
    BY <1>1, <2>1 DEF LoopType
<1>6. TypeOK'
  BY <1>1, <1>2, <1>5 DEF LoopConsistent, TypeOK
<1>7. Logged'
  BY <1>1, <1>4, <1>5, PlacesRest DEF ExecutorHas
<1>8. Phases'
  <2>1. executor.pc # "begin" /\ loop.state # "ELS_BASE_EXITED" /\ ~loop.stopping_externally
    BY <1>1, <1>4 DEF LoopConsistent, Phases
  <2> QED
    BY <1>1, <1>2, <1>4, <1>5, <2>1 DEF LoopConsistent, Phases
<1>9. Scheduled'
  BY <1>1, <1>2, <1>5 DEF LoopConsistent, Scheduled, Answered
<1> QED
  BY <1>4, <1>6, <1>7, <1>8, <1>9 DEF LoopConsistent

\* The end of vpn_event_loop_finalize_exit: what is left in the lists is finalized.
LEMMA LoopFinalizes ==
  ASSUME LoopConsistent, NEW t \in Threads, vpn_event_loop_finalize_exit(t)
  PROVE  LoopConsistent'
<1> DEFINE S == ToSet(loop.task_queue) \cup loop.deferred_task_queue
<1>1. /\ thread[t].at = "waiting" /\ loop.state # "ELS_RUNNING"
      /\ at(t, "join") /\ "join" \in Steps \ {"idle", "lock"}
      /\ log' = finalized(log, S)
      /\ loop' = [loop EXCEPT !.task_queue = <<>>, !.deferred_task_queue = {},
                              !.state = "ELS_STOPPED", !.stopping_externally = FALSE]
      /\ UNCHANGED <<executor, stop_guard, update_exclusions_task, g_next_task_id>>
  BY DEF vpn_event_loop_finalize_exit, Steps
<1>2. /\ thread' \in [Threads -> ThreadType]
      /\ thread'[t].at = "join"
      /\ thread'[t].op = thread[t].op /\ thread'[t].next = thread[t].next
      /\ thread'[t].task = thread[t].task /\ thread'[t].cancelled = thread[t].cancelled
      /\ \A u \in Threads : u # t => thread'[u] = thread[u]
  BY <1>1, AtStep
<1>3. InCall(thread'[t])
  BY <1>1, <1>2 DEF LoopConsistent, Locked, InCall
<1>4. /\ Locked' /\ NumbersKept'
      /\ stop_guard = t
      /\ \A u \in Threads : u # t => thread[u].at \in {"idle", "lock"}
      /\ \A id \in Ids : ThreadHas(id)' <=> ThreadHas(id)
  BY <1>1, <1>3, OwnerMoves
<1>5. /\ loop' \in LoopType
      /\ loop'.state = "ELS_STOPPED" /\ ~loop'.stopping_externally
      /\ loop'.task_queue = <<>> /\ loop'.deferred_task_queue = {}
      /\ loop'.callbacks = loop.callbacks
      /\ loop'.task_queue_scheduled = loop.task_queue_scheduled
  <2>1. loop \in LoopType
    BY DEF LoopConsistent, TypeOK
  <2> QED
    BY <1>1, <2>1, EmptyQueue DEF LoopType, EventLoopStates
<1>6. executor.pc \in {"none", "failing", "ended"}
  <2>1. executor.pc # "begin"
    BY <1>1, <1>4 DEF LoopConsistent, Phases
  <2> QED
    BY <1>1, <2>1 DEF LoopConsistent, Phases, Running, TypeOK, ExecutorType
<1>7. \A id \in Ids : id \in S <=> log[id].place \in {"task_queue", "deferred_task_queue"}
  BY DEF LoopConsistent, Logged
<1>8. /\ log' \in [Ids -> LogType]
      /\ \A id \in Ids : id \notin S => log'[id] = log[id]
      /\ \A id \in Ids : id \in S => log'[id].place = "finalized" /\ log'[id].finals = 1
  <2>1. \A id \in Ids : id \in S => log[id].finals = 0
    BY <1>7 DEF LoopConsistent, Logged
  <2> HIDE DEF S
  <2> QED
    BY <1>1, <2>1, FinalizedEffect DEF LoopConsistent, TypeOK
<1>9. TypeOK'
  BY <1>1, <1>2, <1>5, <1>8 DEF LoopConsistent, TypeOK
<1>10. Logged'
  <2>1. Ascending(loop'.task_queue) /\ ToSet(loop'.task_queue) = {}
    BY <1>5, EmptyQueue
  <2>2. ASSUME NEW id \in Ids
        PROVE  /\ log'[id].place = "none" <=> id >= g_next_task_id
               /\ log'[id].place \notin {"task_queue", "deferred_task_queue"}
               /\ log'[id].place = "taken" <=> ExecutorHas(id)' \/ ThreadHas(id)'
               /\ ~(ExecutorHas(id)' /\ ThreadHas(id)')
               /\ log'[id].finals = IF log'[id].place = "finalized" THEN 1 ELSE 0
    <3>1. ExecutorHas(id)' <=> ExecutorHas(id)
      BY <1>1 DEF ExecutorHas
    <3>2. CASE id \in S
      BY <1>4, <1>7, <1>8, <3>1, <3>2 DEF LoopConsistent, Logged
    <3>3. CASE id \notin S
      BY <1>4, <1>7, <1>8, <3>1, <3>3 DEF LoopConsistent, Logged
    <3> QED
      BY <3>2, <3>3
  <2> QED
    BY <1>1, <1>5, <2>1, <2>2 DEF Logged
<1>11. Phases'
  BY <1>1, <1>2, <1>4, <1>5, <1>6 DEF LoopConsistent, Phases, Running
<1>12. Scheduled'
  BY <1>1, <1>2, <1>5 DEF LoopConsistent, Scheduled, Answered
<1> QED
  BY <1>4, <1>9, <1>10, <1>11, <1>12 DEF LoopConsistent

\* The thread of the loop is joined.
LEMMA LoopJoined ==
  ASSUME LoopConsistent, NEW t \in Threads, Join(t)
  PROVE  LoopConsistent'
<1>1. PICK step \in {"reset", "return"} :
        /\ thread[t].at = "join" /\ executor.pc \in {"none", "ended"}
        /\ at(t, step) /\ step \in Steps \ {"idle", "lock"}
        /\ step = "reset" => thread[t].op = "stop"
        /\ executor' = NoExecutor
        /\ UNCHANGED <<loop, stop_guard, update_exclusions_task, g_next_task_id, log>>
  BY DEF Join, Steps
<1>2. /\ thread' \in [Threads -> ThreadType]
      /\ thread'[t].at = step
      /\ thread'[t].op = thread[t].op /\ thread'[t].next = thread[t].next
      /\ thread'[t].task = thread[t].task /\ thread'[t].cancelled = thread[t].cancelled
      /\ \A u \in Threads : u # t => thread'[u] = thread[u]
  BY <1>1, AtStep
<1>3. InCall(thread'[t])
  BY <1>1, <1>2 DEF LoopConsistent, Locked, InCall
<1>4. /\ Locked' /\ NumbersKept'
      /\ stop_guard = t
      /\ \A u \in Threads : u # t => thread[u].at \in {"idle", "lock"}
      /\ \A id \in Ids : ThreadHas(id)' <=> ThreadHas(id)
  BY <1>1, <1>3, OwnerMoves
<1>5. executor'.pc = "none" /\ executor' \in ExecutorType
  <2>1. 0 \in 0..Budget
    BY Constants
  <2> QED
    BY <1>1, <2>1 DEF NoExecutor, ExecutorType, MaybeId
<1>6. TypeOK'
  BY <1>1, <1>2, <1>5 DEF LoopConsistent, TypeOK
<1>7. Logged'
  BY <1>1, <1>4, <1>5, PlacesRest DEF ExecutorHas
<1>8. Phases'
  BY <1>1, <1>2, <1>4, <1>5 DEF LoopConsistent, Phases, Running
<1>9. Scheduled'
  BY <1>1, <1>2, <1>5 DEF LoopConsistent, Scheduled, Answered
<1> QED
  BY <1>4, <1>6, <1>7, <1>8, <1>9 DEF LoopConsistent

\* The loop is destroyed.
LEMMA LoopDestroyed ==
  ASSUME LoopConsistent, NEW t \in Threads, Reset(t)
  PROVE  LoopConsistent'
<1>1. /\ thread[t].at = "reset"
      /\ at(t, "return") /\ "return" \in Steps \ {"idle", "lock"}
      /\ loop' = NullLoop /\ update_exclusions_task' = -1
      /\ UNCHANGED <<executor, stop_guard, g_next_task_id, log>>
  BY DEF Reset, Steps
<1>2. /\ thread' \in [Threads -> ThreadType]
      /\ thread'[t].at = "return"
      /\ thread'[t].op = thread[t].op /\ thread'[t].next = thread[t].next
      /\ thread'[t].task = thread[t].task /\ thread'[t].cancelled = thread[t].cancelled
      /\ \A u \in Threads : u # t => thread'[u] = thread[u]
  BY <1>1, AtStep
<1>3. InCall(thread'[t])
  BY <1>1, <1>2 DEF LoopConsistent, Locked, InCall
<1>4. /\ Locked' /\ NumbersKept'
      /\ stop_guard = t
      /\ \A u \in Threads : u # t => thread[u].at \in {"idle", "lock"}
      /\ \A id \in Ids : ThreadHas(id)' <=> ThreadHas(id)
  BY <1>1, <1>3, OwnerMoves
<1>5. /\ executor.pc = "none" /\ loop.task_queue = <<>> /\ loop.deferred_task_queue = {}
  BY <1>1 DEF LoopConsistent, Phases
<1>6. /\ loop' \in LoopType
      /\ loop'.state = "nullptr" /\ ~loop'.stopping_externally
      /\ loop'.task_queue = <<>> /\ loop'.deferred_task_queue = {}
      /\ ~loop'.task_queue_scheduled
  BY <1>1, EmptyQueue DEF NullLoop, vpn_event_loop_create, LoopType, EventLoopStates
<1>7. TypeOK'
  BY <1>1, <1>2, <1>6 DEF LoopConsistent, TypeOK, MaybeId
<1>8. Logged'
  BY <1>1, <1>4, <1>5, <1>6, PlacesRest DEF ExecutorHas
<1>9. Phases'
  BY <1>1, <1>2, <1>4, <1>5, <1>6 DEF Phases, Running
<1>10. Scheduled'
  BY <1>6 DEF Scheduled
<1> QED
  BY <1>4, <1>7, <1>8, <1>9, <1>10 DEF LoopConsistent

-----------------------------------------------------------------------------
(* Steps of the executor.                                                  *)

\* The executor enters event_base_loop, leaves it or ends: no task is touched.
LEMMA ExecutorMoves ==
  ASSUME LoopConsistent,
         \/ vpn_event_loop_run \/ LoopExits \/ LoopFails \/ LoopReturned \/ ShutdownAfterFailure
  PROVE  LoopConsistent'
<1>1. UNCHANGED <<thread, stop_guard, update_exclusions_task, g_next_task_id, log>>
  BY DEF vpn_event_loop_run, LoopExits, LoopFails, LoopReturned, ShutdownAfterFailure
<1>2. loop \in LoopType /\ executor \in ExecutorType
  BY DEF LoopConsistent, TypeOK
<1>3. /\ executor.pc \in {"begin", "poll", "returned", "failing"}
      /\ executor' \in ExecutorType
      /\ \/ executor.pc = "begin" /\ executor'.pc = "poll" /\ loop'.state = "ELS_RUNNING"
         \/ executor.pc = "poll" /\ executor'.pc = "returned" /\ loop'.state = loop.state
         \/ /\ executor.pc = "returned" /\ executor'.pc \in {"failing", "ended"}
            /\ loop'.state = IF loop.stopping_externally THEN "ELS_BASE_EXITED" ELSE "ELS_STOPPED"
         \/ executor.pc = "failing" /\ executor'.pc = "ended" /\ loop'.state = loop.state
      /\ loop' \in LoopType
      /\ loop'.stopping_externally = loop.stopping_externally /\ loop'.callbacks = loop.callbacks
      /\ loop'.task_queue = loop.task_queue /\ loop'.deferred_task_queue = loop.deferred_task_queue
      /\ loop'.task_queue_scheduled = loop.task_queue_scheduled
  <2>1. CASE vpn_event_loop_run
    BY <1>2, <2>1 DEF vpn_event_loop_run, LoopType, EventLoopStates, ExecutorType
  <2>2. CASE LoopExits
    BY <1>2, <2>2 DEF LoopExits, LoopType, ExecutorType
  <2>3. CASE LoopFails
    BY <1>2, <2>3 DEF LoopFails, ExecutorType
  <2>4. CASE LoopReturned
    BY <1>2, <2>4 DEF LoopReturned, LoopType, EventLoopStates, ExecutorType
  <2>5. CASE ShutdownAfterFailure
    BY <1>2, <2>5 DEF ShutdownAfterFailure, ExecutorType
  <2> QED
    BY <2>1, <2>2, <2>3, <2>4, <2>5
<1>4. TypeOK'
  BY <1>1, <1>3 DEF LoopConsistent, TypeOK
<1>5. Locked' /\ NumbersKept'
  BY <1>1, ThreadsRest
<1>6. Logged'
  <2>1. \A id \in Ids : (ExecutorHas(id)' <=> ExecutorHas(id)) /\ (ThreadHas(id)' <=> ThreadHas(id))
    BY <1>1, <1>3 DEF ExecutorHas, ThreadHas
  <2> QED
    BY <1>1, <1>3, <2>1, PlacesRest
<1>7. Phases'
  <2>1. loop.state = "nullptr" => executor.pc = "none"
    BY DEF LoopConsistent, Phases
  <2>2. \A t \in Threads : thread[t].at \in {"join", "reset"} => executor.pc = "failing" /\ thread[t].at # "reset"
    BY <1>3 DEF LoopConsistent, Phases
  <2> QED
    BY <1>1, <1>3, <2>1, <2>2 DEF LoopConsistent, Phases, Running
<1>8. Scheduled'
  BY <1>1, <1>3 DEF LoopConsistent, Scheduled, Answered
<1> QED
  BY <1>4, <1>5, <1>6, <1>7, <1>8 DEF LoopConsistent

\* A callback begins, finds nothing left, or leaves the rest to another one.
LEMMA QueueMoves ==
  ASSUME LoopConsistent, run_task_queue \/ QueueEmpty \/ QueueLeft
  PROVE  LoopConsistent'
<1>1. UNCHANGED <<thread, stop_guard, update_exclusions_task, g_next_task_id, log>>
  BY DEF run_task_queue, QueueEmpty, QueueLeft
<1>2. loop \in LoopType /\ executor \in ExecutorType /\ loop.task_queue \in Seq(Ids)
  BY DEF LoopConsistent, TypeOK, LoopType
<1>3. /\ executor' \in ExecutorType /\ loop' \in LoopType
      /\ executor.pc \in {"poll", "queue"} /\ executor'.pc \in {"poll", "queue"}
      /\ executor'.pc = "queue" => executor'.back = "queue"
      /\ executor'.pc = "poll" =>
           \/ ~loop'.task_queue_scheduled /\ loop.task_queue = <<>>
           \/ loop'.callbacks > 0 /\ loop'.task_queue_scheduled = loop.task_queue_scheduled
      /\ executor'.pc = "queue" => loop'.task_queue_scheduled = loop.task_queue_scheduled
      /\ loop'.state = loop.state /\ loop'.stopping_externally = loop.stopping_externally
      /\ loop'.task_queue = loop.task_queue /\ loop'.deferred_task_queue = loop.deferred_task_queue
  <2>1. CASE run_task_queue
    <3>1. loop.callbacks - 1 \in Nat
      BY <1>2, <2>1 DEF run_task_queue, LoopType
    <3> DEFINE last == IF loop.task_queue = <<>> THEN -1 ELSE Last(loop.task_queue)
    <3>2. last \in MaybeId /\ 0 \in 0..Budget
      <4>1. ASSUME loop.task_queue # <<>> PROVE Last(loop.task_queue) \in Ids
        BY <1>2, <4>1, EmptySeq, ElementOfSeq DEF Last
      <4> QED
        BY <4>1, Constants DEF MaybeId
    <3> HIDE DEF last
    <3>3. executor' = [executor EXCEPT !.pc = "queue", !.i = 0, !.back = "queue", !.last = last]
      BY <2>1 DEF run_task_queue, last
    <3>4. executor' \in ExecutorType /\ executor'.pc = "queue" /\ executor'.back = "queue"
      BY <1>2, <3>2, <3>3 DEF ExecutorType
    <3>5. executor.pc = "poll" /\ loop' = [loop EXCEPT !.callbacks = @ - 1]
      BY <2>1 DEF run_task_queue
    <3> QED
      BY <1>2, <3>1, <3>4, <3>5 DEF LoopType
  <2>2. CASE QueueEmpty
    <3>1. executor' \in ExecutorType /\ executor'.pc = "poll"
      BY <1>2, <2>2 DEF QueueEmpty, ExecutorType
    <3>2. /\ executor.pc = "queue" /\ loop.task_queue = <<>>
          /\ loop' = [loop EXCEPT !.task_queue_scheduled = FALSE]
      BY <2>2 DEF QueueEmpty
    <3> QED
      BY <1>2, <3>1, <3>2 DEF LoopType
  <2>3. CASE QueueLeft
    <3>1. executor' \in ExecutorType /\ executor'.pc = "poll"
      BY <1>2, <2>3 DEF QueueLeft, ExecutorType
    <3>2. executor.pc = "queue" /\ loop' = [loop EXCEPT !.callbacks = @ + 1]
      BY <2>3 DEF QueueLeft
    <3> QED
      BY <1>2, <3>1, <3>2 DEF LoopType
  <2> QED
    BY <2>1, <2>2, <2>3
<1>4. TypeOK'
  BY <1>1, <1>3 DEF LoopConsistent, TypeOK
<1>5. Locked' /\ NumbersKept'
  BY <1>1, ThreadsRest
<1>6. Logged'
  <2>1. \A id \in Ids : (ExecutorHas(id)' <=> ExecutorHas(id)) /\ (ThreadHas(id)' <=> ThreadHas(id))
    BY <1>1, <1>3 DEF ExecutorHas, ThreadHas
  <2> QED
    BY <1>1, <1>3, <2>1, PlacesRest
<1>7. Phases'
  BY <1>1, <1>3 DEF LoopConsistent, Phases, Running
<1>8. Scheduled'
  BY <1>1, <1>3 DEF LoopConsistent, Scheduled, Answered
<1> QED
  BY <1>4, <1>5, <1>6, <1>7, <1>8 DEF LoopConsistent

\* A change of one entry of the log.
LEMMA PlaceSet ==
  ASSUME LoopConsistent, NEW id \in Ids, log' = [log EXCEPT ![id].place = "taken"]
  PROVE  /\ log' \in [Ids -> LogType]
         /\ log'[id].place = "taken" /\ log'[id].finals = log[id].finals
         /\ \A x \in Ids : x # id => log'[x] = log[x]
<1>1. log \in [Ids -> LogType] /\ log[id] \in LogType
  BY DEF LoopConsistent, TypeOK
<1>2. log'[id] = [log[id] EXCEPT !.place = "taken"] /\ \A x \in Ids : x # id => log'[x] = log[x]
  BY <1>1
<1>3. log'[id] \in LogType /\ log'[id].place = "taken" /\ log'[id].finals = log[id].finals
  BY <1>1, <1>2 DEF LogType
<1> QED
  BY <1>1, <1>2, <1>3

\* The executor takes a task out of a list.
LEMMA TaskTaken ==
  ASSUME LoopConsistent, NEW id \in Ids,
         \/ TakeTask /\ id = Head(loop.task_queue)
         \/ run_deferred_task(id)
  PROVE  LoopConsistent'
<1>1. /\ UNCHANGED <<thread, stop_guard, update_exclusions_task, g_next_task_id>>
      /\ log' = [log EXCEPT ![id].place = "taken"]
  BY DEF TakeTask, run_deferred_task
<1>2. /\ loop \in LoopType /\ executor \in ExecutorType
      /\ loop.task_queue \in Seq(Ids) /\ Ascending(loop.task_queue) /\ loop.deferred_task_queue \subseteq Ids
  BY DEF LoopConsistent, TypeOK, LoopType, Logged
<1>3. /\ executor' \in ExecutorType /\ executor'.pc = "action" /\ executor'.task = id
      /\ \/ executor.pc = "queue" /\ executor'.back = executor.back
         \/ executor.pc = "poll" /\ executor'.back = "poll"
  <2>1. CASE TakeTask
    <3>1. executor.i \in 0..Budget /\ executor.i # Budget /\ executor.i + 1 \in 0..Budget
      BY <1>2, <2>1, Constants DEF TakeTask, ExecutorType
    <3>2. /\ executor.pc = "queue"
          /\ executor' = [executor EXCEPT !.pc = "action", !.task = id, !.i = @ + 1]
      BY <2>1 DEF TakeTask, run_deferred_task
    <3>3. id \in MaybeId
      BY DEF MaybeId
    <3> QED
      BY <1>2, <3>1, <3>2, <3>3 DEF ExecutorType
  <2>2. CASE run_deferred_task(id)
    BY <1>2, <2>2 DEF run_deferred_task, ExecutorType, MaybeId
  <2> QED
    BY <2>1, <2>2
<1>4. /\ loop' \in LoopType
      /\ loop'.state = loop.state /\ loop'.stopping_externally = loop.stopping_externally
      /\ loop'.callbacks = loop.callbacks
      /\ loop'.task_queue_scheduled = loop.task_queue_scheduled
      /\ loop.task_queue = <<>> => loop'.task_queue = <<>>
      /\ Ascending(loop'.task_queue)
      /\ \/ /\ id \in ToSet(loop.task_queue) /\ ToSet(loop'.task_queue) = ToSet(loop.task_queue) \ {id}
            /\ loop'.deferred_task_queue = loop.deferred_task_queue
         \/ /\ id \in loop.deferred_task_queue /\ loop'.task_queue = loop.task_queue
            /\ loop'.deferred_task_queue = loop.deferred_task_queue \ {id}
  <2>1. CASE TakeTask /\ id = Head(loop.task_queue)
    <3>1. loop.task_queue # <<>> /\ loop' = [loop EXCEPT !.task_queue = Tail(@)]
      BY <2>1 DEF TakeTask
    <3>2. /\ Tail(loop.task_queue) \in Seq(Ids) /\ id \in ToSet(loop.task_queue)
          /\ Ascending(Tail(loop.task_queue))
          /\ ToSet(Tail(loop.task_queue)) = ToSet(loop.task_queue) \ {id}
      BY <1>2, <2>1, <3>1, TailOfQueue
    <3>3. /\ loop' \in LoopType /\ loop'.task_queue = Tail(loop.task_queue)
          /\ loop'.state = loop.state /\ loop'.stopping_externally = loop.stopping_externally
          /\ loop'.callbacks = loop.callbacks
          /\ loop'.task_queue_scheduled = loop.task_queue_scheduled
          /\ loop'.deferred_task_queue = loop.deferred_task_queue
      BY <1>2, <3>1, <3>2 DEF LoopType
    <3> QED
      BY <3>1, <3>2, <3>3
  <2>2. CASE run_deferred_task(id)
    <3>1. id \in loop.deferred_task_queue /\ loop' = [loop EXCEPT !.deferred_task_queue = @ \ {id}]
      BY <2>2 DEF run_deferred_task
    <3> QED
      BY <1>2, <3>1 DEF LoopType
  <2> QED
    BY <2>1, <2>2
<1>5. /\ log' \in [Ids -> LogType]
      /\ log'[id].place = "taken" /\ log'[id].finals = log[id].finals
      /\ \A x \in Ids : x # id => log'[x] = log[x]
  BY <1>1, PlaceSet
<1>6. TypeOK'
  BY <1>1, <1>3, <1>4, <1>5 DEF LoopConsistent, TypeOK
<1>7. Locked' /\ NumbersKept'
  BY <1>1, ThreadsRest
<1>8. Logged'
  <2>1. log[id].place \in {"task_queue", "deferred_task_queue"}
    BY <1>4 DEF LoopConsistent, Logged
  <2>2. /\ log[id].finals = 0 /\ ~ThreadHas(id)
        /\ id \notin ToSet(loop'.task_queue) /\ id \notin loop'.deferred_task_queue
    BY <1>4, <2>1 DEF LoopConsistent, Logged
  <2>3. \A x \in Ids : /\ ~ExecutorHas(x)
                       /\ ExecutorHas(x)' <=> x = id
                       /\ ThreadHas(x)' <=> ThreadHas(x)
    BY <1>1, <1>3 DEF ExecutorHas, ThreadHas
  <2> QED
    BY <1>1, <1>4, <1>5, <2>1, <2>2, <2>3, TaskLeaves
<1>9. Phases'
  <2>1. id # -1
    BY Constants
  <2> QED
    BY <1>1, <1>3, <1>4, <2>1 DEF LoopConsistent, Phases, Running
<1>10. Scheduled'
  BY <1>1, <1>3, <1>4 DEF LoopConsistent, Scheduled, Answered, Phases
<1> QED
  BY <1>6, <1>7, <1>8, <1>9, <1>10 DEF LoopConsistent

\* The action of a task runs.
LEMMA ActionRuns ==
  ASSUME LoopConsistent, Action
  PROVE  LoopConsistent'
<1> DEFINE id == executor.task
<1>1. /\ executor.pc = "action" /\ executor' = [executor EXCEPT !.pc = "finalize"]
      /\ log' = [log EXCEPT ![id].ran = TRUE]
      /\ UNCHANGED <<loop, thread, stop_guard, g_next_task_id>>
  BY DEF Action
<1>2. executor \in ExecutorType /\ id \in Ids /\ log \in [Ids -> LogType] /\ log[id] \in LogType
  BY <1>1 DEF LoopConsistent, TypeOK, ExecutorType, MaybeId, Phases
<1>3. /\ executor' \in ExecutorType /\ executor'.pc = "finalize"
      /\ executor'.task = executor.task /\ executor'.back = executor.back
  BY <1>1, <1>2 DEF ExecutorType
<1>4. /\ log' \in [Ids -> LogType]
      /\ \A x \in Ids : log'[x].place = log[x].place /\ log'[x].finals = log[x].finals
  <2>1. log'[id] = [log[id] EXCEPT !.ran = TRUE] /\ \A x \in Ids : x # id => log'[x] = log[x]
    BY <1>1, <1>2
  <2>2. log'[id] \in LogType /\ log'[id].place = log[id].place /\ log'[id].finals = log[id].finals
    BY <1>2, <2>1 DEF LogType
  <2> QED
    BY <1>1, <1>2, <2>1, <2>2
<1>5. TypeOK'
  <2>1. update_exclusions_task' \in MaybeId
    BY DEF Action, LoopConsistent, TypeOK, MaybeId
  <2> QED
    BY <1>1, <1>3, <1>4, <2>1 DEF LoopConsistent, TypeOK
<1>6. Locked' /\ NumbersKept'
  BY <1>1, ThreadsRest
<1>7. Logged'
  <2>1. \A x \in Ids : (ExecutorHas(x)' <=> ExecutorHas(x)) /\ (ThreadHas(x)' <=> ThreadHas(x))
    BY <1>1, <1>3 DEF ExecutorHas, ThreadHas
  <2> QED
    BY <1>1, <1>4, <2>1 DEF LoopConsistent, Logged
<1>8. Phases'
  BY <1>1, <1>3 DEF LoopConsistent, Phases, Running
<1>9. Scheduled'
  BY <1>1, <1>3 DEF LoopConsistent, Scheduled, Answered
<1> QED
  BY <1>5, <1>6, <1>7, <1>8, <1>9 DEF LoopConsistent

\* An action submits or schedules a task of its own.
LEMMA ActionAdds ==
  ASSUME LoopConsistent, ActionSubmits \/ ActionSchedules
  PROVE  LoopConsistent'
<1> DEFINE g == g_next_task_id
<1>1. /\ executor.pc = "action" /\ g + Reserved < MaxId /\ g_next_task_id' = g + 1
      /\ UNCHANGED <<executor, thread, stop_guard, update_exclusions_task>>
  BY DEF ActionSubmits, ActionSchedules, vpn_event_loop_schedule
<1>2. g \in Ids /\ g + 1 \in 0..MaxId
  BY <1>1, NumberForAction
<1>3. loop.state = "ELS_RUNNING"
  BY <1>1 DEF LoopConsistent, Phases, Running
<1>4. /\ loop \in LoopType /\ log \in [Ids -> LogType] /\ log[g] \in LogType
      /\ loop.task_queue \in Seq(Ids) /\ log[g].finals = 0
  BY <1>2, Constants DEF LoopConsistent, TypeOK, LoopType, Logged
<1>5. /\ log' \in [Ids -> LogType] /\ log'[g].finals = 0
      /\ log'[g].place = (IF ActionSubmits THEN "task_queue" ELSE "deferred_task_queue")
      /\ \A id \in Ids : id # g => log'[id] = log[id]
  <2>1. CASE ActionSubmits
    <3> DEFINE r == [log[g] EXCEPT !.place = "task_queue", !.kind = "own"]
    <3>1. log' = [log EXCEPT ![g].place = "task_queue", ![g].kind = "own"]
      BY <2>1 DEF ActionSubmits
    <3>2. log'[g] = r /\ \A id \in Ids : id # g => log'[id] = log[id]
      BY <1>2, <1>4, <3>1
    <3>3. r \in LogType /\ r.place = "task_queue" /\ r.finals = 0
      BY <1>4 DEF LogType
    <3>4. log' \in [Ids -> LogType]
      BY <1>4, <3>1, <3>2, <3>3
    <3> HIDE DEF r
    <3> QED
      BY <2>1, <3>2, <3>3, <3>4
  <2>2. CASE ~ActionSubmits
    <3> DEFINE l == [log EXCEPT ![g].kind = "own"]
    <3>1. vpn_event_loop_schedule
      BY <2>2 DEF ActionSchedules
    <3>2. log' = [l EXCEPT ![g].place = "deferred_task_queue"]
      BY <1>3, <3>1 DEF vpn_event_loop_schedule
    <3>3. /\ l \in [Ids -> LogType] /\ l[g] \in LogType /\ l[g].finals = 0
          /\ \A id \in Ids : id # g => l[id] = log[id]
      <4>1. l[g] = [log[g] EXCEPT !.kind = "own"]
        BY <1>2, <1>4
      <4>2. [log[g] EXCEPT !.kind = "own"] \in LogType /\ [log[g] EXCEPT !.kind = "own"].finals = 0
        BY <1>4 DEF LogType
      <4> QED
        BY <1>2, <1>4, <4>1, <4>2
    <3> HIDE DEF l
    <3>4. /\ log'[g] = [l[g] EXCEPT !.place = "deferred_task_queue"]
          /\ \A id \in Ids : id # g => log'[id] = log[id]
      BY <1>2, <3>2, <3>3
    <3>5. log'[g] \in LogType /\ log'[g].place = "deferred_task_queue" /\ log'[g].finals = 0
      BY <3>3, <3>4 DEF LogType
    <3>6. log' \in [Ids -> LogType]
      BY <3>2, <3>3, <3>4, <3>5
    <3> QED
      BY <2>2, <3>4, <3>5, <3>6
  <2> QED
    BY <2>1, <2>2
<1>6. /\ loop' \in LoopType
      /\ loop'.state = loop.state /\ loop'.stopping_externally = loop.stopping_externally
      /\ \/ /\ ActionSubmits
            /\ loop'.task_queue = Append(loop.task_queue, g)
            /\ loop'.deferred_task_queue = loop.deferred_task_queue
            /\ loop'.task_queue_scheduled
            /\ IF loop.task_queue_scheduled THEN loop'.callbacks = loop.callbacks
               ELSE loop'.callbacks > 0
         \/ /\ ~ActionSubmits
            /\ loop'.task_queue = loop.task_queue
            /\ loop'.deferred_task_queue = loop.deferred_task_queue \cup {g}
            /\ loop'.callbacks = loop.callbacks
            /\ loop'.task_queue_scheduled = loop.task_queue_scheduled
  <2>1. CASE ActionSubmits
    <3> DEFINE n == IF loop.task_queue_scheduled THEN loop.callbacks ELSE loop.callbacks + 1
    <3>1. loop' = [loop EXCEPT !.task_queue = Append(loop.task_queue, g), !.task_queue_scheduled = TRUE,
                               !.callbacks = n]
      BY <1>4, <2>1 DEF ActionSubmits, LoopType
    <3>2. n \in Nat /\ (loop.task_queue_scheduled => n = loop.callbacks)
             /\ (~loop.task_queue_scheduled => n > 0)
      BY <1>4 DEF LoopType
    <3>3. Append(loop.task_queue, g) \in Seq(Ids)
      BY <1>2, <1>4
    <3> HIDE DEF n
    <3>4. /\ loop' \in LoopType /\ loop'.state = loop.state
          /\ loop'.stopping_externally = loop.stopping_externally
          /\ loop'.task_queue = Append(loop.task_queue, g)
          /\ loop'.deferred_task_queue = loop.deferred_task_queue
          /\ loop'.task_queue_scheduled /\ loop'.callbacks = n
      BY <1>4, <3>1, <3>2, <3>3 DEF LoopType
    <3> QED
      BY <2>1, <3>2, <3>4
  <2>2. CASE ~ActionSubmits
    <3>1. loop' = [loop EXCEPT !.deferred_task_queue = @ \cup {g}]
      BY <1>3, <2>2 DEF ActionSchedules, vpn_event_loop_schedule
    <3> QED
      BY <1>2, <1>4, <2>2, <3>1 DEF LoopType
  <2> QED
    BY <2>1, <2>2
<1>7. TypeOK'
  BY <1>1, <1>2, <1>5, <1>6 DEF LoopConsistent, TypeOK
<1>8. Locked' /\ NumbersKept'
  BY <1>1, ThreadsRest, ActionTakesNumber
<1>9. Logged'
  <2>1. \A id \in Ids : (ExecutorHas(id)' <=> ExecutorHas(id)) /\ (ThreadHas(id)' <=> ThreadHas(id))
    BY <1>1 DEF ExecutorHas, ThreadHas
  <2> QED
    BY <1>1, <1>2, <1>5, <1>6, <2>1, NewTask
<1>10. Phases'
  <2>1. \A t \in Threads : thread[t].at \notin {"join", "reset"}
    BY <1>1 DEF LoopConsistent, Phases
  <2> QED
    BY <1>1, <1>3, <1>6, <2>1 DEF LoopConsistent, Phases
<1>11. Scheduled'
  BY <1>1, <1>6 DEF LoopConsistent, Scheduled, Answered
<1> QED
  BY <1>7, <1>8, <1>9, <1>10, <1>11 DEF LoopConsistent

\* An action cancels a task of its own.
LEMMA ActionTakesBack ==
  ASSUME LoopConsistent, NEW id \in Ids, ActionCancels(id)
  PROVE  LoopConsistent'
<1>1. /\ executor.pc = "action" /\ InLists(id)
      /\ loop' = without(loop, id) /\ log' = finalized(log, {id})
      /\ UNCHANGED <<executor, thread, stop_guard, update_exclusions_task, g_next_task_id>>
  BY DEF ActionCancels
<1>2. /\ loop' \in LoopType /\ Ascending(loop'.task_queue)
      /\ ToSet(loop'.task_queue) = ToSet(loop.task_queue) \ {id}
      /\ loop'.deferred_task_queue = loop.deferred_task_queue \ {id}
      /\ loop'.state = loop.state /\ loop'.stopping_externally = loop.stopping_externally
      /\ loop'.task_queue_scheduled = loop.task_queue_scheduled
      /\ loop'.callbacks = loop.callbacks
      /\ loop.task_queue = <<>> => loop'.task_queue = <<>>
  BY <1>1, WithoutEffect
<1>3. log[id].place \in {"task_queue", "deferred_task_queue"}
  BY <1>1 DEF InLists, LoopConsistent, Logged
<1>4. log[id].finals = 0 /\ ~ExecutorHas(id) /\ ~ThreadHas(id)
  BY <1>3 DEF LoopConsistent, Logged
<1>5. /\ log' \in [Ids -> LogType]
      /\ log'[id].place = "finalized" /\ log'[id].finals = 1
      /\ \A x \in Ids : x # id => log'[x] = log[x]
  BY <1>1, <1>4, FinalizedEffect DEF LoopConsistent, TypeOK
<1>6. TypeOK'
  BY <1>1, <1>2, <1>5 DEF LoopConsistent, TypeOK
<1>7. Locked' /\ NumbersKept'
  BY <1>1, ThreadsRest
<1>8. Logged'
  <2>1. \A x \in Ids : (ExecutorHas(x)' <=> ExecutorHas(x)) /\ (ThreadHas(x)' <=> ThreadHas(x))
    BY <1>1 DEF ExecutorHas, ThreadHas
  <2> QED
    BY <1>1, <1>2, <1>3, <1>4, <1>5, <2>1, TaskLeaves
<1>9. Phases'
  BY <1>1, <1>2 DEF LoopConsistent, Phases
<1>10. Scheduled'
  BY <1>1, <1>2 DEF LoopConsistent, Scheduled, Answered
<1> QED
  BY <1>6, <1>7, <1>8, <1>9, <1>10 DEF LoopConsistent

\* The executor finalizes its task and goes on.
LEMMA TaskFinalized ==
  ASSUME LoopConsistent, FinalizeTask
  PROVE  LoopConsistent'
<1> DEFINE id == executor.task
<1>1. /\ executor.pc = "finalize" /\ log' = finalized(log, {id})
      /\ executor' = [executor EXCEPT !.pc = executor.back, !.task = -1]
      /\ UNCHANGED <<loop, thread, stop_guard, update_exclusions_task, g_next_task_id>>
  BY DEF FinalizeTask
<1>2. executor \in ExecutorType /\ id \in Ids /\ ExecutorHas(id)
  BY <1>1 DEF LoopConsistent, TypeOK, ExecutorType, MaybeId, Phases, ExecutorHas
<1>3. executor' \in ExecutorType /\ executor'.pc = executor.back /\ executor'.back = executor.back
  BY <1>1, <1>2 DEF ExecutorType, MaybeId
<1>4. executor.back \in {"queue", "poll"}
  BY <1>2 DEF ExecutorType
<1>5. log[id].place = "taken" /\ log[id].finals = 0 /\ ~ThreadHas(id)
  BY <1>2 DEF LoopConsistent, Logged
<1>6. /\ log' \in [Ids -> LogType]
      /\ log'[id].place = "finalized" /\ log'[id].finals = 1
      /\ \A x \in Ids : x # id => log'[x] = log[x]
  BY <1>1, <1>2, <1>5, FinalizedEffect DEF LoopConsistent, TypeOK
<1>7. TypeOK'
  BY <1>1, <1>3, <1>6 DEF LoopConsistent, TypeOK
<1>8. Locked' /\ NumbersKept'
  BY <1>1, ThreadsRest
<1>9. Logged'
  <2>1. \A x \in Ids : /\ ~ExecutorHas(x)'
                       /\ ExecutorHas(x) <=> x = id
                       /\ ThreadHas(x)' <=> ThreadHas(x)
    BY <1>1, <1>3, <1>4 DEF ExecutorHas, ThreadHas
  <2>2. id \notin ToSet(loop.task_queue) /\ id \notin loop.deferred_task_queue /\ Ascending(loop.task_queue)
    BY <1>2, <1>5 DEF LoopConsistent, Logged
  <2> HIDE DEF id
  <2> QED
    BY <1>1, <1>2, <1>5, <1>6, <2>1, <2>2, TaskLeaves
<1>10. Phases'
  BY <1>1, <1>3, <1>4 DEF LoopConsistent, Phases, Running
<1>11. Scheduled'
  BY <1>1, <1>3, <1>4 DEF LoopConsistent, Scheduled, Answered
<1> QED
  BY <1>7, <1>8, <1>9, <1>10, <1>11 DEF LoopConsistent

-----------------------------------------------------------------------------
(* The theorems.                                                           *)

\* Nothing changes.
LEMMA LoopStutters ==
  ASSUME LoopConsistent, UNCHANGED vars
  PROVE  LoopConsistent'
<1>1. TypeOK'
  BY DEF vars, LoopConsistent, TypeOK
<1>2. Locked' /\ NumbersKept'
  BY ThreadsRest DEF vars
<1>3. Logged'
  BY PlacesRest DEF vars, ExecutorHas, ThreadHas
<1>4. Phases'
  BY DEF vars, LoopConsistent, Phases
<1>5. Scheduled'
  BY DEF vars, LoopConsistent, Scheduled, Answered
<1> QED
  BY <1>1, <1>2, <1>3, <1>4, <1>5 DEF LoopConsistent

\* Every step keeps the invariant.
LEMMA LoopSteps ==
  ASSUME LoopConsistent, [Next]_vars
  PROVE  LoopConsistent'
<1>1. CASE UNCHANGED vars
  BY <1>1, LoopStutters
<1>2. ASSUME NEW t \in Threads, ThreadStep(t) PROVE LoopConsistent'
  <2>1. CASE \/ ConnectRefused(t) \/ ListenRefused(t) \/ Dispatched(t) \/ NotActive(t)
             \/ StopWithoutLoop(t)
    BY <2>1, MovesAre, CallMoves
  <2>2. CASE DispatchSync(t) \/ Submit(t) \/ UpdateExclusions(t) \/ SubmitShutdown(t)
    <3>1. PICK kind \in {"call", "update"}, next \in {"wait", "return", "assign", "exit"} :
            Submits(t, kind, next)
      BY <2>2, SubmitsAre
    <3> QED
      BY <3>1, CallSubmits
  <2>3. CASE Lock(t) \/ Return(t) \/ run_event_loop(t) \/ Arm(t)
    BY <2>3, CallLocks, CallReturns, LoopStarts, CallArms
  <2>4. CASE Assign(t) \/ FinalizeCancelled(t)
    BY <2>4, CallAssigns, CallFinalizes
  <2>5. CASE \/ vpn_event_loop_exit(t) \/ FinalizeExit(t) \/ vpn_event_loop_finalize_exit(t)
             \/ Join(t) \/ Reset(t)
    BY <2>5, CallStops, LoopFinalizes, LoopJoined, LoopDestroyed
  <2> QED
    BY <1>2, <2>1, <2>2, <2>3, <2>4, <2>5 DEF ThreadStep
<1>3. ASSUME NEW t \in Threads, NEW op \in {"connect", "submit", "update", "listen", "stop"},
             Call(t, op)
      PROVE  LoopConsistent'
  BY <1>3, CallBegins
<1>4. ASSUME ExecutorStep \/ LoopFails PROVE LoopConsistent'
  <2>1. CASE TakeTask
    <3>1. loop.task_queue \in Seq(Ids) /\ loop.task_queue # <<>>
      BY <2>1 DEF TakeTask, LoopConsistent, TypeOK, LoopType
    <3>2. Head(loop.task_queue) \in Ids
      BY <3>1, HeadTailProperties
    <3> QED
      BY <2>1, <3>2, TaskTaken
  <2>2. CASE \E id \in Ids : run_deferred_task(id)
    BY <2>2, TaskTaken
  <2>3. CASE run_task_queue \/ QueueEmpty \/ QueueLeft
    BY <2>3, QueueMoves
  <2>4. CASE Action \/ FinalizeTask
    BY <2>4, ActionRuns, TaskFinalized
  <2>5. CASE \/ vpn_event_loop_run \/ LoopExits \/ LoopFails \/ LoopReturned
             \/ ShutdownAfterFailure
    BY <2>5, ExecutorMoves
  <2> QED
    BY <1>4, <2>1, <2>2, <2>3, <2>4, <2>5 DEF ExecutorStep
<1>5. ASSUME ActionCalls PROVE LoopConsistent'
  BY <1>5, ActionAdds, ActionTakesBack DEF ActionCalls
<1> QED
  BY <1>1, <1>2, <1>3, <1>4, <1>5 DEF Next

\* The invariant implies that every task is finalized exactly once and that no wake-up is lost.
LEMMA ConsistentServes ==
  ASSUME LoopConsistent
  PROVE  TasksServed
<1>1. \A id \in Ids : log[id].finals = IF log[id].place = "finalized" THEN 1 ELSE 0
  BY DEF LoopConsistent, Logged
<1>2. ASSUME executor.pc = "action" PROVE log[executor.task].place = "taken"
  <2>1. executor.task \in Ids
    BY <1>2 DEF LoopConsistent, TypeOK, ExecutorType, MaybeId, Phases
  <2>2. ExecutorHas(executor.task)
    BY <1>2 DEF ExecutorHas
  <2> QED
    BY <2>1, <2>2 DEF LoopConsistent, Logged
<1>3. ASSUME loop.state = "nullptr", NEW id \in 0..g_next_task_id - 1
      PROVE  \/ log[id].place = "finalized"
             \/ \E t \in Threads : thread[t].at = "finalize" /\ thread[t].cancelled = id
  <2>1. id \in Ids /\ ~(id >= g_next_task_id)
    BY Constants DEF LoopConsistent, TypeOK, Ids
  <2>2. executor.pc = "none" /\ loop.task_queue = <<>> /\ loop.deferred_task_queue = {}
    BY <1>3 DEF LoopConsistent, Phases
  <2>3. ToSet(loop.task_queue) = {} /\ ~ExecutorHas(id)
    BY <2>2, EmptyQueue DEF ExecutorHas
  <2>4. log[id].place \notin {"none", "task_queue", "deferred_task_queue"}
    BY <2>1, <2>2, <2>3 DEF LoopConsistent, Logged
  <2>5. log[id].place = "taken" => ThreadHas(id)
    BY <2>1, <2>3 DEF LoopConsistent, Logged
  <2>6. log[id].place \in {"none", "task_queue", "deferred_task_queue", "taken", "finalized"}
    BY <2>1 DEF LoopConsistent, TypeOK, LogType
  <2> QED
    BY <2>4, <2>5, <2>6 DEF ThreadHas
<1>4. FinalizedOnce
  BY <1>1, <1>2, <1>3 DEF FinalizedOnce
<1>5. QueueServed
  BY DEF LoopConsistent, Scheduled, Answered, QueueServed
<1> QED
  BY <1>4, <1>5 DEF TasksServed

\* Every accepted task of vpn_event_loop_submit and vpn_event_loop_schedule is finalized exactly once
\* whatever takes it first, and while task_queue is not empty a callback of run_task_queue is on its way.
THEOREM LoopServes == Spec => []TasksServed
<1>1. Init => LoopConsistent
  BY LoopBegins
<1>2. LoopConsistent /\ [Next]_vars => LoopConsistent'
  BY LoopSteps
<1>3. LoopConsistent => TasksServed
  BY ConsistentServes
<1> QED
  BY <1>1, <1>2, <1>3, PTL DEF Spec

\* The tail of vpn_stop, which runs the state machine of the session, never overlaps with a task of
\* the loop or with the shutdown after a failure.
THEOREM SessionExclusive == Spec => []ManagerExclusive
<1>1. Init => LoopConsistent
  BY LoopBegins
<1>2. LoopConsistent /\ [Next]_vars => LoopConsistent'
  BY LoopSteps
<1>3. LoopConsistent => ManagerExclusive
  BY DEF LoopConsistent, Phases, ManagerExclusive
<1> QED
  BY <1>1, <1>2, <1>3, PTL DEF Spec

\* Submitted tasks begin in the order in which vpn_event_loop_submit numbered them.
THEOREM TasksInOrder == Spec => InSubmissionOrder
<1> DEFINE Ordered == TakeTask => \A id \in ToSet(loop.task_queue) : id >= executor'.task
<1>1. Init => LoopConsistent
  BY LoopBegins
<1>2. LoopConsistent /\ [Next]_vars => LoopConsistent'
  BY LoopSteps
<1>3. ASSUME LoopConsistent PROVE Ordered
  <2>1. SUFFICES ASSUME TakeTask, NEW id \in ToSet(loop.task_queue) PROVE id >= executor'.task
    OBVIOUS
  <2>2. loop.task_queue \in Seq(Ids) /\ Ascending(loop.task_queue) /\ loop.task_queue # <<>>
    BY <1>3, <2>1 DEF TakeTask, LoopConsistent, TypeOK, LoopType, Logged
  <2>3. Head(loop.task_queue) <= id /\ Head(loop.task_queue) \in Ids /\ id \in Ids
    BY <2>2, TailOfQueue, QueueSet
  <2>4. executor'.task = Head(loop.task_queue)
    BY <1>3, <2>1 DEF TakeTask, LoopConsistent, TypeOK, ExecutorType
  <2> QED
    BY <2>3, <2>4, Constants
<1>4. LoopConsistent => [Ordered]_vars
  BY <1>3
<1> QED
  BY <1>1, <1>2, <1>4, PTL DEF Spec, InSubmissionOrder

=============================================================================
