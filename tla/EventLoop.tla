------------------------------ MODULE EventLoop -------------------------------
(***************************************************************************)
(* The event loop of common/src/event_loop.cpp with the threads that use   *)
(* it: the executor thread that runs it, and the threads of the            *)
(* application that call the API of core/src/vpn_manager.cpp under         *)
(* stop_guard, any of which may stop the session.                          *)
(*                                                                         *)
(* What VpnManager takes as one queue of tasks is here what it is: lists   *)
(* behind a mutex, a flag that says whether a callback to serve the list   *)
(* is on its way, and a callback that is given to libevent only after the  *)
(* mutex was released.  A section under the mutex `guard` is one step.     *)
(***************************************************************************)
EXTENDS Integers, Sequences, FiniteSets, SequencesExt

CONSTANTS
  Threads,        \* threads of the application
  MaxId,          \* bound: task identifiers handed out
  Budget,         \* TASK_QUEUE_BUDGET
  LoopMayFail     \* whether event_base_loop may return -1

ASSUME EventLoopAssumption ==
  /\ MaxId \in Nat /\ Budget \in Nat \ {0} /\ LoopMayFail \in BOOLEAN
  /\ IsFiniteSet(Threads) /\ "nobody" \notin Threads

VARIABLES
  loop,                     \* struct VpnEventLoop, or NullLoop
  executor,                 \* the thread of Vpn::run_event_loop
  thread,                   \* where each thread of the application is
  stop_guard,               \* owner of Vpn::stop_guard, or Nobody
  update_exclusions_task,   \* the member of Vpn: a task, or -1
  g_next_task_id,
  log                       \* what became of each task (history)

vars == <<loop, executor, thread, stop_guard, update_exclusions_task, g_next_task_id, log>>

Nobody == "nobody"
Ids == 0..MaxId - 1
MaybeId == Ids \cup {-1}

EventLoopStates == {"ELS_STOPPED", "ELS_RUNNING", "ELS_BASE_EXITED", "nullptr"}

(***************************************************************************)
(* callbacks counts the run_task_queue callbacks libevent was given and    *)
(* has not called yet; exit is the pending event of event_base_loopexit.   *)
(***************************************************************************)
LoopType ==
  [state : EventLoopStates, task_queue : Seq(Ids), deferred_task_queue : SUBSET Ids,
   task_queue_scheduled : BOOLEAN, stopping_externally : BOOLEAN,
   callbacks : Nat, exit : BOOLEAN]

vpn_event_loop_create ==
  [state |-> "ELS_STOPPED", task_queue |-> <<>>, deferred_task_queue |-> {},
   task_queue_scheduled |-> FALSE, stopping_externally |-> FALSE,
   callbacks |-> 0, exit |-> FALSE]

NullLoop == [vpn_event_loop_create EXCEPT !.state = "nullptr"]

(***************************************************************************)
(* The executor: "none" (no thread), "begin", "poll" (in event_base_loop), *)
(* "queue" (at the top of the for loop of run_task_queue), "action" and    *)
(* "finalize" (in the callbacks of task), "returned" (event_base_loop has  *)
(* returned), "failing" (in shutdown_cb after a failure), "ended" (not     *)
(* joined yet).  last and i are task_queue_last_id and i of                *)
(* run_task_queue; back is where to go on after a task.                    *)
(***************************************************************************)
ExecutorType ==
  [pc : {"none", "begin", "poll", "queue", "action", "finalize", "returned", "failing", "ended"},
   task : MaybeId, last : MaybeId, i : 0..Budget, back : {"queue", "poll"}, failed : BOOLEAN]

NoExecutor ==
  [pc |-> "none", task |-> -1, last |-> -1, i |-> 0, back |-> "poll", failed |-> FALSE]

(***************************************************************************)
(* A thread of the application: the call it is in, the step it is at and   *)
(* the one after event_base_once, the task it submitted and the task it    *)
(* took out of the lists to cancel it.                                     *)
(***************************************************************************)
Steps ==
  {"idle", "lock", "body", "dispatch", "arm", "wait", "post", "assign", "finalize", "return",
   "exit", "stopping", "waiting", "join", "reset"}

ThreadType ==
  [op : {"none", "connect", "submit", "update", "listen", "stop"},
   at : Steps, next : Steps, task : MaybeId, cancelled : MaybeId]

NoCall == [op |-> "none", at |-> "idle", next |-> "idle", task |-> -1, cancelled |-> -1]

\* kind is "call" for a task of Vpn::submit or dispatch_sync, whose number is dropped,
\* "update" for one of vpn_update_exclusions, "own" for one created by an action.
LogType ==
  [place : {"none", "task_queue", "deferred_task_queue", "taken", "finalized"},
   kind : {"call", "update", "own"}, ran : BOOLEAN, finals : 0..2]

TypeOK ==
  /\ loop \in LoopType
  /\ executor \in ExecutorType
  /\ thread \in [Threads -> ThreadType]
  /\ stop_guard \in Threads \cup {Nobody}
  /\ update_exclusions_task \in MaybeId
  /\ g_next_task_id \in 0..MaxId
  /\ log \in [Ids -> LogType]

Init ==
  /\ loop = vpn_event_loop_create
  /\ executor = NoExecutor
  /\ thread = [t \in Threads |-> NoCall]
  /\ stop_guard = Nobody
  /\ update_exclusions_task = -1
  /\ g_next_task_id = 0
  /\ log = [id \in Ids |-> [place |-> "none", kind |-> "call", ran |-> FALSE, finals |-> 0]]

\* The finalizers of tasks; the one of dispatch_sync wakes its caller.
finalized(l, ids) ==
  [id \in Ids |-> IF id \in ids
                  THEN [l[id] EXCEPT !.place = "finalized", !.finals = IF @ < 2 THEN @ + 1 ELSE 2]
                  ELSE l[id]]

\* Identifiers kept for calls that have begun, so that the bound never stops one halfway.
Reserved == 2 * Cardinality({t \in Threads : thread[t].op # "none"})

-----------------------------------------------------------------------------
(* The operations of the loop.                                             *)

(***************************************************************************)
(* vpn_event_loop_submit up to the release of guard.  Only in              *)
(* ELS_BASE_EXITED a task is refused, and then finalized at once.          *)
(***************************************************************************)
vpn_event_loop_submit(kind) ==
  LET id == g_next_task_id
      refused == loop.state = "ELS_BASE_EXITED"
  IN /\ g_next_task_id' = id + 1
     /\ loop' = IF refused THEN loop
                ELSE [loop EXCEPT !.task_queue = Append(@, id), !.task_queue_scheduled = TRUE]
     /\ log' = LET l == [log EXCEPT ![id].kind = kind]
               IN IF refused THEN finalized(l, {id}) ELSE [l EXCEPT ![id].place = "task_queue"]

\* Whether submit goes on to event_base_once.
must_arm == loop.state # "ELS_BASE_EXITED" /\ ~loop.task_queue_scheduled

\* vpn_event_loop_schedule: the timer is added under guard.
vpn_event_loop_schedule ==
  LET id == g_next_task_id
      refused == loop.state = "ELS_BASE_EXITED"
  IN /\ g_next_task_id' = id + 1
     /\ loop' = IF refused THEN loop ELSE [loop EXCEPT !.deferred_task_queue = @ \cup {id}]
     /\ log' = LET l == [log EXCEPT ![id].kind = "own"]
               IN IF refused THEN finalized(l, {id})
                  ELSE [l EXCEPT ![id].place = "deferred_task_queue"]

InLists(id) == id \in ToSet(loop.task_queue) \cup loop.deferred_task_queue

without(l, id) ==
  [l EXCEPT !.task_queue = RemoveFirst(@, id), !.deferred_task_queue = @ \ {id}]

-----------------------------------------------------------------------------
(* Calls of the application.  Each takes stop_guard first and releases it  *)
(* when it returns.                                                        *)

Call(t, op) ==
  /\ thread[t] = NoCall
  /\ g_next_task_id + Reserved + 2 <= MaxId
  /\ thread' = [thread EXCEPT ![t] = [NoCall EXCEPT !.op = op, !.at = "lock"]]
  /\ UNCHANGED <<loop, executor, stop_guard, update_exclusions_task, g_next_task_id, log>>

Lock(t) ==
  /\ thread[t].at = "lock" /\ stop_guard = Nobody
  /\ stop_guard' = t
  /\ thread' = [thread EXCEPT ![t].at = "body"]
  /\ UNCHANGED <<loop, executor, update_exclusions_task, g_next_task_id, log>>

at(t, step) == thread' = [thread EXCEPT ![t].at = step]

submitted(t, next) ==
  thread' = [thread EXCEPT ![t].task = g_next_task_id, ![t].next = next,
                           ![t].at = IF must_arm THEN "arm" ELSE next]

(***************************************************************************)
(* vpn_connect and run_event_loop: refused while the executor is joinable; *)
(* otherwise the loop is created if there is none, its thread started, and *)
(* the call waits until the loop answers.                                  *)
(***************************************************************************)
ConnectRefused(t) ==
  /\ thread[t].op = "connect" /\ thread[t].at = "body" /\ executor.pc # "none"
  /\ at(t, "return")
  /\ UNCHANGED <<loop, executor, stop_guard, update_exclusions_task, g_next_task_id, log>>

run_event_loop(t) ==
  /\ thread[t].op = "connect" /\ thread[t].at = "body" /\ executor.pc = "none"
  /\ executor' = [NoExecutor EXCEPT !.pc = "begin"]
  /\ loop' = IF loop.state = "nullptr" THEN vpn_event_loop_create ELSE loop
  /\ at(t, "dispatch")
  /\ UNCHANGED <<stop_guard, update_exclusions_task, g_next_task_id, log>>

\* vpn_event_loop_dispatch_sync of run_event_loop and of vpn_listen.
DispatchSync(t) ==
  /\ \/ thread[t].at = "dispatch"
     \/ thread[t].op = "listen" /\ thread[t].at = "body" /\ executor.pc # "none"
  /\ vpn_event_loop_submit("call")
  /\ submitted(t, "wait")
  /\ UNCHANGED <<executor, stop_guard, update_exclusions_task>>

ListenRefused(t) ==
  /\ thread[t].op = "listen" /\ thread[t].at = "body" /\ executor.pc = "none"
  /\ at(t, "return")
  /\ UNCHANGED <<loop, executor, stop_guard, update_exclusions_task, g_next_task_id, log>>

(***************************************************************************)
(* The wait of dispatch_sync ends when its task is finalized.  vpn_listen  *)
(* returns then; vpn_connect goes on to submit its task if the loop ran    *)
(* the first one and stops the loop if it did not.                         *)
(***************************************************************************)
Dispatched(t) ==
  /\ thread[t].at = "wait" /\ log[thread[t].task].place = "finalized"
  /\ at(t, IF thread[t].op = "listen" THEN "return"
           ELSE IF log[thread[t].task].ran THEN "post" ELSE "exit")
  /\ UNCHANGED <<loop, executor, stop_guard, update_exclusions_task, g_next_task_id, log>>

\* The task of a call that does not wait: vpn_connect, and the calls that only submit.
Submit(t) ==
  /\ \/ thread[t].at = "post"
     \/ thread[t].op = "submit" /\ thread[t].at = "body" /\ loop.state # "nullptr"
  /\ vpn_event_loop_submit("call")
  /\ submitted(t, "return")
  /\ UNCHANGED <<executor, stop_guard, update_exclusions_task>>

\* vpn_event_loop_is_active
Active == loop.state = "ELS_RUNNING" /\ ~loop.exit

\* A call on a loop that is not there, or not active where the call asks for that. (vpn_force_reconnect,
\* vpn_force_disconnect and vpn_abandon_endpoint do not ask: a caller must not use them after vpn_stop.)
NotActive(t) ==
  /\ thread[t].at = "body"
  /\ \/ thread[t].op = "submit" /\ loop.state = "nullptr"
     \/ thread[t].op = "update" /\ ~Active
  /\ at(t, "return")
  /\ UNCHANGED <<loop, executor, stop_guard, update_exclusions_task, g_next_task_id, log>>

\* vpn_update_exclusions
UpdateExclusions(t) ==
  /\ thread[t].op = "update" /\ thread[t].at = "body" /\ Active
  /\ vpn_event_loop_submit("update")
  /\ submitted(t, "assign")
  /\ UNCHANGED <<executor, stop_guard, update_exclusions_task>>

\* event_base_once at the end of vpn_event_loop_submit, after guard was released.
Arm(t) ==
  /\ thread[t].at = "arm"
  /\ loop' = [loop EXCEPT !.callbacks = @ + 1]
  /\ at(t, thread[t].next)
  /\ UNCHANGED <<executor, stop_guard, update_exclusions_task, g_next_task_id, log>>

(***************************************************************************)
(* The assignment to update_exclusions_task: the task it held before is    *)
(* cancelled, that is taken out of the list under guard and finalized      *)
(* after its release.  The loop may have run the new task already, and     *)
(* have released the member, before the assignment.                        *)
(***************************************************************************)
Assign(t) ==
  /\ thread[t].at = "assign"
  /\ LET old == update_exclusions_task
         found == old # -1 /\ InLists(old)
     IN /\ update_exclusions_task' =
             IF log[thread[t].task].place = "finalized" /\ ~log[thread[t].task].ran
             THEN -1 ELSE thread[t].task
        /\ loop' = IF found THEN without(loop, old) ELSE loop
        /\ log' = IF found THEN [log EXCEPT ![old].place = "taken"] ELSE log
        /\ thread' = [thread EXCEPT ![t].cancelled = IF found THEN old ELSE -1,
                                    ![t].at = IF found THEN "finalize" ELSE "return"]
  /\ UNCHANGED <<executor, stop_guard, g_next_task_id>>

FinalizeCancelled(t) ==
  /\ thread[t].at = "finalize"
  /\ log' = finalized(log, {thread[t].cancelled})
  /\ at(t, "return")
  /\ UNCHANGED <<loop, executor, stop_guard, update_exclusions_task, g_next_task_id>>

Return(t) ==
  /\ thread[t].at = "return"
  /\ thread' = [thread EXCEPT ![t] = NoCall]
  /\ stop_guard' = Nobody
  /\ UNCHANGED <<loop, executor, update_exclusions_task, g_next_task_id, log>>

-----------------------------------------------------------------------------
(* vpn_stop, and the same steps where run_event_loop gives up.             *)

SubmitShutdown(t) ==
  /\ thread[t].op = "stop" /\ thread[t].at = "body" /\ loop.state # "nullptr"
  /\ vpn_event_loop_submit("call")
  /\ submitted(t, "exit")
  /\ UNCHANGED <<executor, stop_guard, update_exclusions_task>>

StopWithoutLoop(t) ==
  /\ thread[t].op = "stop" /\ thread[t].at = "body" /\ loop.state = "nullptr"
  /\ at(t, "join")
  /\ UNCHANGED <<loop, executor, stop_guard, update_exclusions_task, g_next_task_id, log>>

vpn_event_loop_exit(t) ==
  /\ thread[t].at = "exit"
  /\ loop' = [loop EXCEPT !.exit = TRUE]
  /\ at(t, "stopping")
  /\ UNCHANGED <<executor, stop_guard, update_exclusions_task, g_next_task_id, log>>

\* vpn_event_loop_finalize_exit before its wait ...
FinalizeExit(t) ==
  /\ thread[t].at = "stopping"
  /\ loop' = [loop EXCEPT !.stopping_externally = TRUE]
  /\ at(t, "waiting")
  /\ UNCHANGED <<executor, stop_guard, update_exclusions_task, g_next_task_id, log>>

\* ... and after it.
vpn_event_loop_finalize_exit(t) ==
  /\ thread[t].at = "waiting" /\ loop.state # "ELS_RUNNING"
  /\ log' = finalized(log, ToSet(loop.task_queue) \cup loop.deferred_task_queue)
  /\ loop' = [loop EXCEPT !.task_queue = <<>>, !.deferred_task_queue = {},
                          !.state = "ELS_STOPPED", !.stopping_externally = FALSE]
  /\ at(t, "join")
  /\ UNCHANGED <<executor, stop_guard, update_exclusions_task, g_next_task_id>>

\* Mutant: vpn_stop goes on without joining the thread.
Join_skipped(t) ==
  /\ thread[t].at = "join"
  /\ executor' = IF executor.pc = "ended" THEN NoExecutor ELSE executor
  /\ at(t, IF thread[t].op = "stop" THEN "reset" ELSE "return")
  /\ UNCHANGED <<loop, stop_guard, update_exclusions_task, g_next_task_id, log>>

Join(t) ==
  /\ thread[t].at = "join" /\ executor.pc \in {"none", "ended"}
  /\ executor' = NoExecutor
  /\ at(t, IF thread[t].op = "stop" THEN "reset" ELSE "return")
  /\ UNCHANGED <<loop, stop_guard, update_exclusions_task, g_next_task_id, log>>

\* The rest of vpn_stop: the session is reset and the loop destroyed.
Reset(t) ==
  /\ thread[t].at = "reset"
  /\ loop' = NullLoop
  /\ update_exclusions_task' = -1
  /\ at(t, "return")
  /\ UNCHANGED <<executor, stop_guard, g_next_task_id, log>>

-----------------------------------------------------------------------------
(* The executor thread.                                                    *)

\* The first section of vpn_event_loop_run.
vpn_event_loop_run ==
  /\ executor.pc = "begin"
  /\ loop' = [loop EXCEPT !.state = "ELS_RUNNING"]
  /\ executor' = [executor EXCEPT !.pc = "poll"]
  /\ UNCHANGED <<thread, stop_guard, update_exclusions_task, g_next_task_id, log>>

\* libevent calls run_task_queue, which notes the last task queued by then.
run_task_queue ==
  /\ executor.pc = "poll" /\ loop.callbacks > 0
  /\ loop' = [loop EXCEPT !.callbacks = @ - 1]
  /\ executor' = [executor EXCEPT
       !.pc = "queue", !.i = 0, !.back = "queue",
       !.last = IF loop.task_queue = <<>> THEN -1 ELSE Last(loop.task_queue)]
  /\ UNCHANGED <<thread, stop_guard, update_exclusions_task, g_next_task_id, log>>

\* The section at the top of its for loop: nothing left ...
QueueEmpty ==
  /\ executor.pc = "queue" /\ loop.task_queue = <<>>
  /\ loop' = [loop EXCEPT !.task_queue_scheduled = FALSE]
  /\ executor' = [executor EXCEPT !.pc = "poll"]
  /\ UNCHANGED <<thread, stop_guard, update_exclusions_task, g_next_task_id, log>>

\* Mutant: the rest is left without a callback.
QueueLeft_unscheduled ==
  /\ executor.pc = "queue" /\ loop.task_queue # <<>>
  /\ Head(loop.task_queue) > executor.last \/ executor.i = Budget
  /\ executor' = [executor EXCEPT !.pc = "poll"]
  /\ UNCHANGED <<loop, thread, stop_guard, update_exclusions_task, g_next_task_id, log>>

\* ... or the rest is left to another callback ...
QueueLeft ==
  /\ executor.pc = "queue" /\ loop.task_queue # <<>>
  /\ Head(loop.task_queue) > executor.last \/ executor.i = Budget
  /\ loop' = [loop EXCEPT !.callbacks = @ + 1]
  /\ executor' = [executor EXCEPT !.pc = "poll"]
  /\ UNCHANGED <<thread, stop_guard, update_exclusions_task, g_next_task_id, log>>

\* ... or the next task is taken.
TakeTask ==
  /\ executor.pc = "queue" /\ loop.task_queue # <<>>
  /\ Head(loop.task_queue) <= executor.last /\ executor.i # Budget
  /\ loop' = [loop EXCEPT !.task_queue = Tail(@)]
  /\ log' = [log EXCEPT ![Head(loop.task_queue)].place = "taken"]
  /\ executor' = [executor EXCEPT !.pc = "action", !.task = Head(loop.task_queue), !.i = @ + 1]
  /\ UNCHANGED <<thread, stop_guard, update_exclusions_task, g_next_task_id>>

\* run_deferred_task: a timer fires.
run_deferred_task(id) ==
  /\ executor.pc = "poll" /\ id \in loop.deferred_task_queue
  /\ loop' = [loop EXCEPT !.deferred_task_queue = @ \ {id}]
  /\ log' = [log EXCEPT ![id].place = "taken"]
  /\ executor' = [executor EXCEPT !.pc = "action", !.task = id, !.back = "poll"]
  /\ UNCHANGED <<thread, stop_guard, update_exclusions_task, g_next_task_id>>

(***************************************************************************)
(* The action of a task.  That of vpn_update_exclusions releases the       *)
(* member.  Any action may also submit or schedule tasks, and cancel those *)
(* an action created, whose number it keeps: on this thread nothing comes  *)
(* between submit and its event_base_once.                                 *)
(***************************************************************************)
Action ==
  /\ executor.pc = "action"
  /\ executor' = [executor EXCEPT !.pc = "finalize"]
  /\ update_exclusions_task' = IF log[executor.task].kind = "update" THEN -1 ELSE update_exclusions_task
  /\ log' = [log EXCEPT ![executor.task].ran = TRUE]
  /\ UNCHANGED <<loop, thread, stop_guard, g_next_task_id>>

ActionSubmits ==
  /\ executor.pc = "action" /\ g_next_task_id + Reserved < MaxId
  /\ g_next_task_id' = g_next_task_id + 1
  /\ loop' = [loop EXCEPT !.task_queue = Append(@, g_next_task_id), !.task_queue_scheduled = TRUE,
                          !.callbacks = IF loop.task_queue_scheduled THEN @ ELSE @ + 1]
  /\ log' = [log EXCEPT ![g_next_task_id].place = "task_queue", ![g_next_task_id].kind = "own"]
  /\ UNCHANGED <<executor, thread, stop_guard, update_exclusions_task>>

ActionSchedules ==
  /\ executor.pc = "action" /\ g_next_task_id + Reserved < MaxId
  /\ vpn_event_loop_schedule
  /\ UNCHANGED <<executor, thread, stop_guard, update_exclusions_task>>

ActionCancels(id) ==
  /\ executor.pc = "action" /\ InLists(id) /\ log[id].kind = "own"
  /\ loop' = without(loop, id)
  /\ log' = finalized(log, {id})
  /\ UNCHANGED <<executor, thread, stop_guard, update_exclusions_task, g_next_task_id>>

FinalizeTask ==
  /\ executor.pc = "finalize"
  /\ log' = finalized(log, {executor.task})
  /\ executor' = [executor EXCEPT !.pc = executor.back, !.task = -1]
  /\ UNCHANGED <<loop, thread, stop_guard, update_exclusions_task, g_next_task_id>>

\* event_base_loop returns: the exit event came, or it failed.
LoopExits ==
  /\ executor.pc = "poll" /\ loop.exit
  /\ loop' = [loop EXCEPT !.exit = FALSE]
  /\ executor' = [executor EXCEPT !.pc = "returned"]
  /\ UNCHANGED <<thread, stop_guard, update_exclusions_task, g_next_task_id, log>>

LoopFails ==
  /\ LoopMayFail /\ executor.pc = "poll"
  /\ executor' = [executor EXCEPT !.pc = "returned", !.failed = TRUE]
  /\ UNCHANGED <<loop, thread, stop_guard, update_exclusions_task, g_next_task_id, log>>

\* Mutant: the state is changed only when somebody is waiting for it by then.
LoopReturned_unless_unseen ==
  /\ executor.pc = "returned"
  /\ loop' = [loop EXCEPT !.state = IF loop.stopping_externally THEN "ELS_BASE_EXITED" ELSE @]
  /\ executor' = [executor EXCEPT !.pc = IF executor.failed THEN "failing" ELSE "ended"]
  /\ UNCHANGED <<thread, stop_guard, update_exclusions_task, g_next_task_id, log>>

\* The last section of vpn_event_loop_run.
LoopReturned ==
  /\ executor.pc = "returned"
  /\ loop' = [loop EXCEPT !.state =
                 IF loop.stopping_externally THEN "ELS_BASE_EXITED" ELSE "ELS_STOPPED"]
  /\ executor' = [executor EXCEPT !.pc = IF executor.failed THEN "failing" ELSE "ended"]
  /\ UNCHANGED <<thread, stop_guard, update_exclusions_task, g_next_task_id, log>>

\* shutdown_cb, called by the thread itself after a failure.
ShutdownAfterFailure ==
  /\ executor.pc = "failing"
  /\ executor' = [executor EXCEPT !.pc = "ended"]
  /\ UNCHANGED <<loop, thread, stop_guard, update_exclusions_task, g_next_task_id, log>>

-----------------------------------------------------------------------------

ThreadStep(t) ==
  \/ Lock(t) \/ ConnectRefused(t) \/ run_event_loop(t) \/ DispatchSync(t) \/ ListenRefused(t)
  \/ Dispatched(t) \/ Submit(t) \/ NotActive(t) \/ UpdateExclusions(t) \/ Arm(t) \/ Assign(t)
  \/ FinalizeCancelled(t) \/ Return(t) \/ SubmitShutdown(t) \/ StopWithoutLoop(t)
  \/ vpn_event_loop_exit(t) \/ FinalizeExit(t) \/ vpn_event_loop_finalize_exit(t)
  \/ Join(t) \/ Reset(t)

\* What the executor does by itself.
ExecutorStep ==
  \/ vpn_event_loop_run \/ run_task_queue \/ QueueEmpty \/ QueueLeft \/ TakeTask
  \/ \E id \in Ids : run_deferred_task(id)
  \/ Action \/ FinalizeTask \/ LoopExits \/ LoopReturned \/ ShutdownAfterFailure

ActionCalls == ActionSubmits \/ ActionSchedules \/ \E id \in Ids : ActionCancels(id)

Next ==
  \/ \E t \in Threads : ThreadStep(t)
  \/ \E t \in Threads, op \in {"connect", "submit", "update", "listen", "stop"} : Call(t, op)
  \/ ExecutorStep \/ ActionCalls \/ LoopFails

Spec == Init /\ [][Next]_vars

(***************************************************************************)
(* A thread that is in a call goes on, and one that waits for stop_guard   *)
(* gets it when it keeps becoming free; the executor goes on.              *)
(***************************************************************************)
FairSpec ==
  /\ Spec
  /\ \A t \in Threads : WF_vars(ThreadStep(t)) /\ SF_vars(Lock(t))
  /\ WF_vars(ExecutorStep)

-----------------------------------------------------------------------------
(* Properties.                                                             *)

(***************************************************************************)
(* A task is finalized exactly once, whoever gets to it first: the loop, a *)
(* cancel, a submit that is refused, or the end of the loop; and its       *)
(* action never runs after that.  The context of dispatch_sync is on the   *)
(* stack of a caller that has gone on by then.  Nothing is left            *)
(* unfinalized in a loop that is destroyed.                                *)
(***************************************************************************)
FinalizedOnce ==
  /\ \A id \in Ids : log[id].finals = IF log[id].place = "finalized" THEN 1 ELSE 0
  /\ executor.pc = "action" => log[executor.task].place = "taken"
  /\ loop.state = "nullptr" =>
       \A id \in 0..g_next_task_id - 1 :
         \/ log[id].place = "finalized"
         \/ \E t \in Threads : thread[t].at = "finalize" /\ thread[t].cancelled = id

(***************************************************************************)
(* No lost wake-up: when task_queue is not empty, a callback that serves   *)
(* it is pending, running, or about to be added by the thread that set     *)
(* task_queue_scheduled.                                                   *)
(***************************************************************************)
QueueServed ==
  loop.task_queue # <<>> =>
    \/ loop.callbacks > 0
    \/ executor.pc = "queue"
    \/ executor.pc \in {"action", "finalize"} /\ executor.back = "queue"
    \/ \E t \in Threads : thread[t].at = "arm"

\* Every accepted task is finalized exactly once, and while tasks wait somebody will serve them.
TasksServed == FinalizedOnce /\ QueueServed

(***************************************************************************)
(* The state machine of the session is not run by two threads at once: the *)
(* tail of vpn_stop resets it only when the executor is out of every task  *)
(* and of the shutdown after a failure.                                    *)
(***************************************************************************)
ManagerExclusive ==
  (\E t \in Threads : thread[t].at = "reset") =>
    executor.pc \notin {"action", "finalize", "failing"}

(***************************************************************************)
(* Submitted tasks begin in the order of their numbers, so that the last   *)
(* vpn_update_exclusions wins whichever of them are cancelled.             *)
(***************************************************************************)
InSubmissionOrder ==
  [][TakeTask => \A id \in ToSet(loop.task_queue) : id >= executor'.task]_vars

(***************************************************************************)
(* Every call returns, vpn_stop and the calls that wait for the loop among *)
(* them, unless the loop itself has failed.                                *)
(***************************************************************************)
CallsReturn ==
  \A t \in Threads : thread[t].op # "none" ~> thread[t].op = "none" \/ executor.failed

(***************************************************************************)
(* event_loop.h on vpn_event_loop_dispatch_sync: "it is always finalized". *)
(***************************************************************************)
DispatchAlwaysFinalized ==
  \A t \in Threads : thread[t].at = "wait" ~> thread[t].at # "wait"

=============================================================================
