-------------------------------- MODULE Strand --------------------------------
(***************************************************************************)
(* asio's strand_executor_service: how threads that run one io_context     *)
(* share a strand.  A lock, held for a few statements at a time, protects  *)
(* locked_ and waiting_queue_; whoever set locked_ owns the strand until   *)
(* it finds nothing left to do, and touches ready_queue_ without the lock. *)
(*                                                                         *)
(* The owner is a thread on its way, or an invoker in the queue of the     *)
(* io_context.  A thread whose handler throws leaves io_context::run.      *)
(* TcpConnection takes the queue that comes of this for granted.           *)
(***************************************************************************)
EXTENDS Integers, Sequences, FiniteSets

CONSTANTS Threads,      \* the threads in io_context::run; the server has one
          MaxTasks      \* bound: tasks posted in all

ASSUME StrandAssumption ==
    /\ IsFiniteSet(Threads)
    /\ MaxTasks \in Nat

VARIABLES
    locked_, ready_queue_, waiting_queue_,
    scheduled,      \* the invokers in the io_context's queue
    pc,             \* where each thread is
    op,             \* the task a thread brings to the strand or runs; else 0
    dying,          \* the threads that an exception is taking out of run
    posted,         \* history: how many tasks were posted; the n-th is task n
    ran             \* history: the tasks that ran, in order

queues == <<locked_, ready_queue_, waiting_queue_>>
vars == <<queues, scheduled, pc, op, dying, posted, ran>>

Task == 1..MaxTasks

\* "idle" is waiting for work in io_context::run; "acquired" and "pushed" are in
\* post, "invoker" to "leaving" in the invoker, "dead" after an exception.
TypeOK ==
    /\ locked_ \in BOOLEAN
    /\ ready_queue_ \in Seq(Task) /\ waiting_queue_ \in Seq(Task)
    /\ scheduled \in 0..1
    /\ pc \in [Threads -> {"idle", "acquired", "pushed", "invoker", "handler",
                           "exiting", "leaving", "dead"}]
    /\ op \in [Threads -> 0..MaxTasks]
    /\ dying \subseteq Threads
    /\ posted \in 0..MaxTasks
    /\ ran \in Seq(Task)

\* create_implementation.
Init ==
    /\ locked_ = FALSE
    /\ ready_queue_ = <<>>
    /\ waiting_queue_ = <<>>
    /\ scheduled = 0
    /\ pc = [t \in Threads |-> "idle"]
    /\ op = [t \in Threads |-> 0]
    /\ dying = {}
    /\ posted = 0
    /\ ran = <<>>

-----------------------------------------------------------------------------

Goto(t, to) == pc' = [pc EXCEPT ![t] = to]

Holds(t, task) == op' = [op EXCEPT ![t] = task]

ToReadyWhenLocked(task) ==
    /\ ready_queue_' = Append(ready_queue_, task)
    /\ UNCHANGED waiting_queue_

\* enqueue, when somebody owns the strand already.
ToWaiting(task) ==
    /\ waiting_queue_' = Append(waiting_queue_, task)
    /\ UNCHANGED ready_queue_

AcquireUnlocked == locked_' = FALSE

\* enqueue, when nobody does.
Acquire == locked_' = TRUE

\* The section of enqueue under the lock.
Enqueue(t) ==
    /\ pc[t] = "idle"
    /\ posted < MaxTasks
    /\ posted' = posted + 1
    /\ IF locked_
       THEN /\ ToWaiting(posted')
            /\ UNCHANGED <<locked_, pc, op>>
       ELSE /\ Acquire
            /\ Goto(t, "acquired")
            /\ Holds(t, posted')
            /\ UNCHANGED <<ready_queue_, waiting_queue_>>
    /\ UNCHANGED <<scheduled, dying, ran>>

\* A handler posts to its own strand, which is locked while it runs.
EnqueueFromHandler(t) ==
    /\ pc[t] = "handler"
    /\ posted < MaxTasks
    /\ posted' = posted + 1
    /\ locked_
    /\ ToWaiting(posted')
    /\ UNCHANGED <<locked_, scheduled, pc, op, dying, ran>>

\* The last statement of enqueue, without the lock.
PushReady(t) ==
    /\ pc[t] = "acquired"
    /\ ready_queue_' = Append(ready_queue_, op[t])
    /\ Holds(t, 0)
    /\ Goto(t, "pushed")
    /\ UNCHANGED <<locked_, waiting_queue_, scheduled, dying, posted, ran>>

\* post leaves an invoker with the io_context.
Schedule(t) ==
    /\ pc[t] = "pushed"
    /\ scheduled' = scheduled + 1
    /\ Goto(t, "idle")
    /\ UNCHANGED <<queues, op, dying, posted, ran>>

\* execute, which brings the handlers of operations that ended, runs it at once.
InvokeAtOnce(t) ==
    /\ pc[t] = "pushed"
    /\ Goto(t, "invoker")
    /\ UNCHANGED <<queues, scheduled, op, dying, posted, ran>>

\* do_run_one takes an invoker out of the io_context's queue.
Invoke(t) ==
    /\ pc[t] = "idle"
    /\ scheduled > 0
    /\ scheduled' = scheduled - 1
    /\ Goto(t, "invoker")
    /\ UNCHANGED <<queues, op, dying, posted, ran>>

\* The loop of run_ready_handlers.
RunReady(t) ==
    /\ pc[t] = "invoker"
    /\ IF ready_queue_ = <<>>
       THEN /\ Goto(t, "exiting")
            /\ UNCHANGED <<ready_queue_, op>>
       ELSE /\ Goto(t, "handler")
            /\ Holds(t, Head(ready_queue_))
            /\ ready_queue_' = Tail(ready_queue_)
    /\ UNCHANGED <<locked_, waiting_queue_, scheduled, dying, posted, ran>>

\* The handler returns, or it throws and the stack unwinds to ~on_invoker_exit.
EndHandler(t) ==
    /\ pc[t] = "handler"
    /\ ran' = Append(ran, op[t])
    /\ Holds(t, 0)
    /\ \/ Goto(t, "invoker") /\ UNCHANGED dying
       \/ Goto(t, "exiting") /\ dying' = dying \cup {t}
    /\ UNCHANGED <<queues, scheduled, posted>>

Leave(t) == Goto(t, IF t \in dying THEN "dead" ELSE "idle")

MoreWaited == waiting_queue_ # <<>>

\* What push_waiting_to_ready tests, after it emptied the waiting queue.
MoreHandlers == ready_queue_' # <<>>

\* push_waiting_to_ready, under the lock.
PushWaitingToReady(t) ==
    /\ pc[t] = "exiting"
    /\ ready_queue_' = ready_queue_ \o waiting_queue_
    /\ waiting_queue_' = <<>>
    /\ locked_' = MoreHandlers
    /\ IF locked_' THEN Goto(t, "leaving") ELSE Leave(t)
    /\ UNCHANGED <<scheduled, op, dying, posted, ran>>

\* The invoker hands itself to the io_context again.
Reschedule(t) ==
    /\ pc[t] = "leaving"
    /\ scheduled' = scheduled + 1
    /\ Leave(t)
    /\ UNCHANGED <<queues, op, dying, posted, ran>>

Proceed(t) ==
    \/ PushReady(t) \/ Schedule(t) \/ InvokeAtOnce(t) \/ Invoke(t)
    \/ RunReady(t) \/ EndHandler(t) \/ PushWaitingToReady(t) \/ Reschedule(t)

Next == \E t \in Threads : Enqueue(t) \/ EnqueueFromHandler(t) \/ Proceed(t)

Spec == Init /\ [][Next]_vars

\* Every thread goes on with what it is at, and handlers end.
FairSpec == Spec /\ \A t \in Threads : WF_vars(Proceed(t))

-----------------------------------------------------------------------------
(* Properties.                                                             *)

Owners ==
    {t \in Threads : pc[t] \in {"acquired", "pushed", "invoker", "handler",
                                "exiting", "leaving"}}

\* A locked strand has exactly one owner, one thread or the one invoker that
\* waits: so ready_queue_, which has no lock, is touched by one thread at a
\* time.  A strand that is not locked has nothing to do.
OneOwner ==
    /\ scheduled + Cardinality(Owners) = IF locked_ THEN 1 ELSE 0
    /\ ~locked_ => ready_queue_ = <<>> /\ waiting_queue_ = <<>>

\* The tasks held by the threads where.
Held(where) ==
    LET at == {t \in Threads : pc[t] = where}
    IN IF at = {} THEN <<>> ELSE <<op[CHOOSE t \in at : TRUE]>>

\* Tasks run in the order in which enqueue saw them, one at a time, each once:
\* although an owner pushes its task without the lock, after others may have put
\* theirs in the other queue, and although handlers throw.
Serial ==
    INSTANCE SerialQueue WITH
        NoTask <- 0,
        pending <- Held("acquired") \o ready_queue_ \o waiting_queue_,
        running <- IF Held("handler") = <<>> THEN 0 ELSE Head(Held("handler")),
        finished <- ran

RunsInOrder == Serial!Spec

\* Every task that is posted runs, unless exceptions have ended every thread: the
\* last one to leave the strand does not overlook a task that arrives meanwhile,
\* nor the tasks behind one that throws.
TasksRun ==
    \A n \in Task : posted >= n ~> Len(ran) >= n \/ dying = Threads

=============================================================================
