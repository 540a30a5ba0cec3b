---------------------------- MODULE StrandProofs ----------------------------
(***************************************************************************)
(* Theorems about Strand, for any number of threads and tasks.             *)
(*                                                                         *)
(* The order of tasks rests on who owns the strand: two owners at a time   *)
(* would take tasks from both ends of ready_queue_, and an owner that      *)
(* found tasks in ready_queue_ before it pushed its own would run them     *)
(* first.  IInv says that there is at most one owner, a thread or the      *)
(* invoker that waits, and what it finds where it stands.                  *)
(***************************************************************************)
EXTENDS Strand, FiniteSetTheorems, SequenceTheorems, TLAPS

\* Whoever owns the strand is alone, and a strand nobody owns is empty.
OwnerAlone ==
    /\ \A t, u \in Owners : t = u
    /\ scheduled = 1 => Owners = {}
    /\ locked_ <=> scheduled = 1 \/ Owners # {}
    /\ ~locked_ => ready_queue_ = <<>> /\ waiting_queue_ = <<>>

\* A task is in the hands of a thread that brings it, and then before all
\* others, or that runs it.
TasksInHand ==
    \A t \in Threads :
        /\ op[t] # 0 <=> pc[t] \in {"acquired", "handler"}
        /\ pc[t] = "acquired" => ready_queue_ = <<>>

IInv == TypeOK /\ OwnerAlone /\ TasksInHand

-----------------------------------------------------------------------------
(* Sequences.                                                              *)

LEMMA AppendToConcat ==
    ASSUME NEW S, NEW s \in Seq(S), NEW t \in Seq(S), NEW e \in S
    PROVE  s \o Append(t, e) = Append(s \o t, e)
<1>1. <<e>> \in Seq(S) /\ s \o t \in Seq(S)
    BY ConcatProperties
<1>2. s \o (t \o <<e>>) = (s \o t) \o <<e>>
    BY <1>1, ConcatAssociative
<1> QED
    BY <1>1, <1>2, AppendIsConcat

LEMMA HeadTailOfConcat ==
    ASSUME NEW S, NEW s \in Seq(S), NEW t \in Seq(S), s # <<>>
    PROVE  /\ s \o t # <<>>
           /\ Head(s \o t) = Head(s)
           /\ Tail(s \o t) = Tail(s) \o t
<1> DEFINE st == s \o t
<1>1. /\ st \in Seq(S) /\ Len(st) = Len(s) + Len(t)
      /\ \A i \in 1..(Len(s) + Len(t)) :
             st[i] = IF i <= Len(s) THEN s[i] ELSE t[i - Len(s)]
    BY ConcatProperties
<1>2. Len(s) \in Nat \ {0} /\ Len(t) \in Nat
    BY EmptySeq, LenProperties
<1>3. st # <<>>
    BY <1>1, <1>2, EmptySeq
<1> HIDE DEF st
<1>4. /\ Tail(st) \in Seq(S) /\ Len(Tail(st)) = Len(st) - 1
      /\ \A i \in 1..Len(Tail(st)) : Tail(st)[i] = st[i + 1]
      /\ Tail(s) \in Seq(S) /\ Len(Tail(s)) = Len(s) - 1
      /\ \A i \in 1..Len(Tail(s)) : Tail(s)[i] = s[i + 1]
    BY <1>1, <1>3, HeadTailProperties
<1>5. /\ Tail(s) \o t \in Seq(S)
      /\ Len(Tail(s) \o t) = Len(Tail(s)) + Len(t)
      /\ \A i \in 1..(Len(Tail(s)) + Len(t)) :
             (Tail(s) \o t)[i] = IF i <= Len(Tail(s)) THEN Tail(s)[i]
                                 ELSE t[i - Len(Tail(s))]
    BY <1>4, ConcatProperties
<1>6. Tail(st) = Tail(s) \o t
    <2>1. Len(Tail(st)) = Len(Tail(s) \o t)
        BY <1>1, <1>2, <1>4, <1>5
    <2>2. ASSUME NEW i \in 1..Len(Tail(st))
          PROVE  Tail(st)[i] = (Tail(s) \o t)[i]
        BY <1>1, <1>2, <1>4, <1>5
    <2> QED
        BY <1>4, <1>5, <2>1, <2>2, SeqEqual
<1>7. Head(st) = Head(s)
    <2>1. Head(st) = st[1] /\ Head(s) = s[1]
        BY <1>1
    <2> QED
        BY <1>1, <1>2, <2>1
<1> QED
    BY <1>3, <1>6, <1>7 DEF st

-----------------------------------------------------------------------------
(* The invariant, one lemma per action.                                    *)

\* What an owner knows.
LEMMA OwnerKnows ==
    ASSUME IInv, NEW t \in Threads, t \in Owners
    PROVE  /\ locked_ /\ scheduled = 0 /\ Owners = {t}
           /\ \A u \in Threads \ {t} : pc[u] \in {"idle", "dead"} /\ op[u] = 0
BY DEF IInv, TypeOK, OwnerAlone, TasksInHand, Owners

LEMMA EnqueueStep ==
    ASSUME IInv, NEW t \in Threads, Enqueue(t)
    PROVE  IInv'
<1>1. posted' \in Task /\ posted' # 0
    BY StrandAssumption DEF Enqueue, IInv, TypeOK, Task
<1>2. CASE locked_
    <2>1. /\ waiting_queue_' \in Seq(Task)
          /\ UNCHANGED <<locked_, ready_queue_, scheduled, pc, op, dying, ran>>
        <3>1. waiting_queue_ \in Seq(Task) /\ waiting_queue_' = Append(waiting_queue_, posted')
            BY <1>2 DEF Enqueue, ToWaiting, IInv, TypeOK
        <3>2. waiting_queue_' \in Seq(Task)
            BY <1>1, <3>1, AppendProperties
        <3> QED
            BY <1>2, <3>2 DEF Enqueue, ToWaiting
    <2> QED
        BY <1>1, <1>2, <2>1 DEF IInv, TypeOK, OwnerAlone, TasksInHand, Owners, Task
<1>3. CASE ~locked_
    <2>1. /\ scheduled = 0 /\ ready_queue_ = <<>>
          /\ \A u \in Threads : pc[u] \in {"idle", "dead"} /\ op[u] = 0
        BY <1>3 DEF IInv, TypeOK, OwnerAlone, TasksInHand, Owners
    <2>2. /\ locked_' = TRUE /\ posted' \in 1..MaxTasks
          /\ pc' = [pc EXCEPT ![t] = "acquired"]
          /\ op' = [op EXCEPT ![t] = posted']
          /\ UNCHANGED <<ready_queue_, waiting_queue_, scheduled, dying, ran>>
        BY <1>1, <1>3 DEF Enqueue, Acquire, Goto, Holds, Task
    <2>3. TypeOK'
        BY <2>2 DEF IInv, TypeOK
    <2>4. Owners' = {t}
        BY <2>1, <2>2 DEF IInv, TypeOK, Owners
    <2>5. OwnerAlone'
        BY <2>1, <2>2, <2>4 DEF OwnerAlone
    <2>6. TasksInHand'
        BY <2>1, <2>2 DEF IInv, TypeOK, TasksInHand
    <2> QED
        BY <2>3, <2>5, <2>6 DEF IInv
<1> QED
    BY <1>2, <1>3

LEMMA EnqueueFromHandlerStep ==
    ASSUME IInv, NEW t \in Threads, EnqueueFromHandler(t)
    PROVE  IInv'
<1>1. posted' \in Task
    BY StrandAssumption DEF EnqueueFromHandler, IInv, TypeOK, Task
<1> QED
    BY <1>1, AppendProperties
    DEF EnqueueFromHandler, ToWaiting, IInv, TypeOK, OwnerAlone, TasksInHand, Owners, Task

LEMMA PushReadyStep ==
    ASSUME IInv, NEW t \in Threads, PushReady(t)
    PROVE  IInv'
<1>1. op[t] \in Task
    BY StrandAssumption DEF PushReady, IInv, TypeOK, TasksInHand, Task
<1>2. /\ ready_queue_' \in Seq(Task)
      /\ pc' = [pc EXCEPT ![t] = "pushed"]
      /\ op' = [op EXCEPT ![t] = 0]
      /\ UNCHANGED <<locked_, waiting_queue_, scheduled, dying, posted, ran>>
    BY <1>1, AppendProperties DEF PushReady, Goto, Holds, IInv, TypeOK
<1>3. t \in Owners
    BY DEF PushReady, Owners
<1>4. TypeOK'
    BY <1>2, StrandAssumption DEF IInv, TypeOK
<1>5. Owners' = {t}
    BY <1>2, <1>3, OwnerKnows DEF IInv, TypeOK, Owners
<1>6. OwnerAlone'
    BY <1>2, <1>3, <1>5, OwnerKnows DEF OwnerAlone
<1>7. TasksInHand'
    BY <1>2, <1>3, OwnerKnows DEF IInv, TypeOK, TasksInHand
<1> QED
    BY <1>4, <1>6, <1>7 DEF IInv

\* An owner that goes on, or that passes the strand to the invoker and back.
LEMMA OwnerStep ==
    ASSUME IInv, NEW t \in Threads,
           Schedule(t) \/ InvokeAtOnce(t) \/ Invoke(t) \/ Reschedule(t)
    PROVE  IInv'
BY DEF Schedule, InvokeAtOnce, Invoke, Reschedule, Leave, Goto, queues,
       IInv, TypeOK, OwnerAlone, TasksInHand, Owners

LEMMA RunReadyStep ==
    ASSUME IInv, NEW t \in Threads, RunReady(t)
    PROVE  IInv'
<1>1. CASE ready_queue_ = <<>>
    BY <1>1 DEF RunReady, Goto, IInv, TypeOK, OwnerAlone, TasksInHand, Owners
<1>2. CASE ready_queue_ # <<>>
    <2>1. Head(ready_queue_) \in Task /\ Tail(ready_queue_) \in Seq(Task)
        BY <1>2, HeadTailProperties DEF IInv, TypeOK
    <2>2. /\ pc' = [pc EXCEPT ![t] = "handler"]
          /\ op' = [op EXCEPT ![t] = Head(ready_queue_)]
          /\ ready_queue_' \in Seq(Task)
          /\ Head(ready_queue_) \in 1..MaxTasks
          /\ UNCHANGED <<locked_, waiting_queue_, scheduled, dying, posted, ran>>
        BY <1>2, <2>1 DEF RunReady, Goto, Holds, Task
    <2>3. t \in Owners
        BY DEF RunReady, Owners
    <2>4. TypeOK'
        BY <2>2 DEF IInv, TypeOK
    <2>5. Owners' = {t}
        BY <2>2, <2>3, OwnerKnows DEF IInv, TypeOK, Owners
    <2>6. OwnerAlone'
        BY <2>2, <2>3, <2>5, OwnerKnows DEF OwnerAlone
    <2>7. TasksInHand'
        BY <2>2, <2>3, OwnerKnows DEF IInv, TypeOK, TasksInHand
    <2> QED
        BY <2>4, <2>6, <2>7 DEF IInv
<1> QED
    BY <1>1, <1>2

LEMMA EndHandlerStep ==
    ASSUME IInv, NEW t \in Threads, EndHandler(t)
    PROVE  IInv'
<1>1. op[t] \in Task
    BY StrandAssumption DEF EndHandler, IInv, TypeOK, TasksInHand, Task
<1>2. /\ \/ pc' = [pc EXCEPT ![t] = "invoker"]
         \/ pc' = [pc EXCEPT ![t] = "exiting"]
      /\ op' = [op EXCEPT ![t] = 0]
      /\ dying' \subseteq Threads
      /\ ran' \in Seq(Task)
      /\ UNCHANGED <<queues, scheduled, posted>>
    BY <1>1, AppendProperties DEF EndHandler, Goto, Holds, IInv, TypeOK
<1>3. t \in Owners
    BY DEF EndHandler, Owners
<1>4. TypeOK'
    <2>1. op' \in [Threads -> 0..MaxTasks]
        BY <1>2, StrandAssumption DEF IInv, TypeOK
    <2>2. pc' \in [Threads -> {"idle", "acquired", "pushed", "invoker", "handler",
                               "exiting", "leaving", "dead"}]
        BY <1>2 DEF IInv, TypeOK
    <2> QED
        BY <1>2, <2>1, <2>2 DEF IInv, TypeOK, queues
<1>5. Owners' = {t}
    BY <1>2, <1>3, OwnerKnows DEF IInv, TypeOK, Owners
<1>6. OwnerAlone'
    BY <1>2, <1>3, <1>5, OwnerKnows DEF OwnerAlone, queues
<1>7. TasksInHand'
    BY <1>2, <1>3, OwnerKnows DEF IInv, TypeOK, TasksInHand, queues
<1> QED
    BY <1>4, <1>6, <1>7 DEF IInv

LEMMA PushWaitingStep ==
    ASSUME IInv, NEW t \in Threads, PushWaitingToReady(t)
    PROVE  IInv'
<1>1. ready_queue_ \o waiting_queue_ \in Seq(Task)
    BY ConcatProperties DEF IInv, TypeOK
<1> QED
    BY <1>1
    DEF PushWaitingToReady, MoreHandlers, Leave, Goto,
        IInv, TypeOK, OwnerAlone, TasksInHand, Owners

LEMMA InitIInv == Init => IInv
<1> SUFFICES ASSUME Init
             PROVE  IInv
    OBVIOUS
<1>1. <<>> \in Seq(Task)
    BY EmptySeq
<1>2. TypeOK
    <2>1. 0 \in 0..MaxTasks /\ 0 \in 0..1
        BY StrandAssumption
    <2>2. op \in [Threads -> 0..MaxTasks] /\ posted \in 0..MaxTasks /\ scheduled \in 0..1
        BY <2>1 DEF Init
    <2>3. pc \in [Threads -> {"idle", "acquired", "pushed", "invoker", "handler",
                              "exiting", "leaving", "dead"}]
        BY DEF Init
    <2> QED
        BY <1>1, <2>2, <2>3 DEF Init, TypeOK
<1>3. OwnerAlone /\ TasksInHand
    BY DEF Init, OwnerAlone, TasksInHand, Owners
<1> QED
    BY <1>2, <1>3 DEF IInv

LEMMA NextIInv == IInv /\ [Next]_vars => IInv'
<1> SUFFICES ASSUME IInv, [Next]_vars
             PROVE  IInv'
    OBVIOUS
<1>1. CASE UNCHANGED vars
    BY <1>1 DEF vars, queues, IInv, TypeOK, OwnerAlone, TasksInHand, Owners
<1> QED
    BY <1>1, EnqueueStep, EnqueueFromHandlerStep, PushReadyStep, OwnerStep,
       RunReadyStep, EndHandlerStep, PushWaitingStep DEF Next, Proceed

\* IInv holds in every reachable state.
THEOREM StrandInvariance == Spec => []IInv
BY InitIInv, NextIInv, PTL DEF Spec

\* Every variable keeps its type.
THEOREM StrandTypeCorrect == Spec => []TypeOK
<1>1. IInv => TypeOK
    BY DEF IInv
<1> QED
    BY <1>1, StrandInvariance, PTL

\* A locked strand has exactly one owner, an unlocked one has nothing to do.
THEOREM AlwaysOneOwner == Spec => []OneOwner
<1>1. ASSUME IInv
      PROVE  OneOwner
    <2>1. CASE Owners = {}
        BY <1>1, <2>1, FS_EmptySet DEF IInv, TypeOK, OwnerAlone, OneOwner
    <2>2. CASE Owners # {}
        <3>1. PICK t \in Owners : Owners = {t}
            BY <1>1, <2>2 DEF IInv, OwnerAlone
        <3>2. Cardinality(Owners) = 1
            BY <3>1, FS_Singleton
        <3> QED
            BY <1>1, <2>2, <3>2 DEF IInv, TypeOK, OwnerAlone, OneOwner
    <2> QED
        BY <2>1, <2>2
<1> QED
    BY <1>1, StrandInvariance, PTL

-----------------------------------------------------------------------------
(* The strand implements SerialQueue.                                      *)

\* The state SerialQueue is instantiated with.
Pending == Held("acquired") \o ready_queue_ \o waiting_queue_
Running == IF Held("handler") = <<>> THEN 0 ELSE Head(Held("handler"))

\* Nobody is there, or one thread is.
LEMMA HeldByNone ==
    ASSUME NEW where, \A t \in Threads : pc[t] # where
    PROVE  Held(where) = <<>>
BY DEF Held

LEMMA HeldByOne ==
    ASSUME NEW where, NEW t \in Threads, pc[t] = where,
           \A u \in Threads : pc[u] = where => u = t
    PROVE  Held(where) = <<op[t]>>
<1>1. {u \in Threads : pc[u] = where} = {t}
    OBVIOUS
<1>2. \A u \in {t} : u = t
    OBVIOUS
<1>3. (CHOOSE u \in {t} : TRUE) = t
    BY <1>2
<1> QED
    BY <1>1, <1>3 DEF Held

\* What is held where, from the owner's place; nothing when there is no owner.
HeldByOwner ==
    IInv =>
        /\ \A t \in Owners :
               /\ Held("acquired") = IF pc[t] = "acquired" THEN <<op[t]>> ELSE <<>>
               /\ Held("handler") = IF pc[t] = "handler" THEN <<op[t]>> ELSE <<>>
        /\ Owners = {} => Held("acquired") = <<>> /\ Held("handler") = <<>>

LEMMA OnlyOwnersHold == HeldByOwner
<1> SUFFICES ASSUME IInv
             PROVE  /\ \A t \in Owners :
                           /\ Held("acquired") = IF pc[t] = "acquired" THEN <<op[t]>> ELSE <<>>
                           /\ Held("handler") = IF pc[t] = "handler" THEN <<op[t]>> ELSE <<>>
                    /\ Owners = {} => Held("acquired") = <<>> /\ Held("handler") = <<>>
    BY DEF HeldByOwner
<1>1. ASSUME NEW t \in Owners
      PROVE  /\ Held("acquired") = IF pc[t] = "acquired" THEN <<op[t]>> ELSE <<>>
             /\ Held("handler") = IF pc[t] = "handler" THEN <<op[t]>> ELSE <<>>
    <2>1. t \in Threads /\ \A u \in Threads \ {t} : pc[u] \in {"idle", "dead"}
        BY <1>1, OwnerKnows DEF Owners
    <2>2. CASE pc[t] = "acquired"
        BY <2>1, <2>2, HeldByOne, HeldByNone
    <2>3. CASE pc[t] = "handler"
        BY <2>1, <2>3, HeldByOne, HeldByNone
    <2>4. CASE pc[t] \notin {"acquired", "handler"}
        BY <2>1, <2>4, HeldByNone
    <2> QED
        BY <2>2, <2>3, <2>4
<1>2. ASSUME Owners = {}
      PROVE  Held("acquired") = <<>> /\ Held("handler") = <<>>
    BY <1>2, HeldByNone DEF Owners
<1> QED
    BY <1>1, <1>2

\* A task posted while the strand has an owner goes to the end of the line.
LEMMA WaitingMaps ==
    ASSUME IInv, NEW task \in Task, ToWaiting(task), UNCHANGED <<pc, op, ran>>
    PROVE  Serial!Post(task)
<1>1. Held("acquired")' = Held("acquired") /\ Held("handler")' = Held("handler")
    BY DEF Held
<1>2. Held("acquired") \in Seq(Task)
    <2>1. CASE Owners = {}
        BY <2>1, OnlyOwnersHold, EmptySeq DEF HeldByOwner
    <2>2. CASE Owners # {}
        <3>1. PICK t \in Owners : TRUE
            BY <2>2
        <3>2. /\ t \in Threads
              /\ Held("acquired") = IF pc[t] = "acquired" THEN <<op[t]>> ELSE <<>>
            BY <3>1, OnlyOwnersHold DEF HeldByOwner, Owners
        <3>3. pc[t] = "acquired" => op[t] \in Task
            BY <3>2, StrandAssumption DEF IInv, TypeOK, TasksInHand, Task
        <3>4. <<>> \in Seq(Task) /\ \A x \in Task : <<x>> \in Seq(Task)
            BY EmptySeq
        <3> QED
            BY <3>2, <3>3, <3>4
    <2> QED
        BY <2>1, <2>2
<1>3. /\ Held("acquired") \o ready_queue_ \in Seq(Task)
      /\ waiting_queue_ \in Seq(Task)
    BY <1>2, ConcatProperties DEF IInv, TypeOK
<1>4. Held("acquired") \o ready_queue_ \o Append(waiting_queue_, task) =
          Append(Held("acquired") \o ready_queue_ \o waiting_queue_, task)
    BY <1>3, AppendToConcat
<1> QED
    BY <1>1, <1>4 DEF ToWaiting, Serial!Post

\* Every step of the strand is one of SerialQueue, or changes nothing there.
LEMMA NextMaps ==
    ASSUME IInv, IInv', HeldByOwner, HeldByOwner', [Next]_vars
    PROVE  [Serial!Next]_(Serial!vars)
<1> USE DEF HeldByOwner
<1>0. /\ ready_queue_ \in Seq(Task) /\ waiting_queue_ \in Seq(Task)
      /\ <<>> \in Seq(Task) /\ \A task \in Task : <<task>> \in Seq(Task)
    BY EmptySeq DEF IInv, TypeOK
<1>1. ASSUME NEW t \in Threads, Enqueue(t)
      PROVE  \E task \in Task : Serial!Post(task)
    <2>1. posted' \in Task
        BY <1>1 DEF Enqueue, IInv, TypeOK, Task
    <2>2. CASE locked_
        <3>1. ToWaiting(posted') /\ UNCHANGED <<pc, op, ran>>
            BY <1>1, <2>2 DEF Enqueue
        <3> QED
            BY <2>1, <3>1, WaitingMaps
    <2>3. CASE ~locked_
        <3>1. Owners = {} /\ ready_queue_ = <<>> /\ waiting_queue_ = <<>>
            BY <2>3 DEF IInv, OwnerAlone
        <3>2. /\ pc' = [pc EXCEPT ![t] = "acquired"] /\ op' = [op EXCEPT ![t] = posted']
              /\ UNCHANGED <<ready_queue_, waiting_queue_, ran>>
            BY <1>1, <2>3 DEF Enqueue, Goto, Holds
        <3>3. t \in Owners' /\ pc'[t] = "acquired" /\ op'[t] = posted'
            BY <3>2 DEF IInv, TypeOK, Owners
        <3>4. /\ Held("acquired") = <<>> /\ Held("handler") = <<>>
              /\ Held("acquired")' = <<posted'>> /\ Held("handler")' = <<>>
            BY <3>1, <3>3
        <3>5. /\ <<>> \o <<>> \o <<>> = <<>>
              /\ <<posted'>> \o <<>> \o <<>> = Append(<<>>, posted')
            BY <1>0, <2>1, ConcatEmptySeq, AppendIsConcat
        <3>6. Serial!Post(posted')
            BY <3>1, <3>2, <3>4, <3>5 DEF Serial!Post
        <3> QED
            BY <2>1, <3>6
    <2> QED
        BY <2>2, <2>3
<1>2. ASSUME NEW t \in Threads, EnqueueFromHandler(t)
      PROVE  \E task \in Task : Serial!Post(task)
    <2>1. posted' \in Task
        BY <1>2 DEF EnqueueFromHandler, IInv, TypeOK, Task
    <2>2. ToWaiting(posted') /\ UNCHANGED <<pc, op, ran>>
        BY <1>2 DEF EnqueueFromHandler
    <2> QED
        BY <2>1, <2>2, WaitingMaps
<1>3. ASSUME NEW t \in Threads, PushReady(t)
      PROVE  UNCHANGED Serial!vars
    <2>1. /\ t \in Owners /\ pc[t] = "acquired" /\ ready_queue_ = <<>> /\ op[t] \in Task
        BY <1>3, StrandAssumption DEF PushReady, Owners, IInv, TypeOK, TasksInHand, Task
    <2>2. t \in Owners' /\ pc'[t] = "pushed"
        BY <1>3 DEF PushReady, Goto, Owners, IInv, TypeOK
    <2>3. /\ Held("acquired") = <<op[t]>> /\ Held("handler") = <<>>
          /\ Held("acquired")' = <<>> /\ Held("handler")' = <<>>
        BY <2>1, <2>2
    <2>4. /\ ready_queue_' = Append(<<>>, op[t])
          /\ UNCHANGED <<waiting_queue_, ran>>
        BY <1>3, <2>1 DEF PushReady
    <2>5. /\ <<op[t]>> \o <<>> = <<op[t]>>
          /\ <<>> \o Append(<<>>, op[t]) = <<op[t]>>
        BY <1>0, <2>1, ConcatEmptySeq, AppendIsConcat
    <2> QED
        BY <2>1, <2>3, <2>4, <2>5 DEF Serial!vars
<1>4. ASSUME NEW t \in Threads,
             Schedule(t) \/ InvokeAtOnce(t) \/ Invoke(t) \/ Reschedule(t)
      PROVE  UNCHANGED Serial!vars
    <2>1. /\ Held("acquired") = <<>> /\ Held("handler") = <<>>
          /\ Held("acquired")' = <<>> /\ Held("handler")' = <<>>
        <3>1. \A u \in Owners : pc[u] \notin {"acquired", "handler"}
            <4>1. CASE Invoke(t)
                BY <4>1 DEF Invoke, IInv, TypeOK, OwnerAlone
            <4>2. CASE ~Invoke(t)
                <5>1. t \in Owners /\ pc[t] \in {"pushed", "leaving"}
                    BY <1>4, <4>2 DEF Schedule, InvokeAtOnce, Reschedule, Owners
                <5> QED
                    BY <5>1, OwnerKnows
            <4> QED
                BY <4>1, <4>2
        <3>2. \A u \in Owners' : pc'[u] \notin {"acquired", "handler"}
            BY <1>4, <3>1
            DEF Schedule, InvokeAtOnce, Invoke, Reschedule, Leave, Goto, IInv, TypeOK, Owners
        <3>3. Owners = {} \/ \E u : u \in Owners
            OBVIOUS
        <3>4. Owners' = {} \/ \E u : u \in Owners'
            OBVIOUS
        <3> QED
            BY <3>1, <3>2, <3>3, <3>4
    <2> QED
        BY <1>4, <2>1 DEF Schedule, InvokeAtOnce, Invoke, Reschedule, queues, Serial!vars
<1>5. ASSUME NEW t \in Threads, RunReady(t)
      PROVE  Serial!Start \/ UNCHANGED Serial!vars
    <2>1. t \in Owners /\ pc[t] = "invoker"
        BY <1>5 DEF RunReady, Owners
    <2>2. Held("acquired") = <<>> /\ Held("handler") = <<>>
        BY <2>1
    <2>3. CASE ready_queue_ = <<>>
        <3>1. t \in Owners' /\ pc'[t] = "exiting"
            BY <1>5, <2>3 DEF RunReady, Goto, Owners, IInv, TypeOK
        <3>2. Held("acquired")' = <<>> /\ Held("handler")' = <<>>
            BY <3>1
        <3> QED
            BY <1>5, <2>2, <2>3, <3>2 DEF RunReady, Serial!vars
    <2>4. CASE ready_queue_ # <<>>
        <3>1. /\ t \in Owners' /\ pc'[t] = "handler" /\ op'[t] = Head(ready_queue_)
              /\ ready_queue_' = Tail(ready_queue_)
              /\ UNCHANGED <<waiting_queue_, ran>>
            BY <1>5, <2>4 DEF RunReady, Goto, Holds, Owners, IInv, TypeOK
        <3>2. Held("acquired")' = <<>> /\ Held("handler")' = <<Head(ready_queue_)>>
            BY <3>1
        <3>3. Tail(ready_queue_) \in Seq(Task)
            BY <1>0, <2>4, HeadTailProperties
        <3>4. /\ <<>> \o ready_queue_ = ready_queue_
              /\ <<>> \o Tail(ready_queue_) = Tail(ready_queue_)
            BY <1>0, <3>3, ConcatEmptySeq
        <3>5. /\ ready_queue_ \o waiting_queue_ # <<>>
              /\ Head(ready_queue_ \o waiting_queue_) = Head(ready_queue_)
              /\ Tail(ready_queue_ \o waiting_queue_) = Tail(ready_queue_) \o waiting_queue_
            BY <1>0, <2>4, HeadTailOfConcat
        <3>6. /\ Pending = ready_queue_ \o waiting_queue_
              /\ Pending' = Tail(ready_queue_) \o waiting_queue_
            BY <2>2, <3>1, <3>2, <3>4 DEF Pending
        <3>7. Running = 0 /\ Running' = Head(ready_queue_)
            <4>1. <<Head(ready_queue_)>> # <<>>
                  /\ Head(<<Head(ready_queue_)>>) = Head(ready_queue_)
                OBVIOUS
            <4> QED
                BY <2>2, <3>2, <4>1 DEF Running
        <3> QED
            BY <3>1, <3>5, <3>6, <3>7 DEF Serial!Start, Pending, Running
    <2> QED
        BY <2>3, <2>4
<1>6. ASSUME NEW t \in Threads, EndHandler(t)
      PROVE  Serial!Finish
    <2>1. t \in Owners /\ pc[t] = "handler" /\ op[t] # 0
        BY <1>6 DEF EndHandler, Owners, IInv, TasksInHand
    <2>2. /\ t \in Owners' /\ pc'[t] \in {"invoker", "exiting"}
          /\ ran' = Append(ran, op[t])
          /\ UNCHANGED <<ready_queue_, waiting_queue_>>
        BY <1>6 DEF EndHandler, Goto, queues, Owners, IInv, TypeOK
    <2>3. /\ Held("acquired") = <<>> /\ Held("handler") = <<op[t]>>
          /\ Held("acquired")' = <<>> /\ Held("handler")' = <<>>
        BY <2>1, <2>2
    <2>4. Running = op[t] /\ Running' = 0 /\ Pending' = Pending
        BY <2>2, <2>3 DEF Running, Pending
    <2> QED
        BY <2>1, <2>2, <2>4 DEF Serial!Finish, Running, Pending
<1>7. ASSUME NEW t \in Threads, PushWaitingToReady(t)
      PROVE  UNCHANGED Serial!vars
    <2>1. t \in Owners /\ pc[t] = "exiting"
        BY <1>7 DEF PushWaitingToReady, Owners
    <2>2. \A u \in Owners' : u = t /\ pc'[u] = "leaving"
        BY <1>7, <2>1, OwnerKnows
        DEF PushWaitingToReady, Leave, Goto, Owners, IInv, TypeOK
    <2>3. Owners' = {} \/ \E u : u \in Owners'
        OBVIOUS
    <2>4. /\ Held("acquired") = <<>> /\ Held("handler") = <<>>
          /\ Held("acquired")' = <<>> /\ Held("handler")' = <<>>
        BY <2>1, <2>2, <2>3
    <2>5. ready_queue_ \o waiting_queue_ \in Seq(Task)
        BY <1>0, ConcatProperties
    <2>6. /\ <<>> \o ready_queue_ = ready_queue_
          /\ <<>> \o (ready_queue_ \o waiting_queue_) \o <<>> =
                 ready_queue_ \o waiting_queue_
        BY <1>0, <2>5, ConcatEmptySeq
    <2>7. /\ ready_queue_' = ready_queue_ \o waiting_queue_
          /\ waiting_queue_' = <<>>
          /\ UNCHANGED ran
        BY <1>7 DEF PushWaitingToReady
    <2> QED
        BY <2>4, <2>6, <2>7 DEF Serial!vars
<1>8. CASE UNCHANGED vars
    BY <1>8 DEF vars, queues, Serial!vars, Held
<1> QED
    BY <1>1, <1>2, <1>3, <1>4, <1>5, <1>6, <1>7, <1>8 DEF Next, Proceed, Serial!Next

LEMMA InitMaps == Init => Serial!Init
<1> SUFFICES ASSUME Init
             PROVE  Serial!Init
    OBVIOUS
<1>1. Owners = {} /\ IInv
    BY InitIInv DEF Init, Owners
<1>2. Held("acquired") = <<>> /\ Held("handler") = <<>>
    BY <1>1, OnlyOwnersHold DEF HeldByOwner
<1>3. <<>> \o <<>> \o <<>> = <<>>
    BY EmptySeq, ConcatEmptySeq
<1> QED
    BY <1>2, <1>3 DEF Init, Serial!Init

\* Tasks run in the order in which they were posted, one at a time, each once,
\* whatever the threads do.
THEOREM StrandIsSerial == Spec => RunsInOrder
BY InitMaps, NextMaps, StrandInvariance, OnlyOwnersHold, PTL
DEF Spec, RunsInOrder, Serial!Spec

=============================================================================
