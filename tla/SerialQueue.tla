----------------------------- MODULE SerialQueue -----------------------------
(***************************************************************************)
(* What a strand promises: the tasks posted run in the order of posting,   *)
(* each of them once, and never two at a time, whichever threads run them. *)
(***************************************************************************)
EXTENDS Integers, Sequences

CONSTANTS Task, NoTask

VARIABLES
    pending,    \* the tasks posted and not yet started, in order
    running,    \* the task that runs, or NoTask
    finished    \* the tasks that ran, in order

vars == <<pending, running, finished>>

Init == pending = <<>> /\ running = NoTask /\ finished = <<>>

Post(task) ==
    /\ pending' = Append(pending, task)
    /\ UNCHANGED <<running, finished>>

Start ==
    /\ running = NoTask /\ pending # <<>>
    /\ running' = Head(pending)
    /\ pending' = Tail(pending)
    /\ UNCHANGED finished

Finish ==
    /\ running # NoTask
    /\ finished' = Append(finished, running)
    /\ running' = NoTask
    /\ UNCHANGED pending

Next == (\E task \in Task : Post(task)) \/ Start \/ Finish

Spec == Init /\ [][Next]_vars

=============================================================================
