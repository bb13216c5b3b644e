--------------------------- MODULE SerialExecutor ---------------------------
(***************************************************************************)
(* What an EventLoop promises to the threads that hand functors to it:     *)
(* every functor is executed at most once, by one thread, and the queued   *)
(* ones are executed in the order in which they were queued; while the     *)
(* executor has not stopped, the functor at the head is executed           *)
(* eventually.  Nothing is said about the eventfd, the mutex, the batches  *)
(* or the poller: they are how EventLoop.tla keeps this promise.           *)
(***************************************************************************)
EXTENDS Sequences

CONSTANT Functors      \* the functors that may be handed to the executor

VARIABLES
  unseen,              \* functors that are neither queued nor executed yet
  pending,             \* functors queued and not executed, oldest first
  done,                \* functors executed, in the order of execution
  stopped              \* the executor executes nothing more

vars == <<unseen, pending, done, stopped>>

Init ==
  /\ unseen = Functors
  /\ pending = <<>>
  /\ done = <<>>
  /\ stopped = FALSE

Submit(f) ==
  /\ f \in unseen
  /\ unseen' = unseen \ {f}
  /\ pending' = Append(pending, f)
  /\ UNCHANGED <<done, stopped>>

\* The executor's own thread executes a functor in place, ahead of the queue.
RunNow(f) ==
  /\ ~stopped
  /\ f \in unseen
  /\ unseen' = unseen \ {f}
  /\ done' = Append(done, f)
  /\ UNCHANGED <<pending, stopped>>

RunNext ==
  /\ ~stopped
  /\ pending # <<>>
  /\ done' = Append(done, Head(pending))
  /\ pending' = Tail(pending)
  /\ UNCHANGED <<unseen, stopped>>

Stop ==
  /\ ~stopped
  /\ stopped' = TRUE
  /\ UNCHANGED <<unseen, pending, done>>

Next ==
  \/ \E f \in Functors : Submit(f) \/ RunNow(f)
  \/ RunNext
  \/ Stop

SafeSpec == Init /\ [][Next]_vars

Spec == SafeSpec /\ WF_vars(RunNext)
=============================================================================
