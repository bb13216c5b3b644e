--------------------------- MODULE ThreadSafeQueue ---------------------------
(***************************************************************************)
(* ThreadSafeQueue (src/include/base/ThreadSafeQueue.ipp): a linked list   *)
(* with a lock for each end and one condition variable.  These are its     *)
(* operations; MysqlPool.tla is the program that uses them.                *)
(*                                                                         *)
(* What is done under TailMutex, by push and by tail(), is one step.       *)
(* HeadMutex_ is held over several: the predicate is tested, and then the  *)
(* thread pops or goes to sleep, which is when cond_.wait gives it up.     *)
(***************************************************************************)
EXTENDS Naturals, Sequences, FiniteSets

CONSTANTS
  Threads,
  Nobody            \* no thread holds the lock

ASSUME ThreadsAssumption == IsFiniteSet(Threads) /\ Nobody \notin Threads

VARIABLES
  queue,            \* data of the nodes from head_ up to tail_, which has none
  HeadMutex_,       \* the thread that holds it
  at,               \* per thread: how far its WaitPop has got
  missed            \* history: a notify_one came between a test and its sleep

queueVars == <<queue, HeadMutex_, at, missed>>

Asleep == {t \in Threads : at[t] = "asleep"}
GoTo(t, there) == at' = [at EXCEPT ![t] = there]

-----------------------------------------------------------------------------
(* WaitPop: WaitData, then PopHead.                                        *)

\* Also when cond_.wait returns.
Lock(t) ==
  /\ at[t] = "lock" /\ GoTo(t, "test")
  /\ HeadMutex_ = Nobody /\ HeadMutex_' = t
  /\ UNCHANGED <<queue, missed>>

\* Mutant: the lock is released after the test, so that another thread may
\* test as well.
TestUnlocking(t) ==
  /\ at[t] = "test" /\ GoTo(t, IF queue = <<>> THEN "tested" ELSE "pop")
  /\ HeadMutex_' = IF queue = <<>> THEN HeadMutex_ ELSE Nobody
  /\ UNCHANGED <<queue, missed>>

\* head_.get() != tail()
Test(t) ==
  /\ at[t] = "test" /\ GoTo(t, IF queue = <<>> THEN "tested" ELSE "pop")
  /\ UNCHANGED <<queue, HeadMutex_, missed>>

\* Mutant: the lock is kept while the thread sleeps.
SleepLocked(t) ==
  /\ at[t] = "tested" /\ GoTo(t, "asleep")
  /\ UNCHANGED <<queue, HeadMutex_, missed>>

Sleep(t) ==
  /\ at[t] = "tested" /\ GoTo(t, "asleep")
  /\ HeadMutex_' = Nobody
  /\ UNCHANGED <<queue, missed>>

WakeSpuriously(t) ==
  /\ at[t] = "asleep" /\ GoTo(t, "lock")
  /\ UNCHANGED <<queue, HeadMutex_, missed>>

\* WaitPop returns Head(queue).
PopHead(t) ==
  /\ at[t] = "pop" /\ GoTo(t, "out")
  /\ queue # <<>> /\ queue' = Tail(queue)
  /\ HeadMutex_' = Nobody
  /\ UNCHANGED missed

-----------------------------------------------------------------------------

\* Mutant: nobody is notified.
PushSilently(v) ==
  /\ queue' = Append(queue, v)
  /\ UNCHANGED <<HeadMutex_, at, missed>>

\* notify_one wakes any of the threads that are asleep by then.
push(v) ==
  /\ queue' = Append(queue, v)
  /\ IF Asleep = {}
     THEN missed' = (missed \/ \E t \in Threads : at[t] = "tested") /\ UNCHANGED at
     ELSE (\E t \in Asleep : GoTo(t, "lock")) /\ UNCHANGED missed
  /\ UNCHANGED HeadMutex_

NotifyAll ==
  /\ at' = [t \in Threads |-> IF t \in Asleep THEN "lock" ELSE at[t]]
  /\ UNCHANGED <<queue, HeadMutex_, missed>>
=============================================================================
