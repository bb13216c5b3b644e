--------------------------- MODULE EventLoopProofs ---------------------------
(***************************************************************************)
(* Proofs about EventLoop for any number of threads, functors and channels *)
(* and any range of the eventfd: the type invariant, the two wakeup        *)
(* invariants, and that the loop implements the safety part of the serial  *)
(* executor.                                                               *)
(***************************************************************************)
EXTENDS EventLoop, TLAPS, SequenceTheorems

-----------------------------------------------------------------------------
(* The inductive invariant.                                                *)

\* The mutex, the functor in the critical section and the callers' progress
\* belong together.
LockInv ==
  /\ \A t \in Callers : call[t] = "emplace" <=> mutex_ = t
  /\ arg = None <=> mutex_ = None
  /\ arg \notin fresh

\* Where the loop's thread can be inside a call, hold a batch, have callable_.
PlaceInv ==
  /\ callable_ <=> lpc \in {"swap", "batch", "callback"}
  /\ fun # <<>> => lpc \in {"batch", "callback"}
  /\ call[LoopThread] # "none" =>
        lpc \in {"handler", "callback"} \/ (OwnerQueuesEarly /\ lpc = "ctor")

\* A wakeup that counts as long as the loop's thread is in a functor: its own.
WakeupComingFromAnyone ==
  wakeupFd_ > 0 \/ \E t \in Callers : call[t] \in {"emplace", "wake"}

\* From the moment DoCallback has taken the batch until epoll_wait returns, a
\* queued functor has a wakeup.  Between, the loop looks at functors_ itself.
QueueInv ==
  /\ lpc \in {"ctor", "while", "poll"} /\ functors_ # <<>> => WakeupComing
  /\ lpc \in {"batch", "callback"} /\ functors_ # <<>> => WakeupComingFromAnyone

Inv == TypeOK /\ LockInv /\ PlaceInv /\ NoLostQuit

-----------------------------------------------------------------------------

\* The constructed loop has the right types.
LEMMA InitTypes == Init => TypeOK
<1> SUFFICES ASSUME Init PROVE TypeOK
  OBVIOUS
<1>1. /\ functors_ \in Seq(Functors) /\ fun \in Seq(Functors)
      /\ executed \in Seq(Functors)
  BY DEF Init
<1>2. call \in [Callers -> {"none", "emplace", "wake"}]
  BY DEF Init
<1>3. wakeupFd_ \in 0..EventfdMax
  BY ConstantsAssumption DEF Init
<1> QED
  BY <1>1, <1>2, <1>3 DEF Init, TypeOK, LoopLocations

\* Every step keeps the types; that a queued functor is one comes from the
\* lock, whose holder has set arg.
LEMMA NextTypes == TypeOK /\ LockInv /\ [Next]_vars => TypeOK'
<1> USE ConstantsAssumption DEF TypeOK, Callers
<1> SUFFICES ASSUME TypeOK, LockInv, [Next]_vars PROVE TypeOK'
  OBVIOUS
<1>1. CASE UNCHANGED vars
  BY <1>1 DEF vars, loopVars, queueVars
<1>2. ASSUME NEW t \in Callers, NEW f \in Functors, QueueInLoop(t, f)
      PROVE  TypeOK'
  BY <1>2 DEF QueueInLoop, loopVars
<1>3. ASSUME NEW t \in Callers, NEW f \in Functors, RunInLoop(t, f)
      PROVE  TypeOK'
  <2>1. CASE IsInLoopThread(t)
    <3>0. executed' = Append(executed, f)
      BY <1>3, <2>1 DEF RunInLoop
    <3>1. executed' \in Seq(Functors)
      BY <3>0, AppendProperties
    <3> QED BY <1>3, <2>1, <3>1 DEF RunInLoop, loopVars
  <2>2. CASE ~IsInLoopThread(t)
    BY <1>2, <1>3, <2>2 DEF RunInLoop
  <2> QED BY <2>1, <2>2
<1>4. ASSUME NEW t \in Callers, quit(t) PROVE TypeOK'
  BY <1>4 DEF quit, loopVars, queueVars
<1>5. ASSUME NEW t \in Callers, Emplace(t) PROVE TypeOK'
  <2>1. arg \in Functors
    BY <1>5 DEF Emplace, LockInv
  <2>2. functors_' \in Seq(Functors)
    BY <1>5, <2>1 DEF Emplace
  <2> QED BY <1>5, <2>2 DEF Emplace, loopVars
<1>6. ASSUME NEW t \in Callers, wakeup(t) PROVE TypeOK'
  BY <1>6 DEF wakeup, loopVars, queueVars
<1>7. CASE Start \/ While \/ HandlerReturns \/ CallbackReturns \/ BatchDone
  BY <1>7 DEF Start, While, HandlerReturns, CallbackReturns, BatchDone,
              LoopLocations, queueVars
<1>8. ASSUME NEW io \in SUBSET IoChannels, Poll(io) PROVE TypeOK'
  BY <1>8 DEF Poll, LoopLocations, queueVars
<1>9. CASE HandleRead
  BY <1>9 DEF HandleRead, queueVars
<1>10. ASSUME NEW c \in IoChannels, HandleEvent(c) PROVE TypeOK'
  BY <1>10 DEF HandleEvent, LoopLocations, queueVars
<1>11. CASE CheckFunctors
  BY <1>11 DEF CheckFunctors, LoopLocations, queueVars
<1>12. CASE Swap
  BY <1>12 DEF Swap, LoopLocations
<1>13. CASE Callback
  <2>1. executed' \in Seq(Functors) /\ fun' \in Seq(Functors)
    BY <1>13 DEF Callback
  <2> QED BY <1>13, <2>1 DEF Callback, LoopLocations, queueVars
<1> QED
  BY <1>1, <1>2, <1>3, <1>4, <1>5, <1>6, <1>7, <1>8, <1>9, <1>10, <1>11,
     <1>12, <1>13 DEF Next, CallerStep, FinishCall, LoopStep, IdlePoll

-----------------------------------------------------------------------------
(* The lock, the places of the loop's thread, and quit().                  *)

\* Every step keeps mutex_ with the thread, if any, that is in the critical
\* section of QueueInLoop.
LEMMA NextLock == TypeOK /\ LockInv /\ [Next]_vars => LockInv'
<1> USE ConstantsAssumption DEF TypeOK, Callers, LockInv
<1> SUFFICES ASSUME TypeOK, LockInv, [Next]_vars PROVE LockInv'
  OBVIOUS
<1>1. CASE UNCHANGED <<mutex_, arg, fresh, call>>
  BY <1>1
<1>2. ASSUME NEW t \in Callers, NEW f \in Functors, QueueInLoop(t, f)
      PROVE  LockInv'
  BY <1>2 DEF QueueInLoop, CanCall, OwnerBeforeStart
<1>3. ASSUME NEW t \in Callers, NEW f \in Functors, RunInLoop(t, f)
      PROVE  LockInv'
  BY <1>2, <1>3 DEF RunInLoop
<1>4. ASSUME NEW t \in Callers, quit(t) PROVE LockInv'
  BY <1>4 DEF quit, CanCall, queueVars
<1>5. ASSUME NEW t \in Callers, Emplace(t) PROVE LockInv'
  BY <1>5 DEF Emplace
<1>6. ASSUME NEW t \in Callers, wakeup(t) PROVE LockInv'
  BY <1>6 DEF wakeup, queueVars
<1>7. ASSUME LoopStep \/ IdlePoll PROVE LockInv'
  BY <1>1, <1>7 DEF LoopStep, IdlePoll, Start, While, Poll, HandleRead,
     HandleEvent, HandlerReturns, CheckFunctors, Swap, Callback,
     CallbackReturns, BatchDone, queueVars
<1> QED
  BY <1>1, <1>2, <1>3, <1>4, <1>5, <1>6, <1>7
  DEF Next, CallerStep, FinishCall, vars, queueVars

\* Every step keeps callable_, the batch and the calls of the loop's thread
\* to the places where they belong.
LEMMA NextPlace == TypeOK /\ PlaceInv /\ [Next]_vars => PlaceInv'
<1> USE ConstantsAssumption DEF TypeOK, Callers, PlaceInv
<1> SUFFICES ASSUME TypeOK, PlaceInv, [Next]_vars PROVE PlaceInv'
  OBVIOUS
<1>1. CASE UNCHANGED vars
  BY <1>1 DEF vars, loopVars
<1>2. ASSUME NEW t \in Callers, NEW f \in Functors, QueueInLoop(t, f)
      PROVE  PlaceInv'
  BY <1>2 DEF QueueInLoop, CanCall, OwnerBeforeStart, InUserCode,
              IsInLoopThread, loopVars
<1>3. ASSUME NEW t \in Callers, NEW f \in Functors, RunInLoop(t, f)
      PROVE  PlaceInv'
  BY <1>2, <1>3 DEF RunInLoop, loopVars
<1>4. ASSUME NEW t \in Callers, quit(t) PROVE PlaceInv'
  BY <1>4 DEF quit, CanCall, InUserCode, IsInLoopThread, loopVars
<1>5. ASSUME NEW t \in Callers, Emplace(t) \/ wakeup(t) PROVE PlaceInv'
  BY <1>5 DEF Emplace, wakeup, loopVars
<1>6. CASE Start \/ While \/ HandlerReturns \/ CallbackReturns \/ BatchDone
  BY <1>6 DEF Start, While, HandlerReturns, CallbackReturns, BatchDone
<1>7. ASSUME NEW io \in SUBSET IoChannels, Poll(io) PROVE PlaceInv'
  BY <1>7 DEF Poll
<1>8. ASSUME NEW c \in IoChannels, HandleEvent(c) PROVE PlaceInv'
  BY <1>8 DEF HandleEvent
<1>9. CASE HandleRead \/ CheckFunctors \/ Swap \/ Callback
  BY <1>9 DEF HandleRead, CheckFunctors, Swap, Callback
<1> QED
  BY <1>1, <1>2, <1>3, <1>4, <1>5, <1>6, <1>7, <1>8, <1>9
  DEF Next, CallerStep, FinishCall, LoopStep, IdlePoll

\* No step lets a loop sleep on a quit_ that is set.
LEMMA NextLostQuit ==
  TypeOK /\ NoLostQuit /\ [Next]_vars => NoLostQuit'
<1> USE ConstantsAssumption DEF TypeOK, Callers, NoLostQuit, WakeupComing
<1> SUFFICES ASSUME TypeOK, NoLostQuit, [Next]_vars PROVE NoLostQuit'
  OBVIOUS
<1>1. CASE UNCHANGED vars
  BY <1>1 DEF vars, loopVars
<1>2. ASSUME NEW t \in Callers, NEW f \in Functors, QueueInLoop(t, f)
      PROVE  NoLostQuit'
  BY <1>2 DEF QueueInLoop, CanCall, OwnerBeforeStart, loopVars
<1>3. ASSUME NEW t \in Callers, NEW f \in Functors, RunInLoop(t, f)
      PROVE  NoLostQuit'
  BY <1>2, <1>3 DEF RunInLoop, loopVars
<1>4. ASSUME NEW t \in Callers, quit(t) PROVE NoLostQuit'
  BY <1>4 DEF quit, CanCall, InUserCode, IsInLoopThread, loopVars
<1>5. ASSUME NEW t \in Callers, Emplace(t) PROVE NoLostQuit'
  <2>1. CASE t = LoopThread
    BY <1>5, <2>1 DEF Emplace, IsInLoopThread, loopVars
  <2>2. CASE t \in Threads
    BY <1>5, <2>2 DEF Emplace, IsInLoopThread, loopVars
  <2> QED BY <2>1, <2>2
<1>6. ASSUME NEW t \in Callers, wakeup(t) PROVE NoLostQuit'
  <2>1. wakeupFd_' > 0
    BY <1>6 DEF wakeup
  <2> QED BY <2>1
<1>7. ASSUME LoopStep \/ IdlePoll PROVE NoLostQuit'
  BY <1>7 DEF LoopStep, IdlePoll, Start, While, Poll, HandleRead,
     HandleEvent, HandlerReturns, CheckFunctors, Swap, Callback,
     CallbackReturns, BatchDone
<1> QED
  BY <1>1, <1>2, <1>3, <1>4, <1>5, <1>6, <1>7 DEF Next, CallerStep, FinishCall

\* The constructed loop satisfies the invariant.
LEMMA InitInv == Init => Inv
BY InitTypes, ConstantsAssumption
DEF Init, Inv, LockInv, PlaceInv, NoLostQuit, Callers

\* Every step keeps the invariant.
LEMMA NextInv == Inv /\ [Next]_vars => Inv'
BY NextTypes, NextLock, NextPlace, NextLostQuit DEF Inv

\* Every reachable state satisfies the invariant.
LEMMA Invariance == SafeSpec => []Inv
BY InitInv, NextInv, PTL DEF SafeSpec

\* The type invariant, for every number of threads and functors and every
\* range of the eventfd.
THEOREM TypeCorrect == SafeSpec => []TypeOK
BY Invariance, PTL DEF Inv

\* quit() from another thread is never lost on a loop that sleeps in
\* epoll_wait, whatever else the threads and the loop are doing.
THEOREM QuitNotLost == SafeSpec => []NoLostQuit
BY Invariance, PTL DEF Inv

-----------------------------------------------------------------------------
(* QueueInLoop.                                                            *)

\* No step lets a loop sleep on a queue for which no wakeup is coming, if
\* the owner queues nothing before start().
LEMMA NextQueue ==
  ~OwnerQueuesEarly /\ Inv /\ QueueInv /\ [Next]_vars => QueueInv'
<1> USE ConstantsAssumption
    DEF TypeOK, Callers, QueueInv, WakeupComing, WakeupComingFromAnyone
<1> SUFFICES ASSUME ~OwnerQueuesEarly, Inv, QueueInv, [Next]_vars
             PROVE  QueueInv'
  OBVIOUS
<1>0. TypeOK /\ LockInv /\ PlaceInv
  BY DEF Inv
<1>1. CASE UNCHANGED vars
  BY <1>0, <1>1 DEF vars, loopVars, queueVars
<1>2. ASSUME NEW t \in Callers, NEW f \in Functors, QueueInLoop(t, f)
      PROVE  QueueInv'
  BY <1>0, <1>2 DEF QueueInLoop, CanCall, OwnerBeforeStart, loopVars
<1>3. ASSUME NEW t \in Callers, NEW f \in Functors, RunInLoop(t, f)
      PROVE  QueueInv'
  BY <1>0, <1>2, <1>3 DEF RunInLoop, loopVars
<1>4. ASSUME NEW t \in Callers, quit(t) PROVE QueueInv'
  BY <1>0, <1>4 DEF quit, CanCall, loopVars, queueVars
<1>5. ASSUME NEW t \in Callers, Emplace(t) PROVE QueueInv'
  <2>1. CASE t = LoopThread
    <3>1. lpc \in {"handler", "callback"} /\ (callable_ <=> lpc = "callback")
      BY <1>0, <1>5, <2>1 DEF Emplace, PlaceInv
    <3> QED
      BY <1>0, <1>5, <2>1, <3>1 DEF Emplace, IsInLoopThread, loopVars
  <2>2. CASE t \in Threads
    BY <1>0, <1>5, <2>2 DEF Emplace, IsInLoopThread, loopVars
  <2> QED BY <2>1, <2>2
<1>6. ASSUME NEW t \in Callers, wakeup(t) PROVE QueueInv'
  <2>1. wakeupFd_' > 0
    BY <1>0, <1>6 DEF wakeup
  <2> QED BY <2>1
<1>7. CASE Start \/ While \/ HandlerReturns \/ CallbackReturns \/ BatchDone
  BY <1>0, <1>7 DEF Start, While, HandlerReturns, CallbackReturns, BatchDone,
                    PlaceInv, queueVars
<1>8. CASE HandleRead \/ Swap \/ Callback
  BY <1>0, <1>8 DEF HandleRead, Swap, Callback, queueVars
<1>9. ASSUME NEW c \in IoChannels, HandleEvent(c) PROVE QueueInv'
  BY <1>9 DEF HandleEvent
<1>10. ASSUME NEW io \in SUBSET IoChannels, Poll(io) PROVE QueueInv'
  BY <1>10 DEF Poll
<1>11. CASE CheckFunctors
  <2>1. CASE mutex_ \in Threads
    <3>1. call[mutex_] = "emplace"
      BY <1>0, <2>1 DEF LockInv
    <3> QED BY <1>0, <1>11, <2>1, <3>1 DEF CheckFunctors
  <2>2. CASE mutex_ \notin Threads
    BY <1>0, <1>11, <2>2 DEF CheckFunctors, EmptyReads, queueVars
  <2> QED BY <2>1, <2>2
<1> QED
  BY <1>1, <1>2, <1>3, <1>4, <1>5, <1>6, <1>7, <1>8, <1>9, <1>10, <1>11
  DEF Next, CallerStep, FinishCall, LoopStep, IdlePoll

\* A functor queued by any thread, by a handler or by another functor never
\* waits behind a loop that sleeps in epoll_wait, provided the owner does not
\* queue before start().
THEOREM TaskNotLost == ~OwnerQueuesEarly /\ SafeSpec => []NoLostTask
<1>1. Init => QueueInv
  BY DEF Init, QueueInv
<1>2. QueueInv => NoLostTask
  BY DEF QueueInv, NoLostTask
<1>3. CASE ~OwnerQueuesEarly
  <2>1. Inv /\ QueueInv /\ [Next]_vars => QueueInv'
    BY <1>3, NextQueue
  <2> QED BY <1>1, <1>2, <2>1, Invariance, PTL DEF SafeSpec
<1>4. CASE OwnerQueuesEarly
  BY <1>4
<1> QED BY <1>3, <1>4

-----------------------------------------------------------------------------
(* The loop implements the serial executor.                                *)

\* The constructed loop maps to the initial state of the executor.
LEMMA ExecutorInit == Init => Executor!Init
BY DEF Init, Executor!Init

\* Every step of the loop and of its callers is a step of the executor or
\* leaves its state unchanged.
LEMMA ExecutorNext ==
  TypeOK /\ LockInv /\ PlaceInv /\ [Next]_vars
    => [Executor!Next]_Executor!vars
<1> USE ConstantsAssumption DEF Callers
<1> SUFFICES ASSUME TypeOK, LockInv, PlaceInv, [Next]_vars
             PROVE  [Executor!Next]_Executor!vars
  OBVIOUS
<1> DEFINE unseen == fresh \cup (IF arg = None THEN {} ELSE {arg})
           pending == fun \o functors_
<1>1. CASE UNCHANGED vars
  BY <1>1 DEF vars, loopVars, queueVars, Executor!vars
<1>2. ASSUME NEW t \in Callers, NEW f \in Functors, QueueInLoop(t, f)
      PROVE  UNCHANGED Executor!vars
  <2>1. arg = None /\ arg' = f /\ f # None /\ f \in fresh
    BY <1>2 DEF QueueInLoop, LockInv
  <2>2. unseen' = unseen
    BY <1>2, <2>1 DEF QueueInLoop
  <2> QED BY <1>2, <2>2 DEF QueueInLoop, loopVars, Executor!vars
<1>3. ASSUME NEW t \in Callers, NEW f \in Functors, RunInLoop(t, f)
      PROVE  [Executor!Next]_Executor!vars
  <2>1. CASE IsInLoopThread(t)
    <3>1. lpc # "done" /\ f \in fresh /\ f # arg
      BY <1>3, <2>1 DEF RunInLoop, CanCall, InUserCode, LockInv
    <3>2. unseen' = unseen \ {f}
      BY <1>3, <2>1, <3>1 DEF RunInLoop
    <3>3. Executor!RunNow(f)
      BY <1>3, <2>1, <3>1, <3>2 DEF RunInLoop, loopVars, Executor!RunNow
    <3> QED BY <3>3 DEF Executor!Next
  <2>2. CASE ~IsInLoopThread(t)
    BY <1>2, <1>3, <2>2 DEF RunInLoop
  <2> QED BY <2>1, <2>2
<1>4. ASSUME NEW t \in Callers, quit(t) \/ wakeup(t)
      PROVE  UNCHANGED Executor!vars
  BY <1>4 DEF quit, wakeup, loopVars, queueVars, Executor!vars
<1>5. ASSUME NEW t \in Callers, Emplace(t) PROVE Executor!Next
  <2>1. arg \in Functors /\ arg # None /\ arg \notin fresh
    BY <1>5 DEF Emplace, LockInv, TypeOK
  <2>2. unseen' = unseen \ {arg}
    BY <1>5, <2>1 DEF Emplace
  <2>3. pending' = Append(pending, arg)
    <3>1. functors_ \in Seq(Functors) /\ fun \in Seq(Functors)
      BY DEF TypeOK
    <3>2. functors_' = Append(functors_, arg) /\ fun' = fun
      BY <1>5 DEF Emplace, loopVars
    <3> QED BY <2>1, <3>1, <3>2
  <2>4. Executor!Submit(arg)
    BY <1>5, <2>1, <2>2, <2>3 DEF Emplace, loopVars, Executor!Submit
  <2> QED BY <2>1, <2>4 DEF Executor!Next
<1>6. CASE Start \/ HandlerReturns \/ CallbackReturns \/ BatchDone
  BY <1>6 DEF Start, HandlerReturns, CallbackReturns, BatchDone, queueVars,
              Executor!vars
<1>7. CASE While
  BY <1>7 DEF While, queueVars, Executor!vars, Executor!Next, Executor!Stop
<1>8. ASSUME NEW io \in SUBSET IoChannels, Poll(io)
      PROVE  UNCHANGED Executor!vars
  BY <1>8 DEF Poll, queueVars, Executor!vars
<1>9. CASE HandleRead \/ CheckFunctors
  BY <1>9 DEF HandleRead, CheckFunctors, queueVars, Executor!vars
<1>10. ASSUME NEW c \in IoChannels, HandleEvent(c)
       PROVE  UNCHANGED Executor!vars
  BY <1>10 DEF HandleEvent, queueVars, Executor!vars
<1>11. CASE Swap
  <2>1. fun = <<>> /\ functors_ \in Seq(Functors)
    BY <1>11 DEF Swap, PlaceInv, TypeOK
  <2>2. pending' = pending
    BY <1>11, <2>1 DEF Swap
  <2> QED BY <1>11, <2>2 DEF Swap, Executor!vars
<1>12. CASE Callback
  <2>1. /\ fun # <<>> /\ fun \in Seq(Functors) /\ functors_ \in Seq(Functors)
        /\ fun' = Tail(fun) /\ functors_' = functors_
    BY <1>12 DEF Callback, TypeOK, queueVars
  <2>2. pending # <<>> /\ Head(pending) = Head(fun) /\ pending' = Tail(pending)
    BY <2>1
  <2>3. Executor!RunNext
    BY <1>12, <2>2 DEF Callback, queueVars, Executor!RunNext
  <2> QED BY <2>3 DEF Executor!Next
<1> QED
  BY <1>1, <1>2, <1>3, <1>4, <1>5, <1>6, <1>7, <1>8, <1>9, <1>10, <1>11,
     <1>12 DEF Next, CallerStep, FinishCall, LoopStep, IdlePoll

\* Every functor is executed at most once, by the loop's thread, queued ones
\* in the order in which they were queued, and none once start() has
\* returned, whatever the number of threads and functors.
THEOREM LoopIsSerialExecutor == SafeSpec => Executor!SafeSpec
<1>1. Inv /\ [Next]_vars => [Executor!Next]_Executor!vars
  BY ExecutorNext DEF Inv
<1> QED
  BY <1>1, ExecutorInit, Invariance, PTL DEF SafeSpec, Executor!SafeSpec
=============================================================================
