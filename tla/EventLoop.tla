------------------------------ MODULE EventLoop ------------------------------
(***************************************************************************)
(* One EventLoop (src/src/net/EventLoop.cpp): the thread that owns it runs *)
(* start(), and any thread may hand it functors with QueueInLoop and       *)
(* RunInLoop or ask it to leave with quit().                               *)
(*                                                                         *)
(* The steps of the loop's thread and of the callers interleave freely.  A *)
(* call is split where another thread can see the difference: taking       *)
(* mutex_, emplace_back and unlock, the write to the eventfd.              *)
(***************************************************************************)
EXTENDS Naturals, Sequences

CONSTANTS
  Threads,            \* threads other than the one that owns the loop
  LoopThread,         \* the thread whose id is threadID_
  Functors,           \* the functors that callers may hand over, each once
  IoChannels,         \* channels other than WakeupChannel_
  WakeupChannel_,
  None,               \* no thread, no functor
  EventfdMax,         \* largest value of the eventfd counter (2^64 - 2)
  OwnerQueuesEarly    \* the owner calls QueueInLoop before start()

ASSUME ConstantsAssumption ==
  /\ LoopThread \notin Threads
  /\ None \notin Threads \cup {LoopThread} \cup Functors
  /\ WakeupChannel_ \notin IoChannels
  /\ EventfdMax \in Nat \ {0}
  /\ OwnerQueuesEarly \in BOOLEAN

VARIABLES
  lpc,                \* where the loop's thread is
  quit_, callable_,
  ActiveChannels_,    \* channels of this iteration still to be handled
  functors_,
  mutex_,             \* the thread in the critical section of QueueInLoop
  arg,                \* the functor that thread is about to emplace
  fun,                \* the batch that DoCallback still has to call
  wakeupFd_,          \* the counter of the eventfd
  call,               \* per thread: how far its call has got
  fresh,              \* functors that nobody has handed over yet
  executed            \* history: the functors called, in order

loopVars == <<lpc, callable_, ActiveChannels_, fun>>
queueVars == <<functors_, mutex_, arg, fresh>>
vars == <<loopVars, queueVars, quit_, wakeupFd_, call, executed>>

Callers == Threads \cup {LoopThread}

IsInLoopThread(t) == t = LoopThread

\* The loop's thread runs code of the library's user inside an event handler
\* and inside a functor, and, if its owner does so, before start().
InUserCode == lpc \in {"handler", "callback"}

CanCall(t) == call[t] = "none" /\ (IsInLoopThread(t) => InUserCode)

OwnerBeforeStart(t) ==
  OwnerQueuesEarly /\ IsInLoopThread(t) /\ call[t] = "none" /\ lpc = "ctor"

-----------------------------------------------------------------------------
(* The constructor.                                                        *)

Init ==
  /\ lpc = "ctor"
  /\ quit_ = FALSE
  /\ callable_ = FALSE
  /\ ActiveChannels_ = {}
  /\ functors_ = <<>>
  /\ mutex_ = None
  /\ arg = None
  /\ fun = <<>>
  /\ wakeupFd_ = 0
  /\ call = [t \in Callers |-> "none"]
  /\ fresh = Functors
  /\ executed = <<>>

-----------------------------------------------------------------------------
(* QueueInLoop, RunInLoop, quit: called by any thread.                     *)

\* lock_guard: the caller enters the critical section of QueueInLoop.
QueueInLoop(t, f) ==
  /\ CanCall(t) \/ OwnerBeforeStart(t)
  /\ mutex_ = None
  /\ f \in fresh
  /\ mutex_' = t
  /\ arg' = f
  /\ fresh' = fresh \ {f}
  /\ call' = [call EXCEPT ![t] = "emplace"]
  /\ UNCHANGED <<loopVars, functors_, quit_, wakeupFd_, executed>>

\* Mutant: only other threads wake the loop, callable_ is not looked at.
EmplaceIgnoringCallable(t) ==
  /\ call[t] = "emplace"
  /\ functors_' = Append(functors_, arg)
  /\ mutex_' = None
  /\ arg' = None
  /\ call' = [call EXCEPT ![t] = IF IsInLoopThread(t) THEN "none" ELSE "wake"]
  /\ UNCHANGED <<loopVars, fresh, quit_, wakeupFd_, executed>>

\* emplace_back and unlock, then the test that decides about wakeup().
Emplace(t) ==
  /\ call[t] = "emplace"
  /\ functors_' = Append(functors_, arg)
  /\ mutex_' = None
  /\ arg' = None
  /\ call' = [call EXCEPT ![t] =
                IF ~IsInLoopThread(t) \/ callable_ THEN "wake" ELSE "none"]
  /\ UNCHANGED <<loopVars, fresh, quit_, wakeupFd_, executed>>

\* write() adds 1 to the eventfd; at the limit it fails with EAGAIN, which
\* is only logged.
wakeup(t) ==
  /\ call[t] = "wake"
  /\ wakeupFd_' = IF wakeupFd_ < EventfdMax THEN wakeupFd_ + 1 ELSE wakeupFd_
  /\ call' = [call EXCEPT ![t] = "none"]
  /\ UNCHANGED <<loopVars, queueVars, quit_, executed>>

\* In the loop's thread the callback is called in place, otherwise queued.
RunInLoop(t, f) ==
  IF IsInLoopThread(t)
  THEN /\ CanCall(t)
       /\ f \in fresh
       /\ fresh' = fresh \ {f}
       /\ executed' = Append(executed, f)
       /\ UNCHANGED <<loopVars, functors_, mutex_, arg, quit_, wakeupFd_, call>>
  ELSE QueueInLoop(t, f)

\* Mutant: quit() only sets the flag.
QuitWithoutWakeup(t) ==
  /\ CanCall(t)
  /\ quit_' = TRUE
  /\ UNCHANGED <<loopVars, queueVars, wakeupFd_, call, executed>>

quit(t) ==
  /\ CanCall(t)
  /\ quit_' = TRUE
  /\ call' = [call EXCEPT ![t] = IF IsInLoopThread(t) THEN "none" ELSE "wake"]
  /\ UNCHANGED <<loopVars, queueVars, wakeupFd_, executed>>

-----------------------------------------------------------------------------
(* start(): the loop's thread.                                             *)

Start ==
  /\ lpc = "ctor"
  /\ call[LoopThread] = "none"
  /\ lpc' = "while"
  /\ quit_' = FALSE
  /\ UNCHANGED <<callable_, ActiveChannels_, fun, queueVars, wakeupFd_, call,
                 executed>>

While ==
  /\ lpc = "while"
  /\ lpc' = IF quit_ THEN "done" ELSE "poll"
  /\ UNCHANGED <<callable_, ActiveChannels_, fun, queueVars, quit_, wakeupFd_,
                 call, executed>>

\* epoll_wait returns what is ready; nothing at all after PollTimeMs or a
\* signal.  The eventfd is ready as long as its counter is not zero.
Poll(io) ==
  /\ lpc = "poll"
  /\ ActiveChannels_' = io \cup (IF wakeupFd_ > 0 THEN {WakeupChannel_} ELSE {})
  /\ lpc' = "dispatch"
  /\ UNCHANGED <<callable_, fun, queueVars, quit_, wakeupFd_, call, executed>>

\* WakeupChannel_'s read callback: read() takes the counter back to zero.
HandleRead ==
  /\ lpc = "dispatch"
  /\ WakeupChannel_ \in ActiveChannels_
  /\ ActiveChannels_' = ActiveChannels_ \ {WakeupChannel_}
  /\ wakeupFd_' = 0
  /\ UNCHANGED <<lpc, callable_, fun, queueVars, quit_, call, executed>>

\* Any other channel's HandleEvent runs code that may call into the loop.
HandleEvent(c) ==
  /\ lpc = "dispatch"
  /\ c \in ActiveChannels_ \cap IoChannels
  /\ ActiveChannels_' = ActiveChannels_ \ {c}
  /\ lpc' = "handler"
  /\ UNCHANGED <<callable_, fun, queueVars, quit_, wakeupFd_, call, executed>>

HandlerReturns ==
  /\ lpc = "handler"
  /\ call[LoopThread] = "none"
  /\ lpc' = "dispatch"
  /\ UNCHANGED <<callable_, ActiveChannels_, fun, queueVars, quit_, wakeupFd_,
                 call, executed>>

\* functors_.empty() is read without mutex_: while another thread is inside
\* emplace_back the read is a data race and may give either answer.
EmptyReads == IF mutex_ \in Threads THEN BOOLEAN ELSE {functors_ = <<>>}

\* if(!functors_.empty()) DoCallback(), which first sets callable_.
CheckFunctors ==
  /\ lpc = "dispatch"
  /\ ActiveChannels_ = {}
  /\ \E empty \in EmptyReads :
       IF empty
       THEN lpc' = "while" /\ UNCHANGED callable_
       ELSE lpc' = "swap" /\ callable_' = TRUE
  /\ UNCHANGED <<ActiveChannels_, fun, queueVars, quit_, wakeupFd_, call,
                 executed>>

\* Mutant: the batch is copied and functors_ is not emptied.
SwapWithoutClear ==
  /\ lpc = "swap"
  /\ mutex_ = None
  /\ fun' = functors_
  /\ lpc' = "batch"
  /\ UNCHANGED <<callable_, ActiveChannels_, queueVars, quit_, wakeupFd_, call,
                 executed>>

\* fun.swap(functors_) under mutex_; fun was empty.
Swap ==
  /\ lpc = "swap"
  /\ mutex_ = None
  /\ fun' = functors_
  /\ functors_' = <<>>
  /\ lpc' = "batch"
  /\ UNCHANGED <<callable_, ActiveChannels_, mutex_, arg, fresh, quit_,
                 wakeupFd_, call, executed>>

Callback ==
  /\ lpc = "batch"
  /\ fun # <<>>
  /\ executed' = Append(executed, Head(fun))
  /\ fun' = Tail(fun)
  /\ lpc' = "callback"
  /\ UNCHANGED <<callable_, ActiveChannels_, queueVars, quit_, wakeupFd_, call>>

CallbackReturns ==
  /\ lpc = "callback"
  /\ call[LoopThread] = "none"
  /\ lpc' = "batch"
  /\ UNCHANGED <<callable_, ActiveChannels_, fun, queueVars, quit_, wakeupFd_,
                 call, executed>>

BatchDone ==
  /\ lpc = "batch"
  /\ fun = <<>>
  /\ callable_' = FALSE
  /\ lpc' = "while"
  /\ UNCHANGED <<ActiveChannels_, fun, queueVars, quit_, wakeupFd_, call,
                 executed>>

-----------------------------------------------------------------------------
(* The loop with its callers.                                              *)

CallerStep(t) ==
  \/ \E f \in Functors : QueueInLoop(t, f) \/ RunInLoop(t, f)
  \/ quit(t)

FinishCall(t) == Emplace(t) \/ wakeup(t)

\* Everything the loop's thread does except waiting in epoll_wait for I/O or
\* for the timeout.
LoopStep ==
  \/ Start \/ While
  \/ wakeupFd_ > 0 /\ \E io \in SUBSET IoChannels : Poll(io)
  \/ HandleRead \/ (\E c \in IoChannels : HandleEvent(c)) \/ HandlerReturns
  \/ CheckFunctors \/ Swap \/ Callback \/ CallbackReturns \/ BatchDone

IdlePoll == wakeupFd_ = 0 /\ \E io \in SUBSET IoChannels : Poll(io)

Next ==
  \/ \E t \in Callers : CallerStep(t) \/ FinishCall(t)
  \/ LoopStep
  \/ IdlePoll

\* Handlers and functors return and a call that has begun is finished: the
\* code between has no loop and waits for nothing but mutex_.  Nothing is
\* assumed about I/O, about the poll timeout or about the callers calling.
Fairness == WF_vars(LoopStep) /\ \A t \in Callers : WF_vars(FinishCall(t))

SafeSpec == Init /\ [][Next]_vars
Spec == SafeSpec /\ Fairness

-----------------------------------------------------------------------------
(* Properties.                                                             *)

LoopLocations ==
  {"ctor", "while", "poll", "dispatch", "handler", "swap", "batch", "callback",
   "done"}

\* Type invariant.  The eventfd stays within its range.
TypeOK ==
  /\ lpc \in LoopLocations
  /\ quit_ \in BOOLEAN
  /\ callable_ \in BOOLEAN
  /\ ActiveChannels_ \subseteq IoChannels \cup {WakeupChannel_}
  /\ functors_ \in Seq(Functors)
  /\ fun \in Seq(Functors)
  /\ executed \in Seq(Functors)
  /\ mutex_ \in Callers \cup {None}
  /\ arg \in Functors \cup {None}
  /\ wakeupFd_ \in 0..EventfdMax
  /\ call \in [Callers -> {"none", "emplace", "wake"}]
  /\ fresh \subseteq Functors

\* The eventfd is readable, or a thread that will make it readable is still
\* inside QueueInLoop or quit().
WakeupComing ==
  wakeupFd_ > 0 \/ \E t \in Threads : call[t] \in {"emplace", "wake"}

\* QueueInLoop wakes the loop: the loop is never left sleeping in epoll_wait
\* on a non-empty queue, whoever queued the functor (another thread, a
\* handler, another functor) and whatever the loop was doing at that time.
NoLostTask == lpc = "poll" /\ functors_ # <<>> => WakeupComing

\* quit() from another thread wakes the loop: it is never left sleeping in
\* epoll_wait with quit_ set.
NoLostQuit == lpc = "poll" /\ quit_ => WakeupComing

\* A quit_ that is set once the loop is running makes start() return, without
\* help from I/O or from the poll timeout.
QuitTakesEffect == quit_ /\ lpc # "ctor" ~> lpc = "done"

\* The loop is a serial executor: each functor once, queued ones in order,
\* and all of them while the loop has not stopped.
Executor ==
  INSTANCE SerialExecutor
  WITH unseen <- fresh \cup (IF arg = None THEN {} ELSE {arg}),
       pending <- fun \o functors_,
       done <- executed,
       stopped <- lpc = "done"

ExecutorSpec == Executor!Spec
=============================================================================
