------------------------- MODULE EventLoopThreadPool -------------------------
(***************************************************************************)
(* The EventLoopThreadPool of a server, its EventLoopThreads and their     *)
(* Threads (src/src/net/EventLoopThreadPool.cpp, EventLoopThread.cpp,      *)
(* src/src/base/Thread.cpp): how the loops of other threads come up, are   *)
(* handed out in turn, and are brought down.                               *)
(*                                                                         *)
(* Each EventLoop lives on the stack of its thread.  The owner and the     *)
(* thread share the pointer loop_, under mutex_ except in the destructor.  *)
(* Of the loop itself only quit_ matters here: EventLoop.tla shows that a  *)
(* running loop returns once quit_ is set.                                 *)
(***************************************************************************)
EXTENDS Naturals, FiniteSets

CONSTANT MaxThreads \* bound on ThreadNum_

ASSUME PoolAssumption == MaxThreads \in Nat

Workers == 1..MaxThreads

VARIABLES
  ThreadNum_,
  phase,            \* where the owner of the pool is
  i,                \* the EventLoopThread it is busy with
  worker,           \* per thread: how far ThreadFunciton has got
  exists,           \* per thread: the EventLoopThread object exists
  loop_,            \* per thread: loop_ is not null
  alive,            \* per thread: the EventLoop exists
  quit_,            \* per thread: quit_ of its loop
  loops_,           \* how many loops the pool has
  next_,
  foreign,          \* history: loops that someone else has told to quit
  dangling          \* loops used after their end, or EventLoopThreads

ownerVars == <<phase, i, exists, loops_, ThreadNum_>>
workerVars == <<worker, loop_, alive>>
historyVars == <<foreign, dangling>>
poolVars == <<ownerVars, workerVars, quit_, next_, historyVars>>

PoolInit ==
  /\ ThreadNum_ = 0
  /\ phase = "ready" /\ i = 1
  /\ worker = [w \in Workers |-> "none"]
  /\ exists = [w \in Workers |-> FALSE]
  /\ loop_ = [w \in Workers |-> FALSE]
  /\ alive = [w \in Workers |-> FALSE]
  /\ quit_ = [w \in Workers |-> FALSE]
  /\ loops_ = 0 /\ next_ = 0
  /\ foreign = {} /\ dangling = {}

-----------------------------------------------------------------------------
(* EventLoopThreadPool::start: one EventLoopThread after the other.        *)

SetThreadNum(num) ==
  /\ phase \in {"ready", "running"}
  /\ ThreadNum_' = num
  /\ UNCHANGED <<phase, i, exists, loops_, workerVars, quit_, next_, historyVars>>

\* Without threads callback_ gets BaseLoop_.
start ==
  /\ phase = "ready"
  /\ phase' = IF ThreadNum_ = 0 THEN "running" ELSE "spawn"
  /\ UNCHANGED <<i, exists, loops_, ThreadNum_, workerVars, quit_, next_, historyVars>>

\* new EventLoopThread, and Thread::start up to latch.wait().
Spawn ==
  /\ phase = "spawn"
  /\ phase' = "latch"
  /\ exists' = [exists EXCEPT ![i] = TRUE]
  /\ worker' = [worker EXCEPT ![i] = "spawned"]
  /\ UNCHANGED <<i, loops_, ThreadNum_, loop_, alive, quit_, next_, historyVars>>

LatchWait ==
  /\ phase = "latch"
  /\ worker[i] # "spawned"
  /\ phase' = "wait"
  /\ UNCHANGED <<i, exists, loops_, ThreadNum_, workerVars, quit_, next_, historyVars>>

\* cond_.wait in StartLoop: the predicate holds, and the pool gets the loop.
StartLoop ==
  /\ phase = "wait"
  /\ loop_[i]
  /\ loops_' = loops_ + 1
  /\ IF i < ThreadNum_
     THEN phase' = "spawn" /\ i' = i + 1
     ELSE phase' = "running" /\ i' = 1
  /\ UNCHANGED <<exists, ThreadNum_, workerVars, quit_, next_, historyVars>>

-----------------------------------------------------------------------------
(* GetNextLoop, in the owner's thread.                                     *)

Following(n) == IF n + 1 >= loops_ THEN 0 ELSE n + 1

GetNextLoop ==
  /\ phase = "running"
  /\ IF loops_ = 0
     THEN UNCHANGED <<next_, dangling>>
     ELSE /\ next_' = Following(next_)
          /\ dangling' = dangling \cup (IF alive[next_ + 1] THEN {} ELSE {next_ + 1})
  /\ UNCHANGED <<ownerVars, workerVars, quit_, foreign>>

-----------------------------------------------------------------------------
(* ThreadFunciton.                                                         *)

At(w, here) == worker[w] = here
GoTo(w, there) == worker' = [worker EXCEPT ![w] = there]

\* Thread::start's latch.count_down().
CountDown(w) ==
  /\ At(w, "spawned") /\ GoTo(w, "init")
  /\ UNCHANGED <<ownerVars, loop_, alive, quit_, next_, historyVars>>

\* The EventLoop is made and callback_ gets it.
InitLoop(w) ==
  /\ At(w, "init") /\ GoTo(w, "publish")
  /\ alive' = [alive EXCEPT ![w] = TRUE]
  /\ UNCHANGED <<ownerVars, loop_, quit_, next_, historyVars>>

\* Mutant: loop_ is to be set after loop.start().
PublishAfterStart(w) ==
  /\ At(w, "publish") /\ GoTo(w, "start")
  /\ UNCHANGED <<ownerVars, loop_, alive, quit_, next_, historyVars>>

Publish(w) ==
  /\ At(w, "publish") /\ GoTo(w, "start")
  /\ loop_' = [loop_ EXCEPT ![w] = TRUE]
  /\ UNCHANGED <<ownerVars, alive, quit_, next_, historyVars>>

\* loop.start() begins with quit_ = false.
Start(w) ==
  /\ At(w, "start") /\ GoTo(w, "looping")
  /\ quit_' = [quit_ EXCEPT ![w] = FALSE]
  /\ UNCHANGED <<ownerVars, loop_, alive, next_, historyVars>>

LoopReturns(w) ==
  /\ At(w, "looping") /\ quit_[w] /\ GoTo(w, "clear")
  /\ UNCHANGED <<ownerVars, loop_, alive, quit_, next_, historyVars>>

\* mutex_ and loop_ are members of the EventLoopThread.
Clear(w) ==
  /\ At(w, "clear") /\ GoTo(w, "leave")
  /\ loop_' = [loop_ EXCEPT ![w] = FALSE]
  /\ dangling' = dangling \cup (IF exists[w] THEN {} ELSE {w})
  /\ UNCHANGED <<ownerVars, alive, quit_, next_, foreign>>

\* The EventLoop goes out of scope.
Leave(w) ==
  /\ At(w, "leave") /\ GoTo(w, "ended")
  /\ alive' = [alive EXCEPT ![w] = FALSE]
  /\ UNCHANGED <<ownerVars, loop_, quit_, next_, historyVars>>

\* Someone who got the loop from callback_ or from the pool calls quit().
QuitByOthers(w) ==
  /\ worker[w] \in {"publish", "start", "looping"}
  /\ quit_' = [quit_ EXCEPT ![w] = TRUE]
  /\ foreign' = foreign \cup {w}
  /\ UNCHANGED <<ownerVars, workerVars, next_, dangling>>

-----------------------------------------------------------------------------
(* The pool is destroyed, and with it each EventLoopThread in turn.        *)

Destroy ==
  /\ phase = "running"
  /\ phase' = IF loops_ = 0 THEN "gone" ELSE "check"
  /\ UNCHANGED <<i, exists, loops_, ThreadNum_, workerVars, quit_, next_, historyVars>>

\* The object is gone, and the turn is the next one's.
Gone ==
  /\ exists' = [exists EXCEPT ![i] = FALSE]
  /\ IF i < loops_
     THEN phase' = "check" /\ i' = i + 1
     ELSE phase' = "gone" /\ i' = i

\* if(loop_ != nullptr), without mutex_.  If it is null the thread is not
\* joined, and ~Thread detaches it.
CheckLoop ==
  /\ phase = "check"
  /\ IF loop_[i] THEN phase' = "quit" /\ UNCHANGED <<i, exists>> ELSE Gone
  /\ UNCHANGED <<loops_, ThreadNum_, workerVars, quit_, next_, historyVars>>

\* Mutant: the thread is joined and its loop not told to quit.
QuitForgotten ==
  /\ phase = "quit"
  /\ phase' = "join"
  /\ UNCHANGED <<i, exists, loops_, ThreadNum_, workerVars, quit_, next_, historyVars>>

\* loop_->quit(): loop_ is read again.
Quit ==
  /\ phase = "quit"
  /\ phase' = "join"
  /\ dangling' = dangling \cup (IF loop_[i] /\ alive[i] THEN {} ELSE {i})
  /\ quit_' = [quit_ EXCEPT ![i] = TRUE]
  /\ UNCHANGED <<i, exists, loops_, ThreadNum_, workerVars, next_, foreign>>

\* Mutant: the thread is not waited for.
JoinWithoutWaiting ==
  /\ phase = "join"
  /\ Gone
  /\ UNCHANGED <<loops_, ThreadNum_, workerVars, quit_, next_, historyVars>>

Join ==
  /\ phase = "join"
  /\ worker[i] = "ended"
  /\ Gone
  /\ UNCHANGED <<loops_, ThreadNum_, workerVars, quit_, next_, historyVars>>

-----------------------------------------------------------------------------

OwnerGoesOn == Spawn \/ LatchWait \/ StartLoop \/ CheckLoop \/ Quit \/ Join
WorkerStep(w) ==
  \/ CountDown(w) \/ InitLoop(w) \/ Publish(w) \/ Start(w)
  \/ LoopReturns(w) \/ Clear(w) \/ Leave(w)

-----------------------------------------------------------------------------
(* Properties.                                                             *)

\* Type invariant; next_ is an index of loops_.
PoolTypeOK ==
  /\ phase \in {"ready", "spawn", "latch", "wait", "running", "check", "quit",
                "join", "gone"}
  /\ ThreadNum_ \in 0..MaxThreads
  /\ i \in 1..(MaxThreads + 1)
  /\ worker \in [Workers -> {"none", "spawned", "init", "publish", "start",
                             "looping", "clear", "leave", "ended"}]
  /\ exists \in [Workers -> BOOLEAN]
  /\ loop_ \in [Workers -> BOOLEAN]
  /\ alive \in [Workers -> BOOLEAN]
  /\ quit_ \in [Workers -> BOOLEAN]
  /\ loops_ \in 0..MaxThreads
  /\ next_ \in 0..(IF loops_ = 0 THEN 0 ELSE loops_ - 1)
  /\ foreign \subseteq Workers /\ dangling \subseteq Workers

\* No EventLoop and no EventLoopThread is used after its end, unless someone
\* beside the destructor has told the loop to quit: the pool hands out live
\* loops, loop_ is valid when the destructor dereferences it, and no thread
\* outlives its EventLoopThread.
NothingDangles == dangling \subseteq foreign

\* start() returns with every loop published, if nobody quits one meanwhile.
PoolComesUp == phase = "spawn" ~> phase = "running" \/ foreign # {}

\* The destructor returns if every loop was running when it began and nobody
\* else quits one.
PoolGoesDown ==
  phase = "check" /\ i = 1 /\ (\A w \in 1..loops_ : worker[w] = "looping")
    ~> phase = "gone" \/ foreign # {}
=============================================================================
