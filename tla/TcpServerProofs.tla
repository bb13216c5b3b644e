--------------------------- MODULE TcpServerProofs ---------------------------
(***************************************************************************)
(* What the server and its pool do to loops, threads and connections, for  *)
(* any number of threads and connections.                                  *)
(***************************************************************************)
EXTENDS TcpServer, FunctionTheorems, FiniteSetTheorems, SequenceTheorems, TLAPS

-----------------------------------------------------------------------------
(* The pool.                                                               *)

\* Where the pool's start() and destructor are.
Starting == phase \in {"spawn", "latch", "wait"}
Ending == phase \in {"check", "quit", "join"}

\* The thread of a loop that the pool has been given.
Published(w) == worker[w] \in {"start", "looping", "clear", "leave", "ended"}

\* The owner goes through the threads in turn, and the pool has the loops of
\* those it is done with.
OwnerInv ==
  /\ phase = "ready" => loops_ = 0 /\ i = 1
  /\ Starting => i = loops_ + 1 /\ i <= ThreadNum_
  /\ phase = "running" => i = 1
  /\ Ending => i <= loops_
  /\ \A w \in Workers :
       /\ w <= loops_ => Published(w)
       /\ w > loops_ => (worker[w] # "none" <=> phase \in {"latch", "wait"} /\ w = i)

\* What a thread has made and not yet unmade.
LifetimeInv ==
  \A w \in Workers :
    /\ alive[w] <=> worker[w] \in {"publish", "start", "looping", "clear", "leave"}
    /\ loop_[w] <=> worker[w] \in {"start", "looping", "clear"}
    /\ exists[w] <=> \/ (Starting \/ phase = "running") /\ w <= loops_
                     \/ phase \in {"latch", "wait"} /\ w = i
                     \/ Ending /\ i <= w /\ w <= loops_

\* A loop that nobody else quits is told to quit by the destructor of its
\* EventLoopThread, which then waits for the thread.
QuitInv ==
  \A w \in Workers :
    /\ worker[w] = "none" => ~quit_[w]
    /\ w \notin foreign =>
         /\ quit_[w] => (phase = "join" /\ i = w) \/ ~exists[w]
         /\ worker[w] \in {"clear", "leave", "ended"} => quit_[w]
         /\ w <= loops_ /\ ~exists[w] => worker[w] = "ended"

PoolInv == PoolTypeOK /\ OwnerInv /\ LifetimeInv /\ QuitInv /\ NothingDangles

-----------------------------------------------------------------------------
(* The connections.                                                        *)

Ops == {"ConnectEstablished", "ConnectDestoryed", "RemoveConnectionInLoop"}
Functors == [op : Ops, conn : Conns]

Est(c) == Functor("ConnectEstablished", c)
Dest(c) == Functor("ConnectDestoryed", c)
Rem(c) == Functor("RemoveConnectionInLoop", c)

States == {"none", "kConnecting", "kConnected", "kDisconnecting", "kDisconnected"}

\* f is in the queue s; d, if it is there, comes after e.
In(s, f) == \E k \in DOMAIN s : s[k] = f
Before(s, e, d) == \E j \in DOMAIN s : s[j] = e /\ \A k \in DOMAIN s : s[k] = d => j < k

\* Also what TypeOK leaves open.
ServerType ==
  /\ TypeOK
  /\ functors \in [Loops -> Seq(Functors)]
  /\ reports \in [Conns -> Nat] /\ ended \in [Conns -> Nat]

\* The server goes after its pool.
ServerInv ==
  /\ server = "gone" => phase = "gone"
  /\ ghost => server = "gone" /\ (outlived \/ foreign # {})

\* A connection that has not been accepted has left no trace.
FreshInv(c) ==
  /\ state_[c] = "none" /\ c \notin connections_ /\ c \notin registered
  /\ reports[c] = 0 /\ ended[c] = 0
  /\ \A l \in Loops, op \in Ops : ~In(functors[l], Functor(op, c))

\* What the user has been told of it.
ReportInv(c) ==
  /\ \/ state_[c] = "kConnecting" /\ reports[c] = 0
     \/ state_[c] \in {"kConnected", "kDisconnecting"} /\ reports[c] = 1
     \/ state_[c] = "kDisconnected" /\ reports[c] = 2
  /\ ended[c] > 0 => state_[c] \in {"kDisconnecting", "kDisconnected"}
  /\ c \in registered => ended[c] = 0

\* Where its functors are queued, and when.
PlaceInv(c) ==
  \A l \in Loops :
    /\ In(functors[l], Est(c)) => l = home[c] /\ l # 0 /\ state_[c] = "kConnecting"
    /\ In(functors[l], Dest(c)) => l = home[c]
    /\ In(functors[l], Rem(c)) => l = 0 /\ home[c] # 0 /\ state_[c] = "kDisconnected"

\* It is established before it is destroyed.
EstablishInv(c) ==
  state_[c] = "kConnecting" =>
    /\ home[c] # 0
    /\ worker[home[c]] = "ended" \/ Before(functors[home[c]], Est(c), Dest(c))

\* It is in the map, or ConnectDestoryed is queued, or has been called once, or
\* its loop is gone.
EndInv(c) ==
  /\ c \in connections_ => ended[c] = 0 /\ ~In(functors[home[c]], Dest(c))
  /\ In(functors[home[c]], Dest(c)) => ended[c] = 0
  /\ ended[c] <= 1
  /\ c \notin connections_ /\ ended[c] = 0 /\ ~In(functors[home[c]], Dest(c)) =>
       home[c] # 0 /\ worker[home[c]] = "ended"

\* As long as the server serves, what is open, or still to be removed, is in
\* the map; a connection of the base loop is never taken from it while open,
\* and one that was shut down is taken when ConnectDestoryed is called.
MapInv(c) ==
  c \notin connections_ =>
    /\ server \in {"ready", "serving"} =>
         state_[c] = "kDisconnected" /\ ~In(functors[0], Rem(c))
    /\ home[c] = 0 => \/ state_[c] = "kDisconnected"
                      \/ state_[c] = "kDisconnecting" /\ ended[c] # 0

\* A server that is used after its end may queue ConnectDestoryed again.
ConnInv(c) ==
  /\ c >= NextConnectionId_ => FreshInv(c)
  /\ c < NextConnectionId_ =>
       /\ ReportInv(c)
       /\ ghost \/ (PlaceInv(c) /\ EstablishInv(c) /\ EndInv(c) /\ MapInv(c))

Inv ==
  /\ PoolInv /\ ServerType /\ ServerInv
  /\ ghost \/ \A l \in Loops : IsInjective(functors[l])
  /\ \A c \in Conns : ConnInv(c)

-----------------------------------------------------------------------------
(* Lemmas.  Every step of the pool keeps its invariant.                    *)

\* The pool has not been touched.
LEMMA PoolUnchanged == PoolInv /\ UNCHANGED poolVars => PoolInv'
BY DEF PoolInv, PoolTypeOK, OwnerInv, LifetimeInv, QuitInv, NothingDangles, Starting, Ending,
       Published, poolVars, ownerVars, workerVars, historyVars

\* The setter does not reach the threads.
LEMMA SetThreadNumInv == ASSUME PoolInv, dangling = {}, NEW num \in 0..MaxThreads, SetThreadNum(num) PROVE PoolInv'
<1> USE PoolAssumption DEF PoolInv, Workers
<1>1. PoolTypeOK'
  BY DEF PoolTypeOK, OwnerInv, SetThreadNum, ownerVars, workerVars, historyVars, Starting, Ending
<1>2. OwnerInv'
  BY DEF PoolTypeOK, OwnerInv, LifetimeInv, SetThreadNum, ownerVars, workerVars, historyVars, Starting, Ending, Published
<1>3. LifetimeInv'
  BY DEF PoolTypeOK, OwnerInv, LifetimeInv, SetThreadNum, ownerVars, workerVars, historyVars, Starting, Ending
<1>4. QuitInv'
  BY DEF PoolTypeOK, OwnerInv, LifetimeInv, QuitInv, SetThreadNum, ownerVars, workerVars, historyVars, Starting, Ending, Published
<1>5. NothingDangles'
  BY DEF PoolTypeOK, OwnerInv, LifetimeInv, QuitInv, NothingDangles, SetThreadNum, ownerVars, workerVars, historyVars, Starting, Ending, Published
<1> QED BY <1>1, <1>2, <1>3, <1>4, <1>5

\* start() begins.
LEMMA StartInv == ASSUME PoolInv, dangling = {}, start PROVE PoolInv'
<1> USE PoolAssumption DEF PoolInv, Workers
<1>1. PoolTypeOK'
  BY DEF PoolTypeOK, OwnerInv, start, ownerVars, workerVars, historyVars, Starting, Ending
<1>2. OwnerInv'
  BY DEF PoolTypeOK, OwnerInv, LifetimeInv, start, ownerVars, workerVars, historyVars, Starting, Ending, Published
<1>3. LifetimeInv'
  BY DEF PoolTypeOK, OwnerInv, LifetimeInv, start, ownerVars, workerVars, historyVars, Starting, Ending
<1>4. QuitInv'
  BY DEF PoolTypeOK, OwnerInv, LifetimeInv, QuitInv, start, ownerVars, workerVars, historyVars, Starting, Ending, Published
<1>5. NothingDangles'
  BY DEF PoolTypeOK, OwnerInv, LifetimeInv, QuitInv, NothingDangles, start, ownerVars, workerVars, historyVars, Starting, Ending, Published
<1> QED BY <1>1, <1>2, <1>3, <1>4, <1>5

\* The next thread is made.
LEMMA SpawnInv == ASSUME PoolInv, dangling = {}, Spawn PROVE PoolInv'
<1> USE PoolAssumption DEF PoolInv, Workers
<1>1. PoolTypeOK'
  BY DEF PoolTypeOK, OwnerInv, Spawn, ownerVars, workerVars, historyVars, Starting, Ending
<1>2. OwnerInv'
  BY DEF PoolTypeOK, OwnerInv, LifetimeInv, Spawn, ownerVars, workerVars, historyVars, Starting, Ending, Published
<1>3. LifetimeInv'
  BY DEF PoolTypeOK, OwnerInv, LifetimeInv, Spawn, ownerVars, workerVars, historyVars, Starting, Ending
<1>4. QuitInv'
  BY DEF PoolTypeOK, OwnerInv, LifetimeInv, QuitInv, Spawn, ownerVars, workerVars, historyVars, Starting, Ending, Published
<1>5. NothingDangles'
  BY DEF PoolTypeOK, OwnerInv, LifetimeInv, QuitInv, NothingDangles, Spawn, ownerVars, workerVars, historyVars, Starting, Ending, Published
<1> QED BY <1>1, <1>2, <1>3, <1>4, <1>5

\* The thread has counted down.
LEMMA LatchWaitInv == ASSUME PoolInv, dangling = {}, LatchWait PROVE PoolInv'
<1> USE PoolAssumption DEF PoolInv, Workers
<1>1. PoolTypeOK'
  BY DEF PoolTypeOK, OwnerInv, LatchWait, ownerVars, workerVars, historyVars, Starting, Ending
<1>2. OwnerInv'
  BY DEF PoolTypeOK, OwnerInv, LifetimeInv, LatchWait, ownerVars, workerVars, historyVars, Starting, Ending, Published
<1>3. LifetimeInv'
  BY DEF PoolTypeOK, OwnerInv, LifetimeInv, LatchWait, ownerVars, workerVars, historyVars, Starting, Ending
<1>4. QuitInv'
  BY DEF PoolTypeOK, OwnerInv, LifetimeInv, QuitInv, LatchWait, ownerVars, workerVars, historyVars, Starting, Ending, Published
<1>5. NothingDangles'
  BY DEF PoolTypeOK, OwnerInv, LifetimeInv, QuitInv, NothingDangles, LatchWait, ownerVars, workerVars, historyVars, Starting, Ending, Published
<1> QED BY <1>1, <1>2, <1>3, <1>4, <1>5

\* The pool gets a loop that has been published.
LEMMA StartLoopInv == ASSUME PoolInv, dangling = {}, StartLoop PROVE PoolInv'
<1> USE PoolAssumption DEF PoolInv, Workers
<1>1. PoolTypeOK'
  BY DEF PoolTypeOK, OwnerInv, StartLoop, ownerVars, workerVars, historyVars, Starting, Ending
<1>2. OwnerInv'
  BY DEF PoolTypeOK, OwnerInv, LifetimeInv, StartLoop, ownerVars, workerVars, historyVars, Starting, Ending, Published
<1>3. LifetimeInv'
  BY DEF PoolTypeOK, OwnerInv, LifetimeInv, StartLoop, ownerVars, workerVars, historyVars, Starting, Ending
<1>4. QuitInv'
  BY DEF PoolTypeOK, OwnerInv, LifetimeInv, QuitInv, StartLoop, ownerVars, workerVars, historyVars, Starting, Ending, Published
<1>5. NothingDangles'
  BY DEF PoolTypeOK, OwnerInv, LifetimeInv, QuitInv, NothingDangles, StartLoop, ownerVars, workerVars, historyVars, Starting, Ending, Published
<1> QED BY <1>1, <1>2, <1>3, <1>4, <1>5

\* The pool hands out a loop that lives, unless someone else has quit it.
LEMMA GetNextLoopInv == ASSUME PoolInv, dangling = {}, GetNextLoop PROVE PoolInv'
<1> USE PoolAssumption DEF PoolInv, Workers
<1>1. PoolTypeOK'
  BY DEF PoolTypeOK, OwnerInv, GetNextLoop, Following, ownerVars, workerVars, historyVars, Starting, Ending
<1>2. OwnerInv'
  BY DEF PoolTypeOK, OwnerInv, LifetimeInv, GetNextLoop, Following, ownerVars, workerVars, historyVars, Starting, Ending, Published
<1>3. LifetimeInv'
  BY DEF PoolTypeOK, OwnerInv, LifetimeInv, GetNextLoop, Following, ownerVars, workerVars, historyVars, Starting, Ending
<1>4. QuitInv'
  BY DEF PoolTypeOK, OwnerInv, LifetimeInv, QuitInv, GetNextLoop, Following, ownerVars, workerVars, historyVars, Starting, Ending, Published
<1>5. NothingDangles'
  BY DEF PoolTypeOK, OwnerInv, LifetimeInv, QuitInv, NothingDangles, GetNextLoop, Following, ownerVars, workerVars, historyVars, Starting, Ending, Published
<1> QED BY <1>1, <1>2, <1>3, <1>4, <1>5

\* The destructor of the pool begins.
LEMMA DestroyInv == ASSUME PoolInv, dangling = {}, Destroy PROVE PoolInv'
<1> USE PoolAssumption DEF PoolInv, Workers
<1>1. PoolTypeOK'
  BY DEF PoolTypeOK, OwnerInv, Destroy, ownerVars, workerVars, historyVars, Starting, Ending
<1>2. OwnerInv'
  BY DEF PoolTypeOK, OwnerInv, LifetimeInv, Destroy, ownerVars, workerVars, historyVars, Starting, Ending, Published
<1>3. LifetimeInv'
  BY DEF PoolTypeOK, OwnerInv, LifetimeInv, Destroy, ownerVars, workerVars, historyVars, Starting, Ending
<1>4. QuitInv'
  BY DEF PoolTypeOK, OwnerInv, LifetimeInv, QuitInv, Destroy, ownerVars, workerVars, historyVars, Starting, Ending, Published
<1>5. NothingDangles'
  BY DEF PoolTypeOK, OwnerInv, LifetimeInv, QuitInv, NothingDangles, Destroy, ownerVars, workerVars, historyVars, Starting, Ending, Published
<1> QED BY <1>1, <1>2, <1>3, <1>4, <1>5

\* loop_ is null only if someone else has quit the loop.
LEMMA CheckLoopInv == ASSUME PoolInv, dangling = {}, CheckLoop PROVE PoolInv'
<1> USE PoolAssumption DEF PoolInv, Workers
<1>1. PoolTypeOK'
  <2>1. i <= loops_ /\ UNCHANGED <<loops_, ThreadNum_, workerVars, quit_, next_, historyVars>>
    BY DEF CheckLoop, OwnerInv, Ending
  <2>2. CASE loop_[i]
    <3>1. phase' = "quit" /\ UNCHANGED <<i, exists>>
      BY <2>2 DEF CheckLoop
    <3> QED BY <2>1, <3>1 DEF PoolTypeOK, workerVars, historyVars
  <2>3. CASE ~loop_[i]
    <3>1. Gone
      BY <2>3 DEF CheckLoop
    <3> QED BY <2>1, <3>1 DEF Gone, PoolTypeOK, workerVars, historyVars
  <2> QED BY <2>2, <2>3
<1>2. OwnerInv'
  BY DEF PoolTypeOK, OwnerInv, LifetimeInv, CheckLoop, Gone, ownerVars, workerVars, historyVars, Starting, Ending, Published
<1>3. LifetimeInv'
  BY DEF PoolTypeOK, OwnerInv, LifetimeInv, CheckLoop, Gone, ownerVars, workerVars, historyVars, Starting, Ending
<1>4. QuitInv'
  BY DEF PoolTypeOK, OwnerInv, LifetimeInv, QuitInv, CheckLoop, Gone, ownerVars, workerVars, historyVars, Starting, Ending, Published
<1>5. NothingDangles'
  BY DEF PoolTypeOK, OwnerInv, LifetimeInv, QuitInv, NothingDangles, CheckLoop, Gone, ownerVars, workerVars, historyVars, Starting, Ending, Published
<1> QED BY <1>1, <1>2, <1>3, <1>4, <1>5

\* The loop that is told to quit lives, unless someone else has quit it.
LEMMA QuitStepInv == ASSUME PoolInv, dangling = {}, Quit PROVE PoolInv'
<1> USE PoolAssumption DEF PoolInv, Workers
<1>1. PoolTypeOK'
  BY DEF PoolTypeOK, OwnerInv, Quit, ownerVars, workerVars, historyVars, Starting, Ending
<1>2. OwnerInv'
  BY DEF PoolTypeOK, OwnerInv, LifetimeInv, Quit, ownerVars, workerVars, historyVars, Starting, Ending, Published
<1>3. LifetimeInv'
  BY DEF PoolTypeOK, OwnerInv, LifetimeInv, Quit, ownerVars, workerVars, historyVars, Starting, Ending
<1>4. QuitInv'
  BY DEF PoolTypeOK, OwnerInv, LifetimeInv, QuitInv, Quit, ownerVars, workerVars, historyVars, Starting, Ending, Published
<1>5. NothingDangles'
  BY DEF PoolTypeOK, OwnerInv, LifetimeInv, QuitInv, NothingDangles, Quit, ownerVars, workerVars, historyVars, Starting, Ending, Published
<1> QED BY <1>1, <1>2, <1>3, <1>4, <1>5

\* The EventLoopThread goes after its thread.
LEMMA JoinInv == ASSUME PoolInv, dangling = {}, Join PROVE PoolInv'
<1> USE PoolAssumption DEF PoolInv, Workers
<1>1. PoolTypeOK'
  BY DEF PoolTypeOK, OwnerInv, Join, Gone, ownerVars, workerVars, historyVars, Starting, Ending
<1>2. OwnerInv'
  BY DEF PoolTypeOK, OwnerInv, LifetimeInv, Join, Gone, ownerVars, workerVars, historyVars, Starting, Ending, Published
<1>3. LifetimeInv'
  BY DEF PoolTypeOK, OwnerInv, LifetimeInv, Join, Gone, ownerVars, workerVars, historyVars, Starting, Ending
<1>4. QuitInv'
  BY DEF PoolTypeOK, OwnerInv, LifetimeInv, QuitInv, Join, Gone, ownerVars, workerVars, historyVars, Starting, Ending, Published
<1>5. NothingDangles'
  BY DEF PoolTypeOK, OwnerInv, LifetimeInv, QuitInv, NothingDangles, Join, Gone, ownerVars, workerVars, historyVars, Starting, Ending, Published
<1> QED BY <1>1, <1>2, <1>3, <1>4, <1>5

\* The thread runs.
LEMMA CountDownInv == ASSUME PoolInv, dangling = {}, NEW w \in Workers, CountDown(w) PROVE PoolInv'
<1> USE PoolAssumption DEF PoolInv, Workers
<1>1. PoolTypeOK'
  BY DEF PoolTypeOK, OwnerInv, CountDown, At, GoTo, ownerVars, workerVars, historyVars, Starting, Ending
<1>2. OwnerInv'
  BY DEF PoolTypeOK, OwnerInv, LifetimeInv, CountDown, At, GoTo, ownerVars, workerVars, historyVars, Starting, Ending, Published
<1>3. LifetimeInv'
  BY DEF PoolTypeOK, OwnerInv, LifetimeInv, CountDown, At, GoTo, ownerVars, workerVars, historyVars, Starting, Ending
<1>4. QuitInv'
  BY DEF PoolTypeOK, OwnerInv, LifetimeInv, QuitInv, CountDown, At, GoTo, ownerVars, workerVars, historyVars, Starting, Ending, Published
<1>5. NothingDangles'
  BY DEF PoolTypeOK, OwnerInv, LifetimeInv, QuitInv, NothingDangles, CountDown, At, GoTo, ownerVars, workerVars, historyVars, Starting, Ending, Published
<1> QED BY <1>1, <1>2, <1>3, <1>4, <1>5

\* It makes its loop.
LEMMA InitLoopInv == ASSUME PoolInv, dangling = {}, NEW w \in Workers, InitLoop(w) PROVE PoolInv'
<1> USE PoolAssumption DEF PoolInv, Workers
<1>1. PoolTypeOK'
  BY DEF PoolTypeOK, OwnerInv, InitLoop, At, GoTo, ownerVars, workerVars, historyVars, Starting, Ending
<1>2. OwnerInv'
  BY DEF PoolTypeOK, OwnerInv, LifetimeInv, InitLoop, At, GoTo, ownerVars, workerVars, historyVars, Starting, Ending, Published
<1>3. LifetimeInv'
  BY DEF PoolTypeOK, OwnerInv, LifetimeInv, InitLoop, At, GoTo, ownerVars, workerVars, historyVars, Starting, Ending
<1>4. QuitInv'
  BY DEF PoolTypeOK, OwnerInv, LifetimeInv, QuitInv, InitLoop, At, GoTo, ownerVars, workerVars, historyVars, Starting, Ending, Published
<1>5. NothingDangles'
  BY DEF PoolTypeOK, OwnerInv, LifetimeInv, QuitInv, NothingDangles, InitLoop, At, GoTo, ownerVars, workerVars, historyVars, Starting, Ending, Published
<1> QED BY <1>1, <1>2, <1>3, <1>4, <1>5

\* It publishes it.
LEMMA PublishInv == ASSUME PoolInv, dangling = {}, NEW w \in Workers, Publish(w) PROVE PoolInv'
<1> USE PoolAssumption DEF PoolInv, Workers
<1>1. PoolTypeOK'
  BY DEF PoolTypeOK, OwnerInv, Publish, At, GoTo, ownerVars, workerVars, historyVars, Starting, Ending
<1>2. OwnerInv'
  BY DEF PoolTypeOK, OwnerInv, LifetimeInv, Publish, At, GoTo, ownerVars, workerVars, historyVars, Starting, Ending, Published
<1>3. LifetimeInv'
  BY DEF PoolTypeOK, OwnerInv, LifetimeInv, Publish, At, GoTo, ownerVars, workerVars, historyVars, Starting, Ending
<1>4. QuitInv'
  BY DEF PoolTypeOK, OwnerInv, LifetimeInv, QuitInv, Publish, At, GoTo, ownerVars, workerVars, historyVars, Starting, Ending, Published
<1>5. NothingDangles'
  BY DEF PoolTypeOK, OwnerInv, LifetimeInv, QuitInv, NothingDangles, Publish, At, GoTo, ownerVars, workerVars, historyVars, Starting, Ending, Published
<1> QED BY <1>1, <1>2, <1>3, <1>4, <1>5

\* It starts it, and forgets a quit() that came before.
LEMMA StartWorkerInv == ASSUME PoolInv, dangling = {}, NEW w \in Workers, Start(w) PROVE PoolInv'
<1> USE PoolAssumption DEF PoolInv, Workers
<1>1. PoolTypeOK'
  BY DEF PoolTypeOK, OwnerInv, Start, At, GoTo, ownerVars, workerVars, historyVars, Starting, Ending
<1>2. OwnerInv'
  BY DEF PoolTypeOK, OwnerInv, LifetimeInv, Start, At, GoTo, ownerVars, workerVars, historyVars, Starting, Ending, Published
<1>3. LifetimeInv'
  BY DEF PoolTypeOK, OwnerInv, LifetimeInv, Start, At, GoTo, ownerVars, workerVars, historyVars, Starting, Ending
<1>4. QuitInv'
  BY DEF PoolTypeOK, OwnerInv, LifetimeInv, QuitInv, Start, At, GoTo, ownerVars, workerVars, historyVars, Starting, Ending, Published
<1>5. NothingDangles'
  BY DEF PoolTypeOK, OwnerInv, LifetimeInv, QuitInv, NothingDangles, Start, At, GoTo, ownerVars, workerVars, historyVars, Starting, Ending, Published
<1> QED BY <1>1, <1>2, <1>3, <1>4, <1>5

\* The loop returns only when it has been told to.
LEMMA LoopReturnsInv == ASSUME PoolInv, dangling = {}, NEW w \in Workers, LoopReturns(w) PROVE PoolInv'
<1> USE PoolAssumption DEF PoolInv, Workers
<1>1. PoolTypeOK'
  BY DEF PoolTypeOK, OwnerInv, LoopReturns, At, GoTo, ownerVars, workerVars, historyVars, Starting, Ending
<1>2. OwnerInv'
  BY DEF PoolTypeOK, OwnerInv, LifetimeInv, LoopReturns, At, GoTo, ownerVars, workerVars, historyVars, Starting, Ending, Published
<1>3. LifetimeInv'
  BY DEF PoolTypeOK, OwnerInv, LifetimeInv, LoopReturns, At, GoTo, ownerVars, workerVars, historyVars, Starting, Ending
<1>4. QuitInv'
  BY DEF PoolTypeOK, OwnerInv, LifetimeInv, QuitInv, LoopReturns, At, GoTo, ownerVars, workerVars, historyVars, Starting, Ending, Published
<1>5. NothingDangles'
  BY DEF PoolTypeOK, OwnerInv, LifetimeInv, QuitInv, NothingDangles, LoopReturns, At, GoTo, ownerVars, workerVars, historyVars, Starting, Ending, Published
<1> QED BY <1>1, <1>2, <1>3, <1>4, <1>5

\* The EventLoopThread is still there when its thread clears loop_.
LEMMA ClearInv == ASSUME PoolInv, dangling = {}, NEW w \in Workers, Clear(w) PROVE PoolInv'
<1> USE PoolAssumption DEF PoolInv, Workers
<1>1. PoolTypeOK'
  BY DEF PoolTypeOK, OwnerInv, Clear, At, GoTo, ownerVars, workerVars, historyVars, Starting, Ending
<1>2. OwnerInv'
  BY DEF PoolTypeOK, OwnerInv, LifetimeInv, Clear, At, GoTo, ownerVars, workerVars, historyVars, Starting, Ending, Published
<1>3. LifetimeInv'
  BY DEF PoolTypeOK, OwnerInv, LifetimeInv, Clear, At, GoTo, ownerVars, workerVars, historyVars, Starting, Ending
<1>4. QuitInv'
  BY DEF PoolTypeOK, OwnerInv, LifetimeInv, QuitInv, Clear, At, GoTo, ownerVars, workerVars, historyVars, Starting, Ending, Published
<1>5. NothingDangles'
  BY DEF PoolTypeOK, OwnerInv, LifetimeInv, QuitInv, NothingDangles, Clear, At, GoTo, ownerVars, workerVars, historyVars, Starting, Ending, Published
<1> QED BY <1>1, <1>2, <1>3, <1>4, <1>5

\* The loop ends.
LEMMA LeaveInv == ASSUME PoolInv, dangling = {}, NEW w \in Workers, Leave(w) PROVE PoolInv'
<1> USE PoolAssumption DEF PoolInv, Workers
<1>1. PoolTypeOK'
  BY DEF PoolTypeOK, OwnerInv, Leave, At, GoTo, ownerVars, workerVars, historyVars, Starting, Ending
<1>2. OwnerInv'
  BY DEF PoolTypeOK, OwnerInv, LifetimeInv, Leave, At, GoTo, ownerVars, workerVars, historyVars, Starting, Ending, Published
<1>3. LifetimeInv'
  BY DEF PoolTypeOK, OwnerInv, LifetimeInv, Leave, At, GoTo, ownerVars, workerVars, historyVars, Starting, Ending
<1>4. QuitInv'
  BY DEF PoolTypeOK, OwnerInv, LifetimeInv, QuitInv, Leave, At, GoTo, ownerVars, workerVars, historyVars, Starting, Ending, Published
<1>5. NothingDangles'
  BY DEF PoolTypeOK, OwnerInv, LifetimeInv, QuitInv, NothingDangles, Leave, At, GoTo, ownerVars, workerVars, historyVars, Starting, Ending, Published
<1> QED BY <1>1, <1>2, <1>3, <1>4, <1>5

\* A quit() of someone else excuses what follows.
LEMMA QuitByOthersInv == ASSUME PoolInv, dangling = {}, NEW w \in Workers, QuitByOthers(w) PROVE PoolInv'
<1> USE PoolAssumption DEF PoolInv, Workers
<1>1. PoolTypeOK'
  BY DEF PoolTypeOK, OwnerInv, QuitByOthers, ownerVars, workerVars, historyVars, Starting, Ending
<1>2. OwnerInv'
  BY DEF PoolTypeOK, OwnerInv, LifetimeInv, QuitByOthers, ownerVars, workerVars, historyVars, Starting, Ending, Published
<1>3. LifetimeInv'
  BY DEF PoolTypeOK, OwnerInv, LifetimeInv, QuitByOthers, ownerVars, workerVars, historyVars, Starting, Ending
<1>4. QuitInv'
  BY DEF PoolTypeOK, OwnerInv, LifetimeInv, QuitInv, QuitByOthers, ownerVars, workerVars, historyVars, Starting, Ending, Published
<1>5. NothingDangles'
  BY DEF PoolTypeOK, OwnerInv, LifetimeInv, QuitInv, NothingDangles, QuitByOthers, ownerVars, workerVars, historyVars, Starting, Ending, Published
<1> QED BY <1>1, <1>2, <1>3, <1>4, <1>5

-----------------------------------------------------------------------------
(* Queues of functors.                                                     *)

\* Different functors are different.
LEMMA FunctorFacts ==
  /\ \A c, d : /\ (Est(c) = Est(d) <=> c = d) /\ (Dest(c) = Dest(d) <=> c = d)
               /\ (Rem(c) = Rem(d) <=> c = d)
               /\ Est(c) # Dest(d) /\ Est(c) # Rem(d) /\ Dest(c) # Rem(d)
  /\ \A c \in Conns : {Est(c), Dest(c), Rem(c)} \subseteq Functors
  /\ \A f \in Functors : f.conn \in Conns /\ f \in {Est(f.conn), Dest(f.conn), Rem(f.conn)}
  /\ \A f \in Functors : /\ f.op = "ConnectEstablished" => f = Est(f.conn)
                         /\ f.op = "ConnectDestoryed" => f = Dest(f.conn)
                         /\ f.op = "RemoveConnectionInLoop" => f = Rem(f.conn)
BY DEF Est, Dest, Rem, Functor, Functors, Ops

\* A functor that is queued comes after those that were there.
LEMMA AppendFacts ==
  ASSUME NEW s \in Seq(Functors), NEW f \in Functors
  PROVE  /\ Append(s, f) \in Seq(Functors)
         /\ \A g : In(Append(s, f), g) <=> In(s, g) \/ g = f
         /\ IsInjective(s) /\ ~In(s, f) => IsInjective(Append(s, f))
         /\ \A e, d : Before(s, e, d) => Before(Append(s, f), e, d)
         /\ \A d : ~In(s, d) /\ d # f => Before(Append(s, f), f, d)
<1> DEFINE t == Append(s, f)
           n == Len(s) + 1
<1>1. /\ t \in Seq(Functors) /\ n \in Nat /\ DOMAIN s = 1..Len(s) /\ DOMAIN t = 1..n
      /\ n \in DOMAIN t /\ t[n] = f /\ n \notin DOMAIN s
      /\ \A k \in DOMAIN s : k \in DOMAIN t /\ t[k] = s[k] /\ k < n
      /\ \A k \in DOMAIN t : k = n \/ k \in DOMAIN s
  OBVIOUS
<1> HIDE DEF t, n
<1>2. \A g : In(t, g) <=> In(s, g) \/ g = f
  BY <1>1 DEF In
<1>3. IsInjective(s) /\ ~In(s, f) => IsInjective(t)
  BY <1>1 DEF In, IsInjective
<1>4. \A e, d : Before(s, e, d) => Before(t, e, d)
  BY <1>1 DEF Before
<1>5. \A d : ~In(s, d) /\ d # f => Before(t, f, d)
  BY <1>1 DEF In, Before
<1> QED BY <1>1, <1>2, <1>3, <1>4, <1>5 DEF t

\* A functor that is taken from the queue was the first.
LEMMA TailFacts ==
  ASSUME NEW s \in Seq(Functors), s # <<>>
  PROVE  /\ Head(s) \in Functors /\ In(s, Head(s))
         /\ Tail(s) \in Seq(Functors)
         /\ \A g : In(s, g) <=> In(Tail(s), g) \/ g = Head(s)
         /\ IsInjective(s) => IsInjective(Tail(s)) /\ ~In(Tail(s), Head(s))
         /\ \A e, d : e # d /\ Before(s, e, d) => Head(s) # d
         /\ \A e, d : Before(s, e, d) /\ Head(s) # e => Before(Tail(s), e, d)
<1> DEFINE t == Tail(s)
<1>1. /\ t \in Seq(Functors) /\ DOMAIN s = 1..Len(s) /\ Len(s) \in Nat
      /\ 1 \in DOMAIN s /\ s[1] = Head(s) /\ Head(s) \in Functors
      /\ \A k \in DOMAIN t : k \in Nat /\ k + 1 \in DOMAIN s /\ t[k] = s[k + 1] /\ k + 1 # 1
      /\ \A k \in DOMAIN s : k = 1 \/ (k - 1 \in DOMAIN t /\ t[k - 1] = s[k] /\ k \in Nat)
      /\ \A k \in DOMAIN s : 1 <= k
  OBVIOUS
<1> HIDE DEF t
<1>2. \A g : In(s, g) <=> In(t, g) \/ g = Head(s)
  BY <1>1 DEF In
<1>3. ASSUME IsInjective(s) PROVE IsInjective(t) /\ ~In(t, Head(s))
  <2>1. \A a, b \in DOMAIN t : t[a] = t[b] => a + 1 = b + 1
    BY <1>1, <1>3 DEF IsInjective
  <2>2. \A a, b \in DOMAIN t : t[a] = t[b] => a = b
    BY <1>1, <2>1
  <2>3. \A a \in DOMAIN t : t[a] # Head(s)
    BY <1>1, <1>3 DEF IsInjective
  <2> QED BY <2>2, <2>3 DEF IsInjective, In
<1>4. \A e, d : e # d /\ Before(s, e, d) => Head(s) # d
  BY <1>1 DEF Before
<1>5. ASSUME NEW e, NEW d, Before(s, e, d), Head(s) # e
      PROVE  Before(t, e, d)
  <2>1. PICK j \in DOMAIN s : s[j] = e /\ \A k \in DOMAIN s : s[k] = d => j < k
    BY <1>5 DEF Before
  <2>2. j - 1 \in DOMAIN t /\ t[j - 1] = e /\ j \in Nat
    BY <1>1, <1>5, <2>1
  <2>3. \A k \in DOMAIN t : t[k] = d => j - 1 < k
    BY <1>1, <2>1, <2>2
  <2> QED BY <2>2, <2>3 DEF Before
<1>6. In(s, Head(s))
  BY <1>2
<1> QED BY <1>1, <1>2, <1>3, <1>4, <1>5, <1>6 DEF t

\* The empty queue.
LEMMA EmptyFacts ==
  /\ <<>> \in Seq(Functors) /\ IsInjective(<<>>) /\ \A f : ~In(<<>>, f)
BY DEF In, IsInjective

\* A number for each functor that a queue may hold.
Code(f) == IF f.op = "ConnectDestoryed" THEN f.conn + MaxConns ELSE f.conn

\* If the elements of a queue have different numbers it is not longer than
\* there are numbers.
LEMMA PigeonQueue ==
  ASSUME NEW n \in Nat, NEW m \in Nat, NEW g \in [1..n -> 1..m], IsInjective(g)
  PROVE  n <= m
<1>1. g \in Injection(1..n, 1..m)
  BY DEF Injection, IsInjective
<1>2. IsFiniteSet(1..m) /\ Cardinality(1..m) = m
  BY FS_Interval
<1>3. Cardinality(1..n) = n
  BY FS_Interval
<1> QED BY <1>1, <1>2, <1>3, FS_Injection

\* No queue holds more than two functors for each connection.
LEMMA QueueBound ==
  ASSUME NEW q \in Seq(Functors), IsInjective(q),
         (\A c \in Conns : ~In(q, Est(c))) \/ (\A c \in Conns : ~In(q, Rem(c)))
  PROVE  Len(q) <= 2 * MaxConns
<1> USE ServerAssumption
<1> DEFINE g == [k \in 1..Len(q) |-> Code(q[k])]
<1>1. Len(q) \in Nat /\ DOMAIN q = 1..Len(q) /\ \A k \in 1..Len(q) : q[k] \in Functors
  OBVIOUS
<1>2. \A f \in Functors : Code(f) \in 1..(2 * MaxConns)
  BY DEF Code, Functors, Conns
<1>3. g \in [1..Len(q) -> 1..(2 * MaxConns)]
  BY <1>1, <1>2
<1>4. ASSUME NEW j \in 1..Len(q), NEW k \in 1..Len(q), Code(q[j]) = Code(q[k])
      PROVE  j = k
  <2>1. q[j] \in Functors /\ q[k] \in Functors /\ In(q, q[j]) /\ In(q, q[k])
    BY <1>1 DEF In
  <2>2. q[j].conn = q[k].conn /\ (q[j].op = "ConnectDestoryed" <=> q[k].op = "ConnectDestoryed")
    BY <1>4, <2>1 DEF Code, Functors, Conns
  <2>3. q[j] = q[k]
    <3>1. /\ q[j] = Est(q[j].conn) => q[k] # Rem(q[j].conn)
          /\ q[k] = Est(q[j].conn) => q[j] # Rem(q[j].conn)
      BY <2>1, <2>2 DEF Functors
    <3>2. \A c : Dest(c).op = "ConnectDestoryed" /\ Est(c).op # "ConnectDestoryed"
                   /\ Rem(c).op # "ConnectDestoryed"
      BY DEF Est, Dest, Rem, Functor
    <3> QED BY <2>1, <2>2, <3>1, <3>2, FunctorFacts
  <2> QED BY <1>1, <2>3 DEF IsInjective
<1>5. IsInjective(g)
  BY <1>3, <1>4 DEF IsInjective
<1>6. 2 * MaxConns \in Nat
  OBVIOUS
<1> HIDE DEF g
<1> QED BY <1>1, <1>3, <1>5, <1>6, PigeonQueue

\* That leaves room for a second ConnectDestoryed of a connection that has
\* been established.
LEMMA QueueRoom ==
  ASSUME NEW q \in Seq(Functors), IsInjective(q), \A c \in Conns : ~In(q, Rem(c)),
         NEW d \in Conns, ~In(q, Est(d))
  PROVE  Len(q) + 1 <= 2 * MaxConns
<1> DEFINE t == Append(q, Est(d))
<1>1. t \in Seq(Functors) /\ IsInjective(t) /\ \A c \in Conns : ~In(t, Rem(c))
  BY AppendFacts, FunctorFacts
<1>2. Len(t) = Len(q) + 1
  OBVIOUS
<1> HIDE DEF t
<1> QED BY <1>1, <1>2, QueueBound

-----------------------------------------------------------------------------
(* The server.                                                             *)

\* The invariant holds before the server starts.
LEMMA InitInv == Init => Inv
<1> SUFFICES ASSUME Init PROVE Inv
  OBVIOUS
<1> USE PoolAssumption, ServerAssumption
<1>1. PoolInv
  BY DEF Init, PoolInit, PoolInv, PoolTypeOK, OwnerInv, LifetimeInv, QuitInv, NothingDangles,
         Starting, Ending, Workers
<1>2. functors \in [Loops -> Seq(Functors)] /\ \A l \in Loops : functors[l] = <<>>
  BY DEF Init
<1>3. ServerType
  BY <1>1, <1>2 DEF Init, ServerType, TypeOK, PoolInv, Loops, Conns
<1>4. \A l \in Loops : IsInjective(functors[l])
  BY <1>2, EmptyFacts
<1>5. \A c \in Conns : FreshInv(c)
  BY <1>2, EmptyFacts DEF Init, FreshInv
<1>6. \A c \in Conns : ConnInv(c)
  BY <1>5 DEF Init, ConnInv, Conns
<1> QED BY <1>1, <1>3, <1>4, <1>6 DEF Inv, Init, ServerInv

\* A connection that a step does not concern.
LEMMA KeepConn ==
  ASSUME NEW c \in Conns, ConnInv(c), ~ghost, ghost' \in BOOLEAN, home[c] \in Loops,
         \A l \in Loops, op \in Ops :
           In(functors[l], Functor(op, c)) <=> In(functors'[l], Functor(op, c)),
         Before(functors[home[c]], Est(c), Dest(c)) =>
           Before(functors'[home[c]], Est(c), Dest(c)),
         state_'[c] = state_[c], reports'[c] = reports[c], ended'[c] = ended[c],
         home'[c] = home[c], c \in connections_' <=> c \in connections_,
         c \in registered' => c \in registered,
         worker[home[c]] = "ended" /\ home[c] # 0 => worker'[home[c]] = "ended",
         server' \in {"ready", "serving"} => server \in {"ready", "serving"},
         c >= NextConnectionId_ <=> c >= NextConnectionId_',
         c < NextConnectionId_ <=> c < NextConnectionId_'
  PROVE  ConnInv(c)'
<1>0. /\ In(functors[home[c]], Dest(c)) <=> In(functors'[home[c]], Dest(c))
      /\ In(functors[0], Rem(c)) <=> In(functors'[0], Rem(c))
      /\ \A l \in Loops : /\ In(functors[l], Est(c)) <=> In(functors'[l], Est(c))
                          /\ In(functors[l], Dest(c)) <=> In(functors'[l], Dest(c))
                          /\ In(functors[l], Rem(c)) <=> In(functors'[l], Rem(c))
  BY PoolAssumption DEF Est, Dest, Rem, Ops, Loops
<1>1. FreshInv(c) => FreshInv(c)'
  BY DEF FreshInv
<1>2. ReportInv(c) => ReportInv(c)'
  BY DEF ReportInv
<1>3. PlaceInv(c) => PlaceInv(c)'
  BY <1>0 DEF PlaceInv
<1>4. EstablishInv(c) => EstablishInv(c)'
  BY DEF EstablishInv
<1>5. EndInv(c) => EndInv(c)'
  BY <1>0 DEF EndInv
<1>6. MapInv(c) => MapInv(c)'
  BY <1>0 DEF MapInv
<1> QED BY <1>1, <1>2, <1>3, <1>4, <1>5, <1>6 DEF ConnInv

\* A step that leaves the connections alone.
LEMMA QuietStep ==
  ASSUME Inv, ~ghost, PoolInv', UNCHANGED <<connVars, reports, ended, ghost>>,
         server' \in {"ready", "serving", "closing", "gone"}, outlived' \in BOOLEAN,
         server' = "gone" => phase' = "gone",
         server' \in {"ready", "serving"} => server \in {"ready", "serving"},
         \A w \in Workers : worker[w] = "ended" => worker'[w] = "ended"
  PROVE  Inv'
<1>1. ServerType'
  BY DEF Inv, ServerType, TypeOK, PoolInv, connVars
<1>2. ServerInv'
  BY DEF ServerInv
<1>3. \A l \in Loops : IsInjective(functors'[l])
  BY DEF Inv, connVars
<1>4. ASSUME NEW c \in Conns PROVE ConnInv(c)'
  <2>1. ConnInv(c) /\ home[c] \in Loops /\ ghost' \in BOOLEAN
    BY DEF Inv, ServerType, TypeOK
  <2>2. home[c] # 0 => home[c] \in Workers
    BY <2>1, PoolAssumption DEF Loops, Workers
  <2> QED BY <2>1, <2>2, KeepConn DEF connVars
<1> QED BY <1>1, <1>2, <1>3, <1>4 DEF Inv

\* The parts of the invariant that the steps below use.
LEMMA InvParts ==
  ASSUME Inv, ~ghost
  PROVE  /\ PoolInv /\ PoolTypeOK /\ ServerInv
         /\ functors \in [Loops -> Seq(Functors)]
         /\ home \in [Conns -> Loops] /\ reports \in [Conns -> Nat] /\ ended \in [Conns -> Nat]
         /\ state_ \in [Conns -> States]
         /\ connections_ \subseteq Conns /\ registered \subseteq Conns
         /\ NextConnectionId_ \in 1..(MaxConns + 1)
         /\ server \in {"ready", "serving", "closing", "gone"}
         /\ outlived \in BOOLEAN /\ ghost \in BOOLEAN
         /\ \A l \in Loops : functors[l] \in Seq(Functors) /\ Len(functors[l]) <= 2 * MaxConns
         /\ \A l \in Loops : IsInjective(functors[l])
         /\ \A c \in Conns : /\ c >= NextConnectionId_ => FreshInv(c)
                             /\ c < NextConnectionId_ => /\ ReportInv(c) /\ PlaceInv(c)
                                                         /\ EstablishInv(c) /\ EndInv(c)
                                                         /\ MapInv(c)
                             /\ c < NextConnectionId_ \/ c >= NextConnectionId_
<1>1. \A c \in Conns : c < NextConnectionId_ \/ c >= NextConnectionId_
  BY ServerAssumption DEF Inv, ServerType, TypeOK, Conns
<1> QED BY <1>1 DEF Inv, ServerType, TypeOK, PoolInv, ConnInv, States

\* The lengths of the queues follow from what is in them.
LEMMA Lengths ==
  ASSUME functors' \in [Loops -> Seq(Functors)], \A l \in Loops : IsInjective(functors'[l]),
         \A c \in Conns, l \in Loops :
           /\ In(functors'[l], Est(c)) => l # 0
           /\ In(functors'[l], Rem(c)) => l = 0
  PROVE  \A l \in Loops : Len(functors'[l]) <= 2 * MaxConns
<1> TAKE l \in Loops
<1>1. functors'[l] \in Seq(Functors) /\ IsInjective(functors'[l])
  OBVIOUS
<1>2. (\A c \in Conns : ~In(functors'[l], Est(c))) \/ (\A c \in Conns : ~In(functors'[l], Rem(c)))
  OBVIOUS
<1> QED BY <1>1, <1>2, QueueBound

\* Adding to a queue.
LEMMA QueueFacts ==
  ASSUME functors \in [Loops -> Seq(Functors)], \A l \in Loops : IsInjective(functors[l]),
         NEW m \in Loops, NEW f \in Functors, Queue(m, f)
  PROVE  /\ functors' \in [Loops -> Seq(Functors)]
         /\ \A l \in Loops : l # m => functors'[l] = functors[l]
         /\ functors'[m] = Append(functors[m], f)
         /\ \A l \in Loops : \A g : In(functors'[l], g) <=> In(functors[l], g) \/ (l = m /\ g = f)
         /\ ~In(functors[m], f) => \A l \in Loops : IsInjective(functors'[l])
         /\ \A l \in Loops : \A e, d : Before(functors[l], e, d) => Before(functors'[l], e, d)
<1>1. functors[m] \in Seq(Functors) /\ Append(functors[m], f) \in Seq(Functors)
  OBVIOUS
<1>2. /\ functors' \in [Loops -> Seq(Functors)]
      /\ \A l \in Loops : l # m => functors'[l] = functors[l]
      /\ functors'[m] = Append(functors[m], f)
  BY <1>1 DEF Queue
<1> DEFINE q == functors[m]
           t == Append(q, f)
<1>3. q \in Seq(Functors)
  BY <1>1
<1> HIDE DEF q
<1>4. /\ \A g : In(t, g) <=> In(q, g) \/ g = f
      /\ IsInjective(q) /\ ~In(q, f) => IsInjective(t)
      /\ \A e, d : Before(q, e, d) => Before(t, e, d)
  BY <1>3, AppendFacts
<1>5. functors'[m] = t /\ functors[m] = q
  BY <1>2 DEF q
<1> HIDE DEF t
<1>6. \A l \in Loops : \A g : In(functors'[l], g) <=> In(functors[l], g) \/ (l = m /\ g = f)
  BY <1>2, <1>4, <1>5
<1>7. ~In(functors[m], f) => \A l \in Loops : IsInjective(functors'[l])
  BY <1>2, <1>4, <1>5
<1>8. \A l \in Loops : \A e, d : Before(functors[l], e, d) => Before(functors'[l], e, d)
  BY <1>2, <1>4, <1>5
<1> QED BY <1>2, <1>6, <1>7, <1>8

\* The functors of another connection.
LEMMA OtherFunctor ==
  ASSUME NEW c, NEW d, c # d, NEW op
  PROVE  Functor(op, c) \notin {Est(d), Dest(d), Rem(d)}
BY DEF Functor, Est, Dest, Rem

\* The invariant from its parts, after a step that duplicates nothing.
Typed ==
  /\ server \in {"ready", "serving", "closing", "gone"}
  /\ outlived \in BOOLEAN /\ ghost \in BOOLEAN
  /\ NextConnectionId_ \in 1..(MaxConns + 1)
  /\ connections_ \subseteq Conns /\ registered \subseteq Conns
  /\ home \in [Conns -> Loops] /\ reports \in [Conns -> Nat] /\ ended \in [Conns -> Nat]
  /\ state_ \in [Conns -> States]
  /\ functors \in [Loops -> Seq(Functors)]

Distinct == \A l \in Loops : IsInjective(functors[l])

Placed ==
  \A c \in Conns, l \in Loops : /\ In(functors[l], Est(c)) => l # 0
                                /\ In(functors[l], Rem(c)) => l = 0

AllConnInv == \A c \in Conns : ConnInv(c)

\* The lengths of the queues need not be shown again.
LEMMA Assemble ==
  PoolInv' /\ ServerInv' /\ Typed' /\ Distinct' /\ Placed' /\ AllConnInv' => Inv'
<1> SUFFICES ASSUME PoolInv', ServerInv', Typed', Distinct', Placed', AllConnInv' PROVE Inv'
  OBVIOUS
<1>1. \A l \in Loops : Len(functors'[l]) <= 2 * MaxConns
  BY Lengths DEF Typed, Distinct, Placed
<1>2. ServerType'
  BY <1>1 DEF ServerType, TypeOK, PoolInv, Typed, States
<1> QED BY <1>2 DEF Inv, Distinct, AllConnInv

\* Where functors of any connection are, accepted or not.
LEMMA Places ==
  ASSUME Inv, ~ghost, NEW c \in Conns, NEW l \in Loops
  PROVE  /\ In(functors[l], Est(c)) => /\ l # 0 /\ l = home[c] /\ c < NextConnectionId_
                                       /\ state_[c] = "kConnecting"
         /\ In(functors[l], Dest(c)) => l = home[c] /\ c < NextConnectionId_
         /\ In(functors[l], Rem(c)) => /\ l = 0 /\ home[c] # 0 /\ c < NextConnectionId_
                                       /\ state_[c] = "kDisconnected"
<1>1. CASE c >= NextConnectionId_
  BY <1>1, InvParts DEF FreshInv, Est, Dest, Rem, Ops
<1>2. CASE c < NextConnectionId_
  BY <1>2, InvParts DEF PlaceInv
<1> QED BY <1>1, <1>2, InvParts

\* A connection is accepted: it is established at once, or in its loop.
LEMMA AcceptInv == ASSUME Inv, ~ghost, dangling = {}, HandleRead PROVE Inv'
<1> USE InvParts
<1>a. PICK d \in Conns : d = NextConnectionId_
  BY DEF HandleRead
<1>b. PICK m \in Loops : m = IF loops_ = 0 THEN 0 ELSE next_ + 1
  <2>1. loops_ \in 0..MaxThreads /\ next_ \in 0..(IF loops_ = 0 THEN 0 ELSE loops_ - 1)
    BY DEF PoolTypeOK
  <2>2. (IF loops_ = 0 THEN 0 ELSE next_ + 1) \in 0..MaxThreads
    BY <2>1, PoolAssumption
  <2> QED BY <2>2 DEF Loops
<1>1. /\ d \in Conns /\ d \in Nat /\ MaxConns \in Nat /\ d + 1 \in 1..(MaxConns + 1)
      /\ server = "serving" /\ phase = "running"
  BY <1>a, ServerAssumption DEF HandleRead, Serving, Conns
<1>2. m \in Loops /\ 0 \in Loops
  BY PoolAssumption DEF Loops
<1>3. PoolInv' /\ UNCHANGED worker
  BY GetNextLoopInv DEF HandleRead, NewConnection, GetNextLoop, workerVars
<1>4. /\ NextConnectionId_' = d + 1
      /\ connections_' = connections_ \cup {d}
      /\ home' = [home EXCEPT ![d] = m]
      /\ UNCHANGED <<server, outlived, ghost, ended>>
      /\ \/ /\ m = 0 /\ functors' = functors
            /\ state_' = [state_ EXCEPT ![d] = "kConnected"]
            /\ registered' = registered \cup {d}
            /\ reports' = [reports EXCEPT ![d] = @ + 1]
         \/ /\ m # 0 /\ Queue(m, Est(d))
            /\ state_' = [state_ EXCEPT ![d] = "kConnecting"]
            /\ UNCHANGED <<registered, reports>>
  BY <1>a, <1>b DEF HandleRead, NewConnection, Established, Est
<1>5. FreshInv(d)
  BY <1>a, <1>1
<1>6. /\ \A l \in Loops : ~In(functors[l], Est(d)) /\ ~In(functors[l], Dest(d)) /\ ~In(functors[l], Rem(d))
      /\ d \notin connections_ /\ d \notin registered
      /\ reports[d] = 0 /\ ended[d] = 0
  BY <1>5 DEF FreshInv, Est, Dest, Rem, Ops
<1>7. Est(d) \in Functors
  BY <1>1, FunctorFacts
<1>8. /\ functors' \in [Loops -> Seq(Functors)]
      /\ \A l \in Loops : \A g : In(functors'[l], g) <=> In(functors[l], g) \/ (l = m /\ m # 0 /\ g = Est(d))
      /\ \A l \in Loops : IsInjective(functors'[l])
      /\ \A l \in Loops : \A e, f : Before(functors[l], e, f) => Before(functors'[l], e, f)
  <2>1. CASE m = 0
    BY <1>4, <2>1
  <2>2. CASE m # 0
    <3>1. Queue(m, Est(d))
      BY <1>4, <2>2
    <3> QED BY <1>2, <1>6, <1>7, <2>2, <3>1, QueueFacts
  <2> QED BY <2>1, <2>2
<1>9. m # 0 => Before(functors'[m], Est(d), Dest(d))
  <2> SUFFICES ASSUME m # 0 PROVE Before(functors'[m], Est(d), Dest(d))
    OBVIOUS
  <2>1. functors'[m] = Append(functors[m], Est(d)) /\ functors[m] \in Seq(Functors)
    BY <1>2, <1>4 DEF Queue
  <2>2. ~In(functors[m], Dest(d)) /\ Dest(d) # Est(d)
    BY <1>2, <1>6, FunctorFacts
  <2> QED BY <1>7, <2>1, <2>2, AppendFacts
<1>10. ConnInv(d)'
  <2>1. /\ home'[d] = m /\ d \in connections_' /\ ended'[d] = 0
        /\ \/ m = 0 /\ state_'[d] = "kConnected" /\ reports'[d] = 1
           \/ m # 0 /\ state_'[d] = "kConnecting" /\ reports'[d] = 0
    BY <1>1, <1>4, <1>6
  <2>2. ~(d >= d + 1) /\ d < d + 1
    BY <1>1
  <2>3. ReportInv(d)'
    BY <2>1 DEF ReportInv
  <2>4. PlaceInv(d)'
    BY <1>6, <1>8, <2>1, FunctorFacts DEF PlaceInv
  <2>5. EstablishInv(d)'
    BY <1>9, <2>1 DEF EstablishInv
  <2>6. EndInv(d)'
    BY <1>2, <1>6, <1>8, <2>1, FunctorFacts DEF EndInv
  <2>7. MapInv(d)'
    BY <2>1 DEF MapInv
  <2> QED BY <1>4, <2>2, <2>3, <2>4, <2>5, <2>6, <2>7 DEF ConnInv
<1>11. ASSUME NEW c \in Conns, c # d PROVE ConnInv(c)'
  <2>1. /\ state_'[c] = state_[c] /\ reports'[c] = reports[c] /\ ended'[c] = ended[c]
        /\ home'[c] = home[c] /\ (c \in connections_' <=> c \in connections_)
        /\ (c \in registered' => c \in registered)
    BY <1>4, <1>11
  <2>2. (c >= d <=> c >= d + 1) /\ (c < d <=> c < d + 1)
    BY <1>1, <1>11 DEF Conns
  <2>3. \A l \in Loops, op \in Ops :
           In(functors[l], Functor(op, c)) <=> In(functors'[l], Functor(op, c))
    BY <1>8, <1>11, OtherFunctor
  <2>4. ConnInv(c) /\ home[c] \in Loops
    BY DEF Inv
  <2> QED BY <1>a, <1>3, <1>4, <1>8, <2>1, <2>2, <2>3, <2>4, KeepConn
<1>12. ServerInv'
  BY <1>1, <1>4 DEF ServerInv
<1>13. Typed'
  <2>1. reports[d] + 1 \in Nat
    BY <1>1
  <2>2. reports' \in [Conns -> Nat] /\ home' \in [Conns -> Loops]
          /\ state_' \in [Conns -> States]
    BY <1>1, <1>2, <1>4, <2>1 DEF States
  <2> QED BY <1>1, <1>4, <1>8, <2>2 DEF Typed
<1>14. Placed'
  BY <1>8, Places, FunctorFacts DEF Placed
<1>15. AllConnInv'
  BY <1>10, <1>11 DEF AllConnInv
<1>16. Distinct'
  BY <1>8 DEF Distinct
<1> QED BY <1>3, <1>12, <1>13, <1>14, <1>15, <1>16, Assemble

\* ConnectDestoryed is called for a connection that is not kConnecting.
LEMMA DestoryedFacts ==
  ASSUME Inv, ~ghost, NEW d \in Conns, d < NextConnectionId_, state_[d] # "kConnecting",
         ended[d] = 0, Destoryed(d)
  PROVE  /\ state_' \in [Conns -> States]
         /\ reports' \in [Conns -> Nat] /\ ended' \in [Conns -> Nat]
         /\ registered' = registered \ {d} /\ ended'[d] = 1
         /\ \/ state_'[d] = "kDisconnected" /\ reports'[d] = 2
            \/ /\ state_'[d] = "kDisconnecting" /\ state_[d] = "kDisconnecting"
               /\ reports'[d] = 1
         /\ \A c \in Conns \ {d} : /\ state_'[c] = state_[c] /\ reports'[c] = reports[c]
                                   /\ ended'[c] = ended[c]
<1> USE InvParts
<1>1. \/ state_[d] \in {"kConnected", "kDisconnecting"} /\ reports[d] = 1
      \/ state_[d] = "kDisconnected" /\ reports[d] = 2
  BY DEF ReportInv
<1>2. reports[d] \in Nat /\ reports[d] + 1 \in Nat /\ ended[d] + 1 = 1
  OBVIOUS
<1>3. registered' = registered \ {d} /\ ended' = [ended EXCEPT ![d] = 1]
  BY <1>2 DEF Destoryed
<1>4. CASE state_[d] = "kConnected"
  <2>1. /\ state_' = [state_ EXCEPT ![d] = "kDisconnected"]
        /\ reports' = [reports EXCEPT ![d] = reports[d] + 1]
    BY <1>4 DEF Destoryed
  <2>2. reports[d] + 1 = 2
    BY <1>1, <1>4
  <2> QED BY <1>3, <2>1, <2>2 DEF States
<1>5. CASE state_[d] # "kConnected"
  <2>1. state_' = state_ /\ reports' = reports
    BY <1>5 DEF Destoryed
  <2> QED BY <1>1, <1>3, <1>5, <2>1
<1> QED BY <1>4, <1>5

\* The destructor of the server ends a connection of its map.
LEMMA DestroyConnectionInv ==
  ASSUME Inv, ~ghost, NEW d \in Conns, DestroyConnection(d)
  PROVE  Inv'
<1> USE InvParts
<1>1. /\ server = "closing" /\ d \in connections_ /\ connections_' = connections_ \ {d}
      /\ UNCHANGED <<poolVars, server, NextConnectionId_, home, outlived, ghost>>
  BY DEF DestroyConnection
<1>2. PoolInv' /\ UNCHANGED <<worker, foreign, phase>>
  BY <1>1, PoolUnchanged DEF poolVars, workerVars, ownerVars, historyVars
<1>3. /\ d < NextConnectionId_ /\ home[d] \in Loops /\ 0 \in Loops
      /\ ended[d] = 0 /\ ~In(functors[home[d]], Dest(d)) /\ Dest(d) \in Functors
  BY <1>1, FunctorFacts, PoolAssumption DEF FreshInv, EndInv, Loops
<1>4. PICK m \in Loops : m = home[d]
  BY <1>3
<1>n. ~(d >= NextConnectionId_)
  BY <1>3 DEF Conns
<1>5. /\ functors' \in [Loops -> Seq(Functors)]
      /\ \A l \in Loops : \A g : In(functors'[l], g) <=> In(functors[l], g) \/ (l = m /\ m # 0 /\ g = Dest(d))
      /\ \A l \in Loops : IsInjective(functors'[l])
      /\ \A l \in Loops : \A e, f : Before(functors[l], e, f) => Before(functors'[l], e, f)
  <2>1. CASE m = 0
    <3>1. functors' = functors
      BY <1>4, <2>1 DEF DestroyConnection
    <3> QED BY <2>1, <3>1
  <2>2. CASE m # 0
    <3>1. Queue(m, Dest(d))
      BY <1>4, <2>2 DEF DestroyConnection, Dest
    <3> QED BY <1>3, <1>4, <2>2, <3>1, QueueFacts
  <2> QED BY <2>1, <2>2
<1>6. /\ state_' \in [Conns -> States]
      /\ reports' \in [Conns -> Nat] /\ ended' \in [Conns -> Nat]
      /\ registered' \subseteq registered
      /\ m = 0 => /\ ended'[d] = 1 /\ d \notin registered'
                  /\ \/ state_'[d] = "kDisconnected" /\ reports'[d] = 2
                     \/ /\ state_'[d] = "kDisconnecting" /\ state_[d] = "kDisconnecting"
                        /\ reports'[d] = 1
      /\ m # 0 => state_'[d] = state_[d] /\ reports'[d] = reports[d] /\ ended'[d] = 0
      /\ \A c \in Conns \ {d} : /\ state_'[c] = state_[c] /\ reports'[c] = reports[c]
                                /\ ended'[c] = ended[c]
  <2>1. CASE m = 0
    <3>1. Destoryed(d) /\ state_[d] # "kConnecting"
      BY <1>3, <1>4, <2>1 DEF DestroyConnection, EstablishInv
    <3> QED BY <1>3, <2>1, <3>1, DestoryedFacts
  <2>2. CASE m # 0
    BY <1>3, <1>4, <2>2 DEF DestroyConnection
  <2> QED BY <2>1, <2>2
<1>7. ConnInv(d)'
  <2>1. home'[d] = m /\ d \notin connections_' /\ server' = "closing"
    BY <1>1, <1>4
  <2>2. ReportInv(d)'
    BY <1>3, <1>6 DEF ReportInv
  <2>3. PlaceInv(d)'
    <3>1. m = 0 => state_[d] # "kConnecting"
      BY <1>3, <1>4 DEF EstablishInv
    <3>2. PlaceInv(d)
      BY <1>3
    <3> QED BY <1>4, <1>5, <1>6, <2>1, <3>1, <3>2, FunctorFacts DEF PlaceInv
  <2>4. EstablishInv(d)'
    BY <1>2, <1>3, <1>4, <1>5, <1>6, <2>1 DEF EstablishInv
  <2>5. EndInv(d)'
    BY <1>3, <1>4, <1>5, <1>6, <2>1 DEF EndInv
  <2>6. MapInv(d)'
    BY <1>6, <2>1 DEF MapInv
  <2> QED BY <1>1, <1>n, <2>2, <2>3, <2>4, <2>5, <2>6 DEF ConnInv
<1>8. ASSUME NEW c \in Conns, c # d PROVE ConnInv(c)'
  <2>1. \A l \in Loops, op \in Ops :
           In(functors[l], Functor(op, c)) <=> In(functors'[l], Functor(op, c))
    <3>1. \A op \in Ops : Functor(op, c) # Dest(d)
      BY <1>8, OtherFunctor
    <3> QED BY <1>5, <3>1
  <2>2. ConnInv(c) /\ home[c] \in Loops
    BY DEF Inv
  <2> QED BY <1>1, <1>2, <1>5, <1>6, <1>8, <2>1, <2>2, KeepConn
<1>9. ServerInv'
  BY <1>1, <1>2 DEF ServerInv
<1>10. Typed'
  BY <1>1, <1>5, <1>6 DEF Typed
<1>11. Placed'
  BY <1>5, Places, FunctorFacts DEF Placed
<1>12. AllConnInv'
  BY <1>7, <1>8 DEF AllConnInv
<1>13. Distinct'
  BY <1>5 DEF Distinct
<1> QED BY <1>2, <1>9, <1>10, <1>11, <1>12, <1>13, Assemble

\* A loop that runs after the server's end is the base loop, or someone else
\* has told the loop to quit.
LEMMA LateLoop ==
  ASSUME Inv, ~ghost, server = "gone", NEW l \in Loops, Looping(l)
  PROVE  outlived \/ foreign # {}
<1> USE InvParts
<1>1. CASE l = 0
  BY <1>1 DEF Looping, Serving
<1>2. CASE l # 0
  <2>1. l \in Workers /\ worker[l] = "looping" /\ phase = "gone"
    BY <1>2, PoolAssumption DEF Looping, At, Loops, Workers, ServerInv
  <2>2. ~exists[l]
    BY <2>1 DEF PoolInv, LifetimeInv, Starting, Ending
  <2>4. l <= loops_
    <3>1. ~(l > loops_)
      BY <2>1 DEF PoolInv, OwnerInv
    <3>2. l \in Nat /\ loops_ \in Nat
      BY <2>1, PoolAssumption DEF PoolTypeOK, Workers
    <3> QED BY <3>1, <3>2
  <2>3. l \in foreign
    BY <2>1, <2>2, <2>4 DEF PoolInv, QuitInv
  <2> QED BY <2>3
<1> QED BY <1>1, <1>2

\* The peer ends a connection.
LEMMA HandleCloseInv ==
  ASSUME Inv, ~ghost, NEW d \in Conns, HandleClose(d)
  PROVE  Inv'
<1> USE InvParts
<1>1. /\ Open(d) /\ Looping(home[d])
      /\ state_' = [state_ EXCEPT ![d] = "kDisconnected"]
      /\ reports' = [reports EXCEPT ![d] = @ + 1]
      /\ ghost' = (ghost \/ server = "gone")
      /\ UNCHANGED <<poolVars, server, NextConnectionId_, home, registered, ended, outlived>>
  BY DEF HandleClose
<1>2. PoolInv' /\ UNCHANGED <<worker, foreign, phase>>
  BY <1>1, PoolUnchanged DEF poolVars, workerVars, ownerVars, historyVars
<1>3. /\ d < NextConnectionId_ /\ home[d] \in Loops /\ 0 \in Loops
      /\ reports[d] = 1 /\ ended[d] = 0
      /\ Dest(d) \in Functors /\ Rem(d) \in Functors
      /\ \A l \in Loops : ~In(functors[l], Est(d)) /\ ~In(functors[l], Rem(d))
  BY <1>1, FunctorFacts, PoolAssumption DEF Open, FreshInv, ReportInv, PlaceInv, Loops
<1>4. PICK m \in Loops : m = home[d]
  BY <1>3
<1>n. ~(d >= NextConnectionId_)
  BY <1>3 DEF Conns
<1>5. m = 0 => d \in connections_ /\ ~In(functors[m], Dest(d))
  BY <1>1, <1>3, <1>4 DEF Open, MapInv, EndInv
<1>6. PICK f \in Functors : f = IF m = 0 THEN Dest(d) ELSE Rem(d)
  BY <1>3
<1>7. Queue(0, f)
  <2>1. CASE m = 0
    <3>1. /\ functors' = [[functors EXCEPT ![0] = @] EXCEPT ![0] = Append(@, Dest(d))]
      BY <1>4, <2>1 DEF HandleClose, Removed, Dest
    <3> QED BY <1>6, <2>1, <3>1, <1>3 DEF Queue
  <2>2. CASE m # 0
    BY <1>4, <1>6, <2>2 DEF HandleClose, Rem
  <2> QED BY <2>1, <2>2
<1>8. ~In(functors[0], f)
  BY <1>3, <1>5, <1>6
<1>9. /\ functors' \in [Loops -> Seq(Functors)]
      /\ \A l \in Loops : \A g : In(functors'[l], g) <=> In(functors[l], g) \/ (l = 0 /\ g = f)
      /\ \A l \in Loops : IsInjective(functors'[l])
      /\ \A l \in Loops : \A e, g : Before(functors[l], e, g) => Before(functors'[l], e, g)
  BY <1>3, <1>7, <1>8, QueueFacts
<1>10. connections_' = IF m = 0 THEN connections_ \ {d} ELSE connections_
  BY <1>4 DEF HandleClose, Removed
<1>11. ConnInv(d)'
  <2>1. /\ home'[d] = m /\ state_'[d] = "kDisconnected" /\ reports'[d] = 2 /\ ended'[d] = 0
        /\ server' = server
    BY <1>1, <1>3, <1>4
  <2>2. ReportInv(d)'
    BY <2>1 DEF ReportInv
  <2>3. PlaceInv(d)'
    <3>1. PlaceInv(d)
      BY <1>3
    <3> QED BY <1>3, <1>4, <1>6, <1>9, <2>1, <3>1, FunctorFacts DEF PlaceInv
  <2>4. EstablishInv(d)'
    BY <2>1 DEF EstablishInv
  <2>5. EndInv(d)'
    <3>1. EndInv(d)
      BY <1>3
    <3>2. CASE m = 0
      BY <1>3, <1>6, <1>9, <1>10, <2>1, <3>2 DEF EndInv
    <3>3. CASE m # 0
      <4>1. In(functors'[m], Dest(d)) <=> In(functors[m], Dest(d))
        BY <1>9, <3>3
      <4> QED BY <1>2, <1>3, <1>4, <1>10, <2>1, <3>1, <3>3, <4>1 DEF EndInv
    <3> QED BY <3>2, <3>3
  <2>6. MapInv(d)'
    <3>1. MapInv(d)
      BY <1>3
    <3> QED BY <1>1, <1>3, <1>6, <1>9, <1>10, <2>1, <3>1, FunctorFacts DEF Open, MapInv
  <2> QED BY <1>1, <1>n, <2>2, <2>3, <2>4, <2>5, <2>6 DEF ConnInv
<1>12. ASSUME NEW c \in Conns, c # d PROVE ConnInv(c)'
  <2>1. \A l \in Loops, op \in Ops :
           In(functors[l], Functor(op, c)) <=> In(functors'[l], Functor(op, c))
    BY <1>6, <1>9, <1>12, OtherFunctor
  <2>2. ConnInv(c) /\ home[c] \in Loops
    BY DEF Inv
  <2>3. ghost' \in BOOLEAN
    BY <1>1
  <2>4. /\ state_'[c] = state_[c] /\ reports'[c] = reports[c] /\ ended'[c] = ended[c]
        /\ home'[c] = home[c] /\ (c \in connections_' <=> c \in connections_)
    BY <1>1, <1>10, <1>12
  <2> QED BY <1>1, <1>2, <1>9, <2>1, <2>2, <2>3, <2>4, KeepConn
<1>13. ServerInv'
  BY <1>1, <1>2, <1>3, LateLoop DEF ServerInv
<1>14. Typed'
  <2>1. reports' \in [Conns -> Nat] /\ ghost' \in BOOLEAN
    BY <1>1, <1>3
  <2> QED BY <1>1, <1>9, <1>10, <2>1 DEF Typed, States
<1>15. Placed'
  BY <1>6, <1>9, Places, FunctorFacts DEF Placed
<1>16. AllConnInv'
  BY <1>11, <1>12 DEF AllConnInv
<1>17. Distinct'
  BY <1>9 DEF Distinct
<1> QED BY <1>2, <1>13, <1>14, <1>15, <1>16, <1>17, Assemble

\* shutdown() changes the state of one open connection.
LEMMA ShutdownInv ==
  ASSUME Inv, ~ghost, NEW d \in Conns, Shutdown(d)
  PROVE  Inv'
<1> USE InvParts
<1>1. /\ state_[d] = "kConnected" /\ state_' = [state_ EXCEPT ![d] = "kDisconnecting"]
      /\ UNCHANGED <<poolVars, server, NextConnectionId_, connections_, functors, home,
                     registered, reports, ended, outlived, ghost>>
  BY DEF Shutdown, serverHistory
<1>2. PoolInv' /\ UNCHANGED <<worker, foreign, phase>>
  BY <1>1, PoolUnchanged DEF poolVars, workerVars, ownerVars, historyVars
<1>3. d < NextConnectionId_ /\ ~(d >= NextConnectionId_)
  <2>1. d < NextConnectionId_
    BY <1>1 DEF FreshInv
  <2> QED BY <2>1 DEF Conns
<1>4. state_'[d] = "kDisconnecting" /\ state_' \in [Conns -> States]
  BY <1>1 DEF States
<1>5. ConnInv(d)'
  <2>1. ReportInv(d) /\ PlaceInv(d) /\ EstablishInv(d) /\ EndInv(d) /\ MapInv(d)
    BY <1>3
  <2>2. ReportInv(d)'
    BY <1>1, <1>4, <2>1 DEF ReportInv
  <2>3. PlaceInv(d)'
    BY <1>1, <1>4, <2>1 DEF PlaceInv
  <2>4. EstablishInv(d)' /\ EndInv(d)'
    BY <1>1, <1>2, <1>4, <2>1 DEF EstablishInv, EndInv
  <2>5. MapInv(d)'
    BY <1>1, <1>4, <2>1 DEF MapInv
  <2> QED BY <1>1, <1>3, <2>2, <2>3, <2>4, <2>5 DEF ConnInv
<1>6. ASSUME NEW c \in Conns, c # d PROVE ConnInv(c)'
  <2>1. ConnInv(c) /\ home[c] \in Loops /\ ghost' \in BOOLEAN /\ state_'[c] = state_[c]
    BY <1>1, <1>6 DEF Inv
  <2> QED BY <1>1, <1>2, <2>1, KeepConn
<1>7. ServerInv'
  BY <1>1, <1>2 DEF ServerInv
<1>8. Typed' /\ Distinct'
  BY <1>1, <1>4 DEF Typed, Distinct
<1>9. Placed'
  BY <1>1, Places DEF Placed
<1>10. AllConnInv'
  BY <1>5, <1>6 DEF AllConnInv
<1> QED BY <1>2, <1>7, <1>8, <1>9, <1>10, Assemble

\* Taking from a queue.
LEMMA PopFacts ==
  ASSUME functors \in [Loops -> Seq(Functors)], \A l \in Loops : IsInjective(functors[l]),
         NEW m \in Loops, functors[m] # <<>>,
         functors' = [functors EXCEPT ![m] = Tail(@)]
  PROVE  /\ functors' \in [Loops -> Seq(Functors)]
         /\ Head(functors[m]) \in Functors /\ In(functors[m], Head(functors[m]))
         /\ \A l \in Loops : \A g : In(functors'[l], g) <=>
              In(functors[l], g) /\ ~(l = m /\ g = Head(functors[m]))
         /\ \A l \in Loops : IsInjective(functors'[l])
         /\ \A l \in Loops : \A e, d :
              Before(functors[l], e, d) /\ ~(l = m /\ e = Head(functors[m])) => Before(functors'[l], e, d)
         /\ \A e, d : e # d /\ Before(functors[m], e, d) => Head(functors[m]) # d
<1> DEFINE q == functors[m]
           t == Tail(q)
           h == Head(q)
<1>1. q \in Seq(Functors) /\ q # <<>> /\ IsInjective(q)
  OBVIOUS
<1>2. /\ h \in Functors /\ In(q, h) /\ t \in Seq(Functors)
      /\ \A g : In(q, g) <=> In(t, g) \/ g = h
      /\ IsInjective(q) => IsInjective(t) /\ ~In(t, h)
      /\ \A e, d : e # d /\ Before(q, e, d) => h # d
      /\ \A e, d : Before(q, e, d) /\ h # e => Before(t, e, d)
  <2> HIDE DEF q
  <2> QED BY <1>1, TailFacts
<1>3. /\ functors' \in [Loops -> Seq(Functors)]
      /\ \A l \in Loops : l # m => functors'[l] = functors[l]
      /\ functors'[m] = t /\ functors[m] = q
  BY <1>2
<1> HIDE DEF t, h, q
<1>4. \A l \in Loops : \A g : In(functors'[l], g) <=> In(functors[l], g) /\ ~(l = m /\ g = h)
  BY <1>1, <1>2, <1>3
<1>5. \A l \in Loops : IsInjective(functors'[l])
  BY <1>1, <1>2, <1>3
<1>6. \A l \in Loops : \A e, d :
        Before(functors[l], e, d) /\ ~(l = m /\ e = h) => Before(functors'[l], e, d)
  BY <1>2, <1>3
<1> QED BY <1>2, <1>3, <1>4, <1>5, <1>6 DEF q, h

\* A functor that runs belongs to a connection that was accepted.
LEMMA RunFacts ==
  ASSUME Inv, ~ghost, NEW l \in Loops, RunFunctor(l)
  PROVE  /\ functors[l] # <<>> /\ Looping(l)
         /\ Head(functors[l]) \in Functors /\ In(functors[l], Head(functors[l]))
         /\ Head(functors[l]).conn \in Conns
         /\ Head(functors[l]).conn < NextConnectionId_
         /\ ~(Head(functors[l]).conn >= NextConnectionId_)
         /\ UNCHANGED <<poolVars, server, NextConnectionId_, home, outlived>>
         /\ PoolInv' /\ UNCHANGED <<worker, foreign, phase>>
<1> USE InvParts
<1>1. functors[l] \in Seq(Functors) /\ functors[l] # <<>> /\ Looping(l)
      /\ UNCHANGED <<poolVars, server, NextConnectionId_, home, outlived>>
  BY DEF RunFunctor, HasWork
<1>2. PICK f \in Functors : f = Head(functors[l]) /\ In(functors[l], f)
  BY <1>1, TailFacts
<1>3. PICK d \in Conns : d = f.conn
  BY FunctorFacts
<1>4. f \in {Est(d), Dest(d), Rem(d)}
  BY <1>3, FunctorFacts
<1>5. d < NextConnectionId_
  BY <1>2, <1>4, Places
<1>6. ~(d >= NextConnectionId_)
  BY <1>5 DEF Conns
<1>7. PoolInv' /\ UNCHANGED <<worker, foreign, phase>>
  BY <1>1, PoolUnchanged DEF poolVars, workerVars, ownerVars, historyVars
<1> QED BY <1>1, <1>2, <1>3, <1>5, <1>6, <1>7

\* ConnectEstablished runs in the loop of the connection.
LEMMA RunEstInv ==
  ASSUME Inv, ~ghost, NEW l \in Loops, RunFunctor(l),
         Head(functors[l]).op = "ConnectEstablished"
  PROVE  Inv'
<1> USE InvParts
<1>1. PICK f \in Functors : f = Head(functors[l])
  BY RunFacts
<1>2. PICK d \in Conns : d = f.conn
  BY FunctorFacts
<1>3. /\ Established(d) /\ functors' = [functors EXCEPT ![l] = Tail(@)]
      /\ UNCHANGED <<connections_, ghost>>
  BY <1>1, <1>2 DEF RunFunctor
<1>4. /\ PoolInv' /\ UNCHANGED <<worker, foreign, phase>>
      /\ UNCHANGED <<server, NextConnectionId_, home, outlived>>
      /\ d < NextConnectionId_ /\ ~(d >= NextConnectionId_)
      /\ functors[l] # <<>> /\ In(functors[l], f)
  BY <1>1, <1>2, RunFacts
<1>5. f = Est(d)
  BY <1>1, <1>2, FunctorFacts
<1>6. l = home[d] /\ l # 0 /\ state_[d] = "kConnecting" /\ reports[d] = 0 /\ ended[d] = 0
  <2>1. l = home[d] /\ l # 0 /\ state_[d] = "kConnecting" /\ ReportInv(d)
    BY <1>4, <1>5, Places
  <2>2. reports[d] = 0 /\ ~(ended[d] > 0) /\ ended[d] \in Nat
    BY <2>1 DEF ReportInv
  <2> QED BY <2>1, <2>2
<1>7. /\ state_' = [state_ EXCEPT ![d] = "kConnected"]
      /\ registered' = registered \cup {d}
      /\ reports' = [reports EXCEPT ![d] = 1]
      /\ UNCHANGED ended
  BY <1>3, <1>6 DEF Established
<1>8. /\ functors' \in [Loops -> Seq(Functors)]
      /\ \A k \in Loops : \A g : In(functors'[k], g) <=> In(functors[k], g) /\ ~(k = l /\ g = Est(d))
      /\ \A k \in Loops : IsInjective(functors'[k])
      /\ \A k \in Loops : \A e, g : Before(functors[k], e, g) /\ ~(k = l /\ e = Est(d)) => Before(functors'[k], e, g)
  <2>1. /\ functors' \in [Loops -> Seq(Functors)]
        /\ \A k \in Loops : \A g : In(functors'[k], g) <=>
             In(functors[k], g) /\ ~(k = l /\ g = Head(functors[l]))
        /\ \A k \in Loops : IsInjective(functors'[k])
        /\ \A k \in Loops : \A e, g :
             Before(functors[k], e, g) /\ ~(k = l /\ e = Head(functors[l])) => Before(functors'[k], e, g)
    BY <1>3, <1>4, PopFacts
  <2> QED BY <1>1, <1>5, <2>1
<1>9. ConnInv(d)'
  <2>1. /\ home'[d] = l /\ state_'[d] = "kConnected" /\ reports'[d] = 1 /\ ended'[d] = 0
        /\ PlaceInv(d) /\ EndInv(d) /\ MapInv(d)
    BY <1>4, <1>6, <1>7
  <2>2. ReportInv(d)'
    BY <2>1 DEF ReportInv
  <2>3. PlaceInv(d)'
    BY <1>6, <1>8, <2>1, FunctorFacts DEF PlaceInv
  <2>4. EstablishInv(d)'
    BY <2>1 DEF EstablishInv
  <2>5. EndInv(d)'
    <3>1. In(functors'[l], Dest(d)) <=> In(functors[l], Dest(d))
      BY <1>8, FunctorFacts
    <3> QED BY <1>3, <1>4, <1>6, <2>1, <3>1 DEF EndInv
  <2>6. MapInv(d)'
    BY <1>3, <1>4, <1>6, <2>1 DEF MapInv
  <2> QED BY <1>4, <2>2, <2>3, <2>4, <2>5, <2>6 DEF ConnInv
<1>10. ASSUME NEW c \in Conns, c # d PROVE ConnInv(c)'
  <2>1. \A op \in Ops : Functor(op, c) # Est(d)
    BY <1>10, OtherFunctor
  <2>2. \A k \in Loops, op \in Ops :
           In(functors[k], Functor(op, c)) <=> In(functors'[k], Functor(op, c))
    BY <1>8, <2>1
  <2>3. ConnInv(c) /\ home[c] \in Loops /\ ghost' \in BOOLEAN /\ Est(c) # Est(d)
    BY <1>3, <1>10, FunctorFacts DEF Inv
  <2>4. /\ state_'[c] = state_[c] /\ reports'[c] = reports[c] /\ ended'[c] = ended[c]
        /\ home'[c] = home[c] /\ (c \in connections_' <=> c \in connections_)
        /\ (c \in registered' => c \in registered)
    BY <1>3, <1>4, <1>7, <1>10
  <2> QED BY <1>4, <1>8, <2>2, <2>3, <2>4, KeepConn
<1>11. ServerInv'
  BY <1>3, <1>4 DEF ServerInv
<1>12. Typed'
  BY <1>3, <1>4, <1>7, <1>8 DEF Typed, States
<1>13. Placed'
  BY <1>8, Places DEF Placed
<1>14. AllConnInv'
  BY <1>9, <1>10 DEF AllConnInv
<1>15. Distinct'
  BY <1>8 DEF Distinct
<1> QED BY <1>4, <1>11, <1>12, <1>13, <1>14, <1>15, Assemble

\* ConnectDestoryed runs in the loop of the connection, after
\* ConnectEstablished.
LEMMA RunDestInv ==
  ASSUME Inv, ~ghost, NEW l \in Loops, RunFunctor(l),
         Head(functors[l]).op = "ConnectDestoryed"
  PROVE  Inv'
<1> USE InvParts
<1>1. PICK f \in Functors : f = Head(functors[l])
  BY RunFacts
<1>2. PICK d \in Conns : d = f.conn
  BY FunctorFacts
<1>3. /\ Destoryed(d) /\ functors' = [functors EXCEPT ![l] = Tail(@)]
      /\ UNCHANGED <<connections_, ghost>>
  BY <1>1, <1>2 DEF RunFunctor
<1>4. /\ PoolInv' /\ UNCHANGED <<worker, foreign, phase>>
      /\ UNCHANGED <<server, NextConnectionId_, home, outlived>>
      /\ d < NextConnectionId_ /\ ~(d >= NextConnectionId_)
      /\ functors[l] # <<>> /\ In(functors[l], f) /\ Looping(l)
  BY <1>1, <1>2, RunFacts
<1>5. f = Dest(d)
  BY <1>1, <1>2, FunctorFacts
<1>6. l = home[d] /\ ended[d] = 0 /\ d \notin connections_
  BY <1>4, <1>5, Places DEF EndInv
<1>7. /\ functors' \in [Loops -> Seq(Functors)]
      /\ \A k \in Loops : \A g : In(functors'[k], g) <=> In(functors[k], g) /\ ~(k = l /\ g = Dest(d))
      /\ \A k \in Loops : IsInjective(functors'[k])
      /\ \A k \in Loops : \A e, g : Before(functors[k], e, g) /\ ~(k = l /\ e = Dest(d)) => Before(functors'[k], e, g)
      /\ \A e, g : e # g /\ Before(functors[l], e, g) => g # Dest(d)
  <2>1. /\ functors' \in [Loops -> Seq(Functors)]
        /\ \A k \in Loops : \A g : In(functors'[k], g) <=>
             In(functors[k], g) /\ ~(k = l /\ g = Head(functors[l]))
        /\ \A k \in Loops : IsInjective(functors'[k])
        /\ \A k \in Loops : \A e, g :
             Before(functors[k], e, g) /\ ~(k = l /\ e = Head(functors[l])) => Before(functors'[k], e, g)
        /\ \A e, g : e # g /\ Before(functors[l], e, g) => Head(functors[l]) # g
    BY <1>3, <1>4, PopFacts
  <2> QED BY <1>1, <1>5, <2>1
<1>8. state_[d] # "kConnecting"
  <2> SUFFICES ASSUME state_[d] = "kConnecting" PROVE FALSE
    OBVIOUS
  <2>1. l # 0 /\ (worker[l] = "ended" \/ Before(functors[l], Est(d), Dest(d)))
    BY <1>4, <1>6 DEF EstablishInv
  <2>2. worker[l] = "looping"
    BY <1>4, <2>1 DEF Looping, At
  <2> QED BY <1>7, <2>1, <2>2, FunctorFacts
<1>9. /\ state_' \in [Conns -> States]
      /\ reports' \in [Conns -> Nat] /\ ended' \in [Conns -> Nat]
      /\ registered' = registered \ {d} /\ ended'[d] = 1
      /\ \/ state_'[d] = "kDisconnected" /\ reports'[d] = 2
         \/ /\ state_'[d] = "kDisconnecting" /\ state_[d] = "kDisconnecting"
            /\ reports'[d] = 1
      /\ \A c \in Conns \ {d} : /\ state_'[c] = state_[c] /\ reports'[c] = reports[c]
                                /\ ended'[c] = ended[c]
  BY <1>3, <1>4, <1>6, <1>8, DestoryedFacts
<1>10. ConnInv(d)'
  <2>1. /\ home'[d] = l /\ PlaceInv(d) /\ MapInv(d) /\ l \in Loops
    BY <1>4, <1>6
  <2>2. ReportInv(d)'
    BY <1>9 DEF ReportInv
  <2>3. PlaceInv(d)'
    <3>1. \A k \in Loops : ~In(functors[k], Est(d))
      BY <1>8, <2>1 DEF PlaceInv
    <3> QED BY <1>4, <1>6, <1>7, <1>9, <2>1, <3>1 DEF PlaceInv
  <2>4. EstablishInv(d)'
    BY <1>9 DEF EstablishInv
  <2>5. EndInv(d)'
    <3>1. ~In(functors'[l], Dest(d)) /\ d \notin connections_'
      BY <1>3, <1>6, <1>7
    <3> QED BY <1>9, <2>1, <3>1 DEF EndInv
  <2>6. MapInv(d)'
    <3>1. 0 \in Loops
      BY PoolAssumption DEF Loops
    <3> QED BY <1>3, <1>4, <1>7, <1>9, <2>1, <3>1 DEF MapInv
  <2> QED BY <1>4, <2>2, <2>3, <2>4, <2>5, <2>6 DEF ConnInv
<1>11. ASSUME NEW c \in Conns, c # d PROVE ConnInv(c)'
  <2>1. \A op \in Ops : Functor(op, c) # Dest(d)
    BY <1>11, OtherFunctor
  <2>2. \A k \in Loops, op \in Ops :
           In(functors[k], Functor(op, c)) <=> In(functors'[k], Functor(op, c))
    BY <1>7, <2>1
  <2>3. ConnInv(c) /\ home[c] \in Loops /\ ghost' \in BOOLEAN /\ Est(c) # Dest(d)
    BY <1>3, FunctorFacts DEF Inv
  <2>4. /\ home'[c] = home[c] /\ (c \in connections_' <=> c \in connections_)
        /\ (c \in registered' => c \in registered)
        /\ state_'[c] = state_[c] /\ reports'[c] = reports[c] /\ ended'[c] = ended[c]
    BY <1>3, <1>4, <1>9, <1>11
  <2> QED BY <1>4, <1>7, <2>2, <2>3, <2>4, KeepConn
<1>12. ServerInv'
  BY <1>3, <1>4 DEF ServerInv
<1>13. Typed'
  BY <1>3, <1>4, <1>7, <1>9 DEF Typed
<1>14. Placed'
  BY <1>7, Places DEF Placed
<1>15. AllConnInv'
  BY <1>10, <1>11 DEF AllConnInv
<1>16. Distinct'
  BY <1>7 DEF Distinct
<1> QED BY <1>4, <1>12, <1>13, <1>14, <1>15, <1>16, Assemble

\* RemoveConnectionInLoop runs in the base loop: it finds the connection in
\* the map, or the server is gone.
LEMMA RunRemInv ==
  ASSUME Inv, ~ghost, NEW l \in Loops, RunFunctor(l),
         Head(functors[l]).op = "RemoveConnectionInLoop"
  PROVE  Inv'
<1> USE InvParts
<1>1. PICK f \in Functors : f = Head(functors[l])
  BY RunFacts
<1>2. PICK d \in Conns : d = f.conn
  BY FunctorFacts
<1>3. /\ Removed(d) /\ ghost' = (ghost \/ server = "gone")
      /\ UNCHANGED <<state_, registered, reports, ended>>
  BY <1>1, <1>2 DEF RunFunctor
<1>4. /\ PoolInv' /\ UNCHANGED <<worker, foreign, phase>>
      /\ UNCHANGED <<server, NextConnectionId_, home, outlived>>
      /\ d < NextConnectionId_ /\ ~(d >= NextConnectionId_)
      /\ functors[l] # <<>> /\ In(functors[l], f) /\ Looping(l)
  BY <1>1, <1>2, RunFacts
<1>5. f = Rem(d) /\ Dest(d) \in Functors
  BY <1>1, <1>2, FunctorFacts
<1>6. l = 0 /\ home[d] # 0 /\ state_[d] = "kDisconnected"
  BY <1>4, <1>5, Places
<1>7. PICK m \in Loops : m = home[d]
  OBVIOUS
<1>8. /\ functors' = [[functors EXCEPT ![0] = Tail(@)] EXCEPT ![m] = Append(@, Dest(d))]
      /\ connections_' = connections_ \ {d} /\ m # 0
  BY <1>3, <1>6, <1>7 DEF Removed, Dest
<1> DEFINE q == functors[0]
           p == functors[m]
           a == Append(p, Dest(d))
<1>9. /\ q \in Seq(Functors) /\ p \in Seq(Functors) /\ IsInjective(q) /\ IsInjective(p) /\ q # <<>>
  BY <1>4, <1>6
<1>10. a \in Seq(Functors) /\ Tail(q) \in Seq(Functors) /\ Len(a) = Len(p) + 1
  <2> HIDE DEF p, q
  <2> QED BY <1>5, <1>9
<1>11. /\ functors' \in [Loops -> Seq(Functors)]
       /\ functors'[0] = Tail(q) /\ functors'[m] = a
       /\ \A k \in Loops \ {0, m} : functors'[k] = functors[k]
  BY <1>6, <1>8, <1>9, <1>10
<1>12. /\ \A g : In(q, g) <=> In(Tail(q), g) \/ g = Rem(d)
       /\ IsInjective(Tail(q)) /\ ~In(Tail(q), Rem(d))
       /\ \A e, g : Before(q, e, g) /\ Rem(d) # e => Before(Tail(q), e, g)
  <2>1. Head(q) = Rem(d)
    BY <1>1, <1>5, <1>6
  <2> HIDE DEF q
  <2> QED BY <1>9, <2>1, TailFacts
<1>13. /\ \A g : In(a, g) <=> In(p, g) \/ g = Dest(d)
       /\ ~In(p, Dest(d)) => IsInjective(a)
       /\ \A e, g : Before(p, e, g) => Before(a, e, g)
  <2> HIDE DEF p
  <2> QED BY <1>5, <1>9, AppendFacts
<1>14. \A k \in Loops : \A g :
         In(functors'[k], g) <=> \/ In(functors[k], g) /\ ~(k = 0 /\ g = Rem(d))
                                 \/ k = m /\ g = Dest(d)
  <2> HIDE DEF a
  <2> QED BY <1>8, <1>11, <1>12, <1>13
<1>15. \A k \in Loops : \A e, g : Before(functors[k], e, g) /\ e # Rem(d) => Before(functors'[k], e, g)
  <2> HIDE DEF a
  <2> QED BY <1>11, <1>12, <1>13
<1>16. ~In(p, Dest(d)) => \A k \in Loops : IsInjective(functors'[k])
  <2> HIDE DEF a
  <2> QED BY <1>11, <1>12, <1>13
<1>17. \A c \in Conns : c # d => \A k \in Loops, op \in Ops :
           In(functors[k], Functor(op, c)) <=> In(functors'[k], Functor(op, c))
  <2> SUFFICES ASSUME NEW c \in Conns, c # d
               PROVE  \A k \in Loops, op \in Ops :
                        In(functors[k], Functor(op, c)) <=> In(functors'[k], Functor(op, c))
    OBVIOUS
  <2>1. \A op \in Ops : Functor(op, c) # Dest(d) /\ Functor(op, c) # Rem(d)
    BY OtherFunctor
  <2> QED BY <1>14, <2>1
<1>18. Placed'
  BY <1>14, Places, FunctorFacts DEF Placed
<1> HIDE DEF a, p, q
<1>19. CASE server # "gone"
  <2>1. server = "serving" /\ ghost' = FALSE
    BY <1>3, <1>4, <1>6, <1>19 DEF Looping, Serving
  <2>2. /\ PlaceInv(d) /\ EndInv(d) /\ MapInv(d) /\ ReportInv(d) /\ 0 \in Loops
    BY <1>4, <1>6
  <2>3. d \in connections_ /\ ended[d] = 0 /\ ~In(p, Dest(d))
    BY <1>4, <1>5, <1>6, <1>7, <2>1, <2>2 DEF MapInv, EndInv, p
  <2>4. ConnInv(d)'
    <3>1. home'[d] = m /\ state_'[d] = "kDisconnected" /\ ended'[d] = 0 /\ d \notin connections_'
      BY <1>3, <1>4, <1>6, <1>7, <1>8, <2>3
    <3>2. ReportInv(d)'
      BY <1>3, <2>2 DEF ReportInv
    <3>3. PlaceInv(d)'
      BY <1>6, <1>7, <1>14, <2>2, <3>1, FunctorFacts DEF PlaceInv
    <3>4. EstablishInv(d)'
      BY <3>1 DEF EstablishInv
    <3>5. EndInv(d)'
      <4>1. In(functors'[m], Dest(d))
        BY <1>14
      <4> QED BY <3>1, <4>1 DEF EndInv
    <3>6. MapInv(d)'
      <4>1. ~In(functors'[0], Rem(d))
        BY <1>8, <1>14, <2>2
      <4> QED BY <3>1, <4>1 DEF MapInv
    <3> QED BY <1>4, <3>2, <3>3, <3>4, <3>5, <3>6 DEF ConnInv
  <2>5. ASSUME NEW c \in Conns, c # d PROVE ConnInv(c)'
    <3>1. ConnInv(c) /\ home[c] \in Loops /\ ghost' \in BOOLEAN /\ Est(c) # Rem(d)
      BY <2>1, FunctorFacts DEF Inv
    <3>2. \A k \in Loops, op \in Ops :
            In(functors[k], Functor(op, c)) <=> In(functors'[k], Functor(op, c))
      BY <1>17, <2>5
    <3>3. /\ home'[c] = home[c] /\ (c \in connections_' <=> c \in connections_)
          /\ (c \in registered' => c \in registered)
          /\ state_'[c] = state_[c] /\ reports'[c] = reports[c] /\ ended'[c] = ended[c]
      BY <1>3, <1>4, <1>8, <2>5
    <3> QED BY <1>4, <1>15, <3>1, <3>2, <3>3, KeepConn
  <2>6. ServerInv'
    BY <1>4, <2>1 DEF ServerInv
  <2>7. Typed'
    BY <1>3, <1>4, <1>8, <1>11, <2>1 DEF Typed
  <2>8. AllConnInv'
    BY <2>4, <2>5 DEF AllConnInv
  <2>9. Distinct'
    BY <1>16, <2>3 DEF Distinct
  <2> QED BY <1>4, <1>18, <2>6, <2>7, <2>8, <2>9, Assemble
<1>20. CASE server = "gone"
  <2>1. ghost' = TRUE /\ (outlived \/ foreign # {})
    BY <1>3, <1>4, <1>20, LateLoop
  <2>2. ServerInv'
    BY <1>4, <1>20, <2>1 DEF ServerInv
  <2>3. Len(functors'[m]) <= 2 * MaxConns
    <3>1. \A c \in Conns : ~In(p, Rem(c))
      BY <1>8, Places DEF p
    <3>2. ~In(p, Est(d))
      BY <1>6, Places DEF p
    <3> QED BY <1>9, <1>10, <1>11, <3>1, <3>2, QueueRoom
  <2>4. ASSUME NEW k \in Loops, k # m
        PROVE  Len(functors'[k]) <= 2 * MaxConns
    <3>1. functors'[k] \in Seq(Functors) /\ IsInjective(functors'[k])
      BY <1>11, <1>12, <2>4
    <3>2. \/ \A c \in Conns : ~In(functors'[k], Est(c))
          \/ \A c \in Conns : ~In(functors'[k], Rem(c))
      <4>1. CASE k = 0
        BY <1>18, <4>1 DEF Placed
      <4>2. CASE k # 0
        BY <1>18, <4>2 DEF Placed
      <4> QED BY <4>1, <4>2
    <3> QED BY <3>1, <3>2, QueueBound
  <2>5. ServerType'
    <3>1. Typed'
      BY <1>3, <1>4, <1>8, <1>11, <2>1 DEF Typed
    <3>2. \A k \in Loops : Len(functors'[k]) <= 2 * MaxConns
      BY <2>3, <2>4
    <3> QED BY <1>4, <3>1, <3>2 DEF Typed, ServerType, TypeOK, PoolInv, States
  <2>6. ASSUME NEW c \in Conns PROVE ConnInv(c)'
    <3>1. CASE c >= NextConnectionId_
      <4>1. FreshInv(c) /\ c # d
        BY <1>4, <3>1
      <4>2. FreshInv(c)'
        BY <1>3, <1>8, <1>17, <4>1 DEF FreshInv
      <4>3. ~(c < NextConnectionId_)
        BY <3>1 DEF Conns
      <4> QED BY <1>4, <4>2, <4>3 DEF ConnInv
    <3>2. CASE c < NextConnectionId_
      <4>1. ReportInv(c)'
        BY <1>3, <3>2 DEF ReportInv
      <4>2. ~(c >= NextConnectionId_)
        BY <3>2 DEF Conns
      <4> QED BY <1>4, <2>1, <4>1, <4>2 DEF ConnInv
    <3> QED BY <3>1, <3>2
  <2> QED BY <1>4, <2>1, <2>2, <2>5, <2>6 DEF Inv
<1> QED BY <1>19, <1>20

\* A loop ends, and with it what is queued there and what is registered.
LEMMA LeaveServerInv ==
  ASSUME Inv, ~ghost, dangling = {}, NEW w \in Workers, Work(w), At(w, "leave")
  PROVE  Inv'
<1> USE InvParts
<1>1. /\ functors' = [functors EXCEPT ![w] = <<>>]
      /\ registered' = {c \in registered : home[c] # w}
      /\ UNCHANGED <<server, NextConnectionId_, connections_, home, state_, serverHistory>>
      /\ Leave(w)
  BY DEF Work, WorkerStep, CountDown, InitLoop, Publish, Start, LoopReturns, Clear, At
<1>2. PoolInv' /\ worker' = [worker EXCEPT ![w] = "ended"] /\ UNCHANGED <<phase, foreign>>
  BY <1>1, LeaveInv DEF Leave, GoTo, ownerVars, historyVars
<1>3. w \in Loops /\ w # 0 /\ 0 \in Loops
  BY PoolAssumption DEF Loops, Workers
<1>4. worker'[w] = "ended" /\ \A v \in Workers : worker[v] = "ended" => worker'[v] = "ended"
  BY <1>2 DEF PoolTypeOK
<1>5. /\ functors' \in [Loops -> Seq(Functors)]
      /\ functors'[w] = <<>>
      /\ \A k \in Loops : k # w => functors'[k] = functors[k]
  BY <1>1, <1>3, EmptyFacts
<1>6. \A k \in Loops : \A g : In(functors'[k], g) <=> In(functors[k], g) /\ k # w
  BY <1>5, EmptyFacts
<1>7. ASSUME NEW c \in Conns PROVE ConnInv(c)'
  <2>1. home[c] \in Loops /\ (home[c] # 0 => home[c] \in Workers)
    BY PoolAssumption DEF Loops, Workers
  <2>2. CASE c >= NextConnectionId_
    <3>1. FreshInv(c)'
      BY <1>1, <1>6, <2>2 DEF FreshInv, serverHistory
    <3>2. ~(c < NextConnectionId_)
      BY <2>2 DEF Conns
    <3> QED BY <1>1, <3>1, <3>2 DEF ConnInv
  <2>3. CASE c < NextConnectionId_
    <3>1. ~(c >= NextConnectionId_)
      BY <2>3 DEF Conns
    <3>2. ReportInv(c)'
      BY <1>1, <2>3 DEF ReportInv, serverHistory
    <3>3. PlaceInv(c)'
      BY <1>1, <1>6, <2>3 DEF PlaceInv
    <3>4. EstablishInv(c)'
      <4>1. CASE home[c] = w
        BY <1>1, <1>3, <1>4, <4>1 DEF EstablishInv
      <4>2. CASE home[c] # w
        BY <1>1, <1>4, <1>5, <2>1, <2>3, <4>2 DEF EstablishInv
      <4> QED BY <4>1, <4>2
    <3>5. EndInv(c)'
      <4>1. EndInv(c) /\ ended' = ended
        BY <1>1, <2>3 DEF serverHistory
      <4>2. CASE home[c] = w
        BY <1>1, <1>3, <1>4, <1>6, <4>1, <4>2 DEF EndInv
      <4>3. CASE home[c] # w
        BY <1>1, <1>4, <1>6, <2>1, <4>1, <4>3 DEF EndInv
      <4> QED BY <4>2, <4>3
    <3>6. MapInv(c)'
      BY <1>1, <1>3, <1>6, <2>3 DEF MapInv, serverHistory
    <3> QED BY <1>1, <3>1, <3>2, <3>3, <3>4, <3>5, <3>6 DEF ConnInv
  <2> QED BY <2>2, <2>3
<1>8. ServerInv'
  BY <1>1, <1>2 DEF ServerInv, serverHistory
<1>9. Typed'
  BY <1>1, <1>5 DEF Typed, serverHistory
<1>10. Placed'
  BY <1>6, Places DEF Placed
<1>11. AllConnInv'
  BY <1>7 DEF AllConnInv
<1>12. Distinct'
  BY <1>5, EmptyFacts DEF Distinct
<1> QED BY <1>2, <1>8, <1>9, <1>10, <1>11, <1>12, Assemble

\* Every step keeps the invariant.
LEMMA NextInv == Inv /\ [Next]_vars => Inv'
<1> SUFFICES ASSUME Inv, [Next]_vars PROVE Inv'
  OBVIOUS
<1>1. CASE UNCHANGED vars
  <2>1. PoolInv'
    BY <1>1, PoolUnchanged DEF vars, Inv
  <2>2. ServerType' /\ ServerInv'
    BY <1>1, <2>1 DEF Inv, ServerType, ServerInv, TypeOK, PoolInv, vars, serverVars, connVars,
                      serverHistory, poolVars, ownerVars, workerVars, historyVars
  <2>3. \A c \in Conns : ConnInv(c)'
    BY <1>1 DEF Inv, ConnInv, FreshInv, ReportInv, PlaceInv, EstablishInv, EndInv, MapInv, vars,
                serverVars, connVars, serverHistory, poolVars, workerVars
  <2>4. ghost' \/ \A l \in Loops : IsInjective(functors'[l])
    BY <1>1 DEF Inv, vars, serverVars, connVars, serverHistory
  <2> QED BY <2>1, <2>2, <2>3, <2>4 DEF Inv
<1> SUFFICES ASSUME Next PROVE Inv'
  BY <1>1
<1> USE InvParts
<1>2. dangling = {} /\ ~ghost
  BY DEF Next
<1>3. ASSUME NEW num \in 0..MaxThreads, SetThreadNum_(num) PROVE Inv'
  <2>1. PoolInv' /\ UNCHANGED <<phase, worker, serverVars>>
    BY <1>2, <1>3, SetThreadNumInv DEF SetThreadNum_, SetThreadNum, workerVars
  <2>2. server' = "gone" => phase' = "gone"
    BY <1>2, <2>1 DEF serverVars, ServerInv
  <2> QED BY <1>2, <2>1, <2>2, QuietStep DEF serverVars, serverHistory
<1>4. CASE Start_
  <2>1. /\ PoolInv' /\ UNCHANGED <<worker, connVars, serverHistory>>
        /\ server = "ready" /\ server' = "serving"
    BY <1>2, <1>4, StartInv DEF Start_, start, workerVars
  <2> QED BY <1>2, <2>1, QuietStep DEF serverHistory
<1>5. CASE HandleRead
  BY <1>2, <1>5, AcceptInv
<1>6. CASE Shut
  <2>1. /\ PoolInv' /\ UNCHANGED <<worker, connVars, reports, ended, ghost>>
        /\ server' = "closing" /\ outlived' \in BOOLEAN
    BY <1>2, <1>6, PoolUnchanged DEF Shut, poolVars, workerVars
  <2> QED BY <1>2, <2>1, QuietStep
<1>7. CASE DestructorStep
  <2>1. CASE OwnerStep
    <3>1. PoolInv'
      BY <1>2, <2>1, SpawnInv, LatchWaitInv, StartLoopInv, CheckLoopInv, QuitStepInv, JoinInv
         DEF OwnerStep, OwnerGoesOn
    <3>2. UNCHANGED serverVars /\ phase # "gone"
      BY <2>1 DEF OwnerStep, OwnerGoesOn, Spawn, LatchWait, StartLoop, CheckLoop, Quit, Join
    <3>3. \A w \in Workers : worker[w] = "ended" => worker'[w] = "ended"
      <4>1. CASE Spawn
        <5>1. i \in Workers /\ worker[i] = "none" /\ worker' = [worker EXCEPT ![i] = "spawned"]
          BY <1>2, <4>1, PoolAssumption DEF Spawn, PoolInv, PoolTypeOK, OwnerInv, Starting, Workers
        <5> QED BY <1>2, <5>1 DEF PoolTypeOK
      <4>2. CASE ~Spawn
        <5>1. worker' = worker
          BY <2>1, <4>2 DEF OwnerStep, OwnerGoesOn, LatchWait, StartLoop, CheckLoop, Quit, Join,
                            workerVars
        <5> QED BY <5>1
      <4> QED BY <4>1, <4>2
    <3>4. server' # "gone"
      BY <1>2, <3>2 DEF ServerInv, serverVars
    <3> QED BY <1>2, <3>1, <3>2, <3>3, <3>4, QuietStep DEF serverVars, serverHistory
  <2>2. CASE DestroyPool
    <3>1. PoolInv' /\ UNCHANGED <<worker, serverVars>> /\ server = "closing"
      BY <1>2, <2>2, DestroyInv DEF DestroyPool, Destroy, workerVars
    <3> QED BY <1>2, <3>1, QuietStep DEF serverVars, serverHistory
  <2>3. CASE ServerGone
    <3>1. /\ PoolInv' /\ UNCHANGED <<worker, connVars, serverHistory>>
          /\ server' = "gone" /\ phase' = "gone"
      BY <1>2, <2>3, PoolUnchanged DEF ServerGone, poolVars, workerVars, ownerVars
    <3> QED BY <1>2, <3>1, QuietStep DEF serverHistory
  <2>4. CASE \E c \in Conns : DestroyConnection(c)
    BY <1>2, <2>4, DestroyConnectionInv
  <2> QED BY <1>7, <2>1, <2>2, <2>3, <2>4 DEF DestructorStep
<1>8. CASE \E c \in Conns : Shutdown(c) \/ HandleClose(c)
  BY <1>2, <1>8, ShutdownInv, HandleCloseInv
<1>9. ASSUME NEW l \in Loops, RunFunctor(l) PROVE Inv'
  <2>1. Head(functors[l]).op \in {"ConnectEstablished", "ConnectDestoryed", "RemoveConnectionInLoop"}
    BY <1>9 DEF RunFunctor
  <2> QED BY <1>2, <1>9, <2>1, RunEstInv, RunDestInv, RunRemInv
<1>10. ASSUME NEW w \in Workers, Work(w) PROVE Inv'
  <2>1. CASE At(w, "leave")
    BY <1>2, <1>10, <2>1, LeaveServerInv
  <2>2. CASE ~At(w, "leave")
    <3>1. PoolInv'
      BY <1>2, <1>10, CountDownInv, InitLoopInv, PublishInv, StartWorkerInv, LoopReturnsInv,
         ClearInv, LeaveInv DEF Work, WorkerStep
    <3>2. UNCHANGED <<server, connVars, serverHistory>>
      BY <1>10, <2>2 DEF Work, connVars
    <3>3. UNCHANGED phase
      BY <1>10 DEF Work, WorkerStep, CountDown, InitLoop, Publish, Start, LoopReturns, Clear,
                   Leave, ownerVars
    <3>4. worker[w] # "ended" /\ \E there : worker' = [worker EXCEPT ![w] = there]
      BY <1>10 DEF Work, WorkerStep, CountDown, InitLoop, Publish, Start, LoopReturns, Clear,
                   Leave, At, GoTo
    <3>5. \A v \in Workers : worker[v] = "ended" => worker'[v] = "ended"
      BY <1>2, <3>4 DEF PoolTypeOK
    <3>6. server' = "gone" => phase' = "gone"
      BY <1>2, <3>2, <3>3 DEF ServerInv
    <3> QED BY <1>2, <3>1, <3>2, <3>5, <3>6, QuietStep DEF serverHistory
  <2> QED BY <2>1, <2>2
<1>11. ASSUME NEW w \in Workers, Meddle(w) PROVE Inv'
  <2>1. PoolInv' /\ UNCHANGED <<phase, worker, serverVars>>
    BY <1>2, <1>11, QuitByOthersInv DEF Meddle, QuitByOthers, workerVars, ownerVars
  <2>2. server' = "gone" => phase' = "gone"
    BY <1>2, <2>1 DEF serverVars, ServerInv
  <2> QED BY <1>2, <2>1, <2>2, QuietStep DEF serverVars, serverHistory
<1> QED BY <1>3, <1>4, <1>5, <1>6, <1>7, <1>8, <1>9, <1>10, <1>11 DEF Next

\* The invariant holds in every state.
LEMMA SpecInv == SafeSpec => []Inv
BY InitInv, NextInv, PTL DEF SafeSpec

-----------------------------------------------------------------------------
(* Theorems.                                                               *)

\* The types of the state, the bound on the length of a queue among them: it
\* never has more than two functors for each connection.
THEOREM TypeCorrect == SafeSpec => []TypeOK
<1>1. Inv => TypeOK
  BY DEF Inv, ServerType
<1> QED BY <1>1, SpecInv, PTL

\* No loop, no EventLoopThread and no server is used after its end, unless the
\* base loop goes on without the server or someone else quits a loop.
THEOREM UsedAliveAlways == SafeSpec => []UsedAlive
<1>1. Inv => UsedAlive
  BY DEF Inv, PoolInv, ServerInv, UsedAlive
<1> QED BY <1>1, SpecInv, PTL

\* ConnectDestoryed is queued in the loop of its connection, and there once.
LEMMA PendingEnds ==
  ASSUME Inv, ~ghost, NEW c \in Conns, c < NextConnectionId_
  PROVE  Cardinality(Pending(c, "ConnectDestoryed")) =
           IF In(functors[home[c]], Dest(c)) THEN 1 ELSE 0
<1> DEFINE q == functors[home[c]]
           P == Pending(c, "ConnectDestoryed")
<1>1. /\ home[c] \in Loops /\ q \in Seq(Functors) /\ IsInjective(q)
      /\ Len(q) <= 2 * MaxConns /\ PlaceInv(c)
  BY DEF Inv, ServerType, TypeOK, ConnInv
<1>2. CASE In(q, Dest(c))
  <2>1. PICK k \in DOMAIN q : q[k] = Dest(c)
    BY <1>2 DEF In
  <2>2. k \in 1..(2 * MaxConns)
    BY <1>1, <2>1, ServerAssumption
  <2>3. <<home[c], k>> \in P
    BY <1>1, <2>1, <2>2 DEF Pending, Dest
  <2>4. ASSUME NEW at \in P PROVE at = <<home[c], k>>
    <3>1. at \in Loops \X (1..(2 * MaxConns)) /\ at[2] \in DOMAIN functors[at[1]]
          /\ functors[at[1]][at[2]] = Dest(c)
      BY <2>4 DEF Pending, Dest
    <3>2. In(functors[at[1]], Dest(c))
      BY <3>1 DEF In
    <3>3. at[1] = home[c]
      BY <1>1, <3>1, <3>2 DEF PlaceInv
    <3>4. at[2] = k
      BY <1>1, <2>1, <3>1, <3>3 DEF IsInjective
    <3> QED BY <3>1, <3>3, <3>4
  <2>5. P = {<<home[c], k>>}
    BY <2>3, <2>4, Zenon
  <2>6. Cardinality(P) = 1
    BY <2>5, FS_Singleton
  <2> QED BY <1>2, <2>6
<1>3. CASE ~In(q, Dest(c))
  <2>1. ASSUME NEW at \in P PROVE FALSE
    <3>1. at \in Loops \X (1..(2 * MaxConns)) /\ at[2] \in DOMAIN functors[at[1]]
          /\ functors[at[1]][at[2]] = Dest(c)
      BY <2>1 DEF Pending, Dest
    <3>2. In(functors[at[1]], Dest(c))
      BY <3>1 DEF In
    <3>3. at[1] = home[c]
      BY <1>1, <3>1, <3>2 DEF PlaceInv
    <3> QED BY <1>3, <3>2, <3>3
  <2>2. P = {}
    BY <2>1, Zenon
  <2>3. Cardinality(P) = 0
    BY <2>2, FS_EmptySet
  <2> QED BY <1>3, <2>3
<1> QED BY <1>2, <1>3

\* A connection has one end before it, whoever ends it, and the user hears of
\* it once that it is up and once that it is down, unless it was shut down and
\* the server has gone before its peer.
THEOREM OneEndAlways == SafeSpec => []OneEnd
<1>1. ASSUME Inv, NEW c \in 1..(NextConnectionId_ - 1)
      PROVE  LET ends == (IF c \in connections_ THEN 1 ELSE 0)
                           + Cardinality(Pending(c, "ConnectDestoryed")) + ended[c]
             IN  ends = 1 \/ ghost \/ (ends = 0 /\ worker[home[c]] = "ended")
  <2>1. c \in Conns /\ c < NextConnectionId_ /\ ended[c] \in Nat
    BY <1>1, ServerAssumption DEF Inv, ServerType, TypeOK, Conns
  <2>2. CASE ~ghost
    <3>1. EndInv(c)
      BY <1>1, <2>1, <2>2 DEF Inv, ConnInv
    <3>2. Cardinality(Pending(c, "ConnectDestoryed")) =
            IF In(functors[home[c]], Dest(c)) THEN 1 ELSE 0
      BY <1>1, <2>1, <2>2, PendingEnds
    <3> QED BY <2>1, <3>1, <3>2 DEF EndInv
  <2> QED BY <2>2
<1>2. ASSUME Inv, NEW c \in 1..(NextConnectionId_ - 1)
      PROVE  /\ reports[c] = CASE state_[c] = "kConnecting" -> 0
                               [] state_[c] \in {"kConnected", "kDisconnecting"} -> 1
                               [] state_[c] = "kDisconnected" -> 2
             /\ ended[c] > 0 =>
                  \/ state_[c] = "kDisconnected"
                  \/ state_[c] = "kDisconnecting" /\ server # "serving"
  <2>1. c \in Conns /\ c < NextConnectionId_
    BY <1>2, ServerAssumption DEF Inv, ServerType, TypeOK, Conns
  <2>2. ReportInv(c)
    BY <1>2, <2>1 DEF Inv, ConnInv
  <2>3. ended[c] > 0 /\ server = "serving" => state_[c] = "kDisconnected"
    <3>1. server = "serving" => EndInv(c) /\ MapInv(c)
      BY <1>2, <2>1 DEF Inv, ConnInv, ServerInv
    <3> QED BY <3>1 DEF EndInv, MapInv
  <2> QED BY <2>2, <2>3 DEF ReportInv
<1>3. Inv => OneEnd
  BY <1>1, <1>2 DEF OneEnd, Inv, ServerType
<1> QED BY <1>3, SpecInv, PTL

\* The connection of a channel that a running loop has in its Poller exists:
\* the map or a functor holds a shared pointer to it.
THEOREM KeptRegistered == SafeSpec => []KeptWhileRegistered
<1>1. ASSUME Inv, NEW c \in registered, home[c] = 0 \/ worker[home[c]] = "looping", ~ghost
      PROVE  Referenced(c)
  <2>1. c \in Conns /\ NextConnectionId_ \in Nat /\ c \in Nat
    BY <1>1, ServerAssumption DEF Inv, ServerType, TypeOK, Conns
  <2>2. c < NextConnectionId_
    BY <1>1, <2>1 DEF Inv, ConnInv, FreshInv
  <2>3. ended[c] = 0 /\ EndInv(c)
    BY <1>1, <2>1, <2>2 DEF Inv, ConnInv, ReportInv
  <2>4. c \in connections_ \/ In(functors[home[c]], Dest(c))
    BY <1>1, <2>3 DEF EndInv
  <2>5. CASE In(functors[home[c]], Dest(c))
    <3>1. PICK k \in DOMAIN functors[home[c]] : functors[home[c]][k] = Dest(c)
      BY <2>5 DEF In
    <3>2. home[c] \in Loops /\ functors[home[c]] \in Seq(Functors)
          /\ Len(functors[home[c]]) <= 2 * MaxConns
      BY <1>1, <2>1 DEF Inv, ServerType, TypeOK
    <3>3. k \in 1..(2 * MaxConns)
      BY <3>1, <3>2, ServerAssumption
    <3>4. functors[home[c]][k].conn = c
      BY <3>1 DEF Dest, Functor
    <3> QED BY <3>1, <3>2, <3>3, <3>4 DEF Referenced
  <2> QED BY <2>4, <2>5 DEF Referenced
<1>2. Inv => KeptWhileRegistered
  BY <1>1 DEF KeptWhileRegistered
<1> QED BY <1>2, SpecInv, PTL

=============================================================================
