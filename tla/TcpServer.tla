------------------------------ MODULE TcpServer ------------------------------
(***************************************************************************)
(* TcpServer and Acceptor (src/src/net/TcpServer.cpp, Acceptor.cpp) over   *)
(* the pool of EventLoopThreadPool.tla: connections are accepted in the    *)
(* base loop, live in a loop of the pool, and are ended by their peer or   *)
(* by the destructor of the server, which then brings the pool down.       *)
(*                                                                         *)
(* The server lives in the thread of the base loop, loop 0.  Every loop    *)
(* has its queue of functors, as SerialExecutor.tla promises; a loop that  *)
(* has been told to quit may leave functors behind, and destroys them.     *)
(* What a connection does meanwhile is in TcpConnection.tla.               *)
(***************************************************************************)
EXTENDS EventLoopThreadPool, Sequences, SequencesExt

CONSTANT MaxConns   \* bound on the number of connections

ASSUME ServerAssumption == MaxConns \in Nat

Loops == 0..MaxThreads
Conns == 1..MaxConns

VARIABLES
  server,           \* "ready", "serving", "closing", "gone"
  NextConnectionId_,
  connections_,     \* the connections in the map
  functors,         \* per loop: what is queued there
  home,             \* per connection: its loop
  state_,           \* per connection; "none": not accepted yet
  registered,       \* connections whose channel a Poller has in its map
  reports,          \* history: per connection, calls of ConnectionCallback_
  ended,            \* history: per connection, calls of ConnectDestoryed
  outlived,         \* history: the base loop goes on after the server
  ghost             \* history: the server was used after its end

connVars == <<NextConnectionId_, connections_, functors, home, state_, registered>>
serverHistory == <<reports, ended, outlived, ghost>>
serverVars == <<server, connVars, serverHistory>>
vars == <<poolVars, serverVars>>

Functor(op, c) == [op |-> op, conn |-> c]

Init ==
  /\ PoolInit
  /\ server = "ready"
  /\ NextConnectionId_ = 1
  /\ connections_ = {} /\ registered = {}
  /\ functors = [l \in Loops |-> <<>>]
  /\ home = [c \in Conns |-> 0]
  /\ state_ = [c \in Conns |-> "none"]
  /\ reports = [c \in Conns |-> 0] /\ ended = [c \in Conns |-> 0]
  /\ outlived = FALSE /\ ghost = FALSE

Queue(l, f) == functors' = [functors EXCEPT ![l] = Append(@, f)]

-----------------------------------------------------------------------------
(* TcpConnection, as far as the server can tell.                           *)

Established(c) ==
  /\ state_' = [state_ EXCEPT ![c] = "kConnected"]
  /\ registered' = registered \cup {c}
  /\ reports' = [reports EXCEPT ![c] = @ + 1]
  /\ UNCHANGED ended

\* A connection that was shut down stays kDisconnecting and is not reported.
Destoryed(c) ==
  /\ state_' = [state_ EXCEPT ![c] = IF @ = "kConnected" THEN "kDisconnected" ELSE @]
  /\ registered' = registered \ {c}
  /\ reports' = [reports EXCEPT ![c] = IF state_[c] = "kConnected" THEN @ + 1 ELSE @]
  /\ ended' = [ended EXCEPT ![c] = @ + 1]

-----------------------------------------------------------------------------
(* In the thread of the base loop.                                         *)

SetThreadNum_(num) ==
  /\ server # "closing"
  /\ SetThreadNum(num)
  /\ UNCHANGED serverVars

\* A second call of start() does nothing.
Start_ ==
  /\ server = "ready" /\ server' = "serving"
  /\ start
  /\ UNCHANGED <<connVars, serverHistory>>

\* The pool has come up and the acceptor listens.
Serving == server = "serving" /\ phase = "running"

\* RunInLoop calls the functor at once if the connection stays in the base
\* loop.
NewConnection ==
  /\ GetNextLoop
  /\ LET c == NextConnectionId_
         ioloop == IF loops_ = 0 THEN 0 ELSE next_ + 1
     IN  /\ NextConnectionId_' = c + 1
         /\ connections_' = connections_ \cup {c}
         /\ home' = [home EXCEPT ![c] = ioloop]
         /\ IF ioloop = 0
            THEN Established(c) /\ UNCHANGED functors
            ELSE /\ Queue(ioloop, Functor("ConnectEstablished", c))
                 /\ state_' = [state_ EXCEPT ![c] = "kConnecting"]
                 /\ UNCHANGED <<registered, reports, ended>>
  /\ UNCHANGED <<server, outlived, ghost>>

\* Acceptor: one connection for each event; an accept that fails is only logged.
HandleRead ==
  /\ Serving /\ NextConnectionId_ \in Conns
  /\ NewConnection

\* ~TcpServer begins after the base loop has returned, or in a callback of a
\* loop that goes on.
Shut ==
  /\ Serving /\ server' = "closing"
  /\ outlived' \in BOOLEAN
  /\ UNCHANGED <<poolVars, connVars, reports, ended, ghost>>

\* One round of its loop over connections_.
DestroyConnection(c) ==
  /\ server = "closing" /\ c \in connections_
  /\ connections_' = connections_ \ {c}
  /\ IF home[c] = 0
     THEN Destoryed(c) /\ UNCHANGED functors
     ELSE /\ Queue(home[c], Functor("ConnectDestoryed", c))
          /\ UNCHANGED <<state_, registered, reports, ended>>
  /\ UNCHANGED <<poolVars, server, NextConnectionId_, home, outlived, ghost>>

\* Then the members, the pool among them.
DestroyPool ==
  /\ server = "closing" /\ connections_ = {}
  /\ Destroy
  /\ UNCHANGED serverVars

ServerGone ==
  /\ server = "closing" /\ phase = "gone" /\ server' = "gone"
  /\ UNCHANGED <<poolVars, connVars, serverHistory>>

OwnerStep == OwnerGoesOn /\ UNCHANGED serverVars

-----------------------------------------------------------------------------
(* In the loop of a connection.                                            *)

\* The base loop does not go round while the server is made or destroyed in
\* its thread.
Looping(l) ==
  IF l = 0 THEN Serving \/ (server = "gone" /\ outlived) ELSE At(l, "looping")

\* Mutant: the map keeps the connection.
RemovedKeeping(c) ==
  /\ UNCHANGED connections_
  /\ functors' = [[functors EXCEPT ![0] = IF home[c] = 0 THEN @ ELSE Tail(@)]
                     EXCEPT ![home[c]] = Append(@, Functor("ConnectDestoryed", c))]

\* Mutant: the connection is erased and nothing is queued.
RemovedForgetting(c) ==
  /\ connections_' = connections_ \ {c}
  /\ functors' = [functors EXCEPT ![0] = IF home[c] = 0 THEN @ ELSE Tail(@)]

\* RemoveConnectionInLoop: called at once in the base loop, or as a functor.
Removed(c) ==
  /\ connections_' = connections_ \ {c}
  /\ functors' = [[functors EXCEPT ![0] = IF home[c] = 0 THEN @ ELSE Tail(@)]
                     EXCEPT ![home[c]] = Append(@, Functor("ConnectDestoryed", c))]

\* Its channel is read.
Open(c) == c \in registered /\ state_[c] \in {"kConnected", "kDisconnecting"}

\* The user's shutdown(), in any thread.  The functor ShutdownInLoop does
\* nothing that the server can tell and holds no shared pointer; a store of
\* kDisconnecting that comes after kDisconnected is in TcpConnection.tla.
Shutdown(c) ==
  /\ state_[c] = "kConnected"
  /\ state_' = [state_ EXCEPT ![c] = "kDisconnecting"]
  /\ UNCHANGED <<poolVars, server, NextConnectionId_, connections_, functors, home,
                 registered, serverHistory>>

\* Mutant: CloseCallback_ is not called.
HandleCloseAlone(c) ==
  /\ Open(c) /\ Looping(home[c])
  /\ state_' = [state_ EXCEPT ![c] = "kDisconnected"]
  /\ reports' = [reports EXCEPT ![c] = @ + 1]
  /\ UNCHANGED <<poolVars, server, NextConnectionId_, home, connections_, functors,
                 registered, ended, outlived, ghost>>

\* HandleClose, also of a connection that was shut down: the user is told and
\* CloseCallback_ calls RemoveConnection, through the plain pointer to the
\* server that it is bound to.
HandleClose(c) ==
  /\ Open(c) /\ Looping(home[c])
  /\ state_' = [state_ EXCEPT ![c] = "kDisconnected"]
  /\ reports' = [reports EXCEPT ![c] = @ + 1]
  /\ ghost' = (ghost \/ server = "gone")
  /\ IF home[c] = 0
     THEN Removed(c)
     ELSE Queue(0, Functor("RemoveConnectionInLoop", c)) /\ UNCHANGED connections_
  /\ UNCHANGED <<poolVars, server, NextConnectionId_, home, registered, ended, outlived>>

\* if(!functors_.empty()) in EventLoop::start.
HasWork(l) == functors[l] # <<>>

RunFunctor(l) ==
  /\ Looping(l) /\ HasWork(l)
  /\ LET f == Head(functors[l])
     IN  \/ /\ f.op = "ConnectEstablished"
            /\ Established(f.conn)
            /\ functors' = [functors EXCEPT ![l] = Tail(@)]
            /\ UNCHANGED <<connections_, ghost>>
         \/ /\ f.op = "ConnectDestoryed"
            /\ Destoryed(f.conn)
            /\ functors' = [functors EXCEPT ![l] = Tail(@)]
            /\ UNCHANGED <<connections_, ghost>>
         \/ /\ f.op = "RemoveConnectionInLoop"
            /\ ghost' = (ghost \/ server = "gone")
            /\ Removed(f.conn)
            /\ UNCHANGED <<state_, registered, reports, ended>>
  /\ UNCHANGED <<poolVars, server, NextConnectionId_, home, outlived>>

\* The steps of ThreadFunciton; with its loop go the functors left in it and
\* its Poller.
Work(w) ==
  /\ WorkerStep(w)
  /\ IF At(w, "leave")
     THEN /\ functors' = [functors EXCEPT ![w] = <<>>]
          /\ registered' = {c \in registered : home[c] # w}
     ELSE UNCHANGED <<functors, registered>>
  /\ UNCHANGED <<server, NextConnectionId_, connections_, home, state_, serverHistory>>

Meddle(w) == QuitByOthers(w) /\ UNCHANGED serverVars

-----------------------------------------------------------------------------

DestructorStep ==
  OwnerStep \/ DestroyPool \/ ServerGone \/ \E c \in Conns : DestroyConnection(c)

Next ==
  /\ dangling = {} /\ ~ghost
  /\ \/ \E num \in 0..MaxThreads : SetThreadNum_(num)
     \/ Start_ \/ HandleRead \/ Shut \/ DestructorStep
     \/ \E c \in Conns : Shutdown(c) \/ HandleClose(c)
     \/ \E l \in Loops : RunFunctor(l)
     \/ \E w \in Workers : Work(w) \/ Meddle(w)

\* Threads run, loops call their functors, and the owner goes on with a call
\* that has begun.  Nothing is assumed about when it calls, nor of peers.
Fairness ==
  /\ WF_vars(DestructorStep)
  /\ \A l \in Loops : WF_vars(RunFunctor(l))
  /\ \A w \in Workers : WF_vars(Work(w))

SafeSpec == Init /\ [][Next]_vars
Spec == SafeSpec /\ Fairness

-----------------------------------------------------------------------------
(* Properties.                                                             *)

Pending(c, op) ==
  {at \in Loops \X (1..(2 * MaxConns)) :
     at[2] \in DOMAIN functors[at[1]] /\ functors[at[1]][at[2]] = Functor(op, c)}

\* The shared pointers to a connection.
Referenced(c) ==
  c \in connections_ \/ \E l \in Loops, k \in 1..(2 * MaxConns) :
                          k \in DOMAIN functors[l] /\ functors[l][k].conn = c

\* Type invariant, with that of the pool.
TypeOK ==
  /\ PoolTypeOK
  /\ server \in {"ready", "serving", "closing", "gone"}
  /\ NextConnectionId_ \in 1..(MaxConns + 1)
  /\ connections_ \subseteq Conns /\ registered \subseteq Conns
  /\ home \in [Conns -> Loops]
  /\ state_ \in [Conns -> {"none", "kConnecting", "kConnected", "kDisconnecting",
                        "kDisconnected"}]
  /\ \A l \in Loops : Len(functors[l]) <= 2 * MaxConns
  /\ {outlived, ghost} \subseteq BOOLEAN

\* A channel that a running loop has in its Poller belongs to a connection
\* that still exists: a shared pointer to it is in the map or in a functor
\* until ConnectDestoryed has removed the channel.
KeptWhileRegistered ==
  \A c \in registered :
    home[c] = 0 \/ worker[home[c]] = "looping" => Referenced(c) \/ ghost

\* A connection has one end before it: it is in the map, or ConnectDestoryed
\* is queued in its loop, or has been called, once, though the peer and the
\* destructor may both end it.  Only a loop that is gone has lost it.  The user
\* hears of it once that it is up and once that it is down, but not that it is
\* down if it was shut down and the destructor has come before its peer.
OneEnd ==
  TypeOK /\ \A c \in 1..(NextConnectionId_ - 1) :
    LET ends == (IF c \in connections_ THEN 1 ELSE 0)
                  + Cardinality(Pending(c, "ConnectDestoryed")) + ended[c]
    IN  /\ \/ ends = 1 \/ ghost
           \/ ends = 0 /\ worker[home[c]] = "ended"
        /\ reports[c] = CASE state_[c] = "kConnecting" -> 0
                          [] state_[c] \in {"kConnected", "kDisconnecting"} -> 1
                          [] state_[c] = "kDisconnected" -> 2
        /\ ended[c] > 0 =>
             state_[c] = "kDisconnected" \/ (state_[c] = "kDisconnecting" /\ server # "serving")

\* Nothing is used after its end: no loop and no EventLoopThread, and not the
\* server, neither by a connection that closes late in a loop of the pool nor
\* by what it has queued, unless the base loop goes on without the server or
\* someone else quits a loop.
UsedAlive ==
  /\ NothingDangles
  /\ ghost => outlived \/ foreign # {}

\* An accepted connection is established in its loop, and one that is closed
\* is let go of by every shared pointer, unless the server goes first.
ConnectionsProceed ==
  \A c \in Conns :
    /\ state_[c] = "kConnecting" ~>
         state_[c] # "kConnecting" \/ server # "serving" \/ foreign # {}
    /\ state_[c] = "kDisconnected" ~>
         ~Referenced(c) \/ server # "serving" \/ foreign # {}
=============================================================================
