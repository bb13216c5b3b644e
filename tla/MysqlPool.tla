------------------------------ MODULE MysqlPool ------------------------------
(***************************************************************************)
(* MysqlPool and Mysql (src/src/net/Mysql): connections to a database are  *)
(* kept in a ThreadSafeQueue, threads take one for each statement and put  *)
(* it back, and the owner closes the pool while they do so.                *)
(*                                                                         *)
(* Assumed of the program: it destroys the pool when no call is in         *)
(* progress.                                                               *)
(***************************************************************************)
EXTENDS ThreadSafeQueue

CONSTANTS
  MaxSize,          \* bound on the number of connections
  NoCon             \* the null pointer

ASSUME PoolAssumption ==
  /\ MaxSize \in Nat
  /\ NoCon \notin 1..MaxSize

VARIABLES
  size_, runing_,
  owner,            \* "open", "closing", "closed", "draining", "gone"
  call,             \* per thread: where it is in a call of Mysql
  op,               \* per thread: which call that is
  con,              \* per thread: the connection it has
  thrown,           \* connections that went with a query that threw
  freed             \* connections closed because the pool is

mysqlVars == <<call, op, con, thrown, freed>>
poolVars == <<size_, runing_, owner>>
vars == <<queueVars, poolVars, mysqlVars>>

\* exec() is as update().
Ops == {"query", "update"}

\* The constructor connects; the default size is 0.
Init ==
  /\ size_ \in 0..MaxSize
  /\ queue = [i \in 1..size_ |-> i]
  /\ HeadMutex_ = Nobody /\ missed = FALSE
  /\ at = [t \in Threads |-> "out"]
  /\ runing_ = TRUE /\ owner = "open"
  /\ call = [t \in Threads |-> "idle"]
  /\ op = [t \in Threads |-> "query"]
  /\ con = [t \in Threads |-> NoCon]
  /\ thrown = {} /\ freed = {}

-----------------------------------------------------------------------------
(* Mysql::query, update and exec.                                          *)

\* A pool that is closed gives no connection, and the call returns at once.
GetConnection(t, o) ==
  /\ call[t] = "idle" /\ owner \notin {"draining", "gone"}
  /\ runing_
  /\ call' = [call EXCEPT ![t] = "getting"]
  /\ op' = [op EXCEPT ![t] = o]
  /\ GoTo(t, "lock")
  /\ UNCHANGED <<queue, HeadMutex_, missed, poolVars, con, thrown, freed>>

GotConnection(t) ==
  /\ call[t] = "getting"
  /\ PopHead(t)
  /\ con' = [con EXCEPT ![t] = Head(queue)]
  /\ call' = [call EXCEPT ![t] = "using"]
  /\ UNCHANGED <<poolVars, op, thrown, freed>>

\* Mutant: an exception leaves every call, and the connection is not closed.
StatementForgetting(t) ==
  /\ call[t] = "using"
  /\ \/ call' = [call EXCEPT ![t] = "returning"] /\ UNCHANGED con
     \/ /\ call' = [call EXCEPT ![t] = "idle"]
        /\ con' = [con EXCEPT ![t] = NoCon]
  /\ UNCHANGED <<queueVars, poolVars, op, thrown, freed>>

\* A query that throws takes its connection along; update and exec catch the
\* exception and return theirs.
Statement(t) ==
  /\ call[t] = "using"
  /\ \/ /\ call' = [call EXCEPT ![t] = "returning"]
        /\ UNCHANGED <<con, thrown>>
     \/ /\ op[t] = "query"
        /\ call' = [call EXCEPT ![t] = "idle"]
        /\ con' = [con EXCEPT ![t] = NoCon]
        /\ thrown' = thrown \cup {con[t]}
  /\ UNCHANGED <<queueVars, poolVars, op, freed>>

\* Once the pool is closed the connection is closed when the call returns.
ReturnConnection(t) ==
  /\ call[t] = "returning"
  /\ IF runing_
     THEN call' = [call EXCEPT ![t] = "pushing"] /\ UNCHANGED <<con, freed>>
     ELSE /\ call' = [call EXCEPT ![t] = "idle"]
          /\ con' = [con EXCEPT ![t] = NoCon]
          /\ freed' = freed \cup {con[t]}
  /\ UNCHANGED <<queueVars, poolVars, op, thrown>>

Push(t) ==
  /\ call[t] = "pushing"
  /\ push(con[t])
  /\ call' = [call EXCEPT ![t] = "idle"]
  /\ con' = [con EXCEPT ![t] = NoCon]
  /\ UNCHANGED <<poolVars, op, thrown, freed>>

-----------------------------------------------------------------------------
(* The owner.                                                              *)

close ==
  /\ owner = "open" /\ owner' = "closing"
  /\ runing_' = FALSE
  /\ UNCHANGED <<size_, queueVars, mysqlVars>>

\* A thread that finds nothing in the queue goes back to sleep.
CloseNotifies ==
  /\ owner = "closing" /\ owner' = "closed"
  /\ NotifyAll
  /\ UNCHANGED <<size_, runing_, mysqlVars>>

\* ~Mysql closes the pool once more, which changes nothing.
Destroy ==
  /\ owner = "closed" /\ owner' = "draining"
  /\ \A t \in Threads : call[t] = "idle"
  /\ UNCHANGED <<size_, runing_, queueVars, mysqlVars>>

\* ~MysqlPool: while (!pool_.empty()) pool_.WaitPop().
Drain ==
  /\ owner = "draining"
  /\ IF queue = <<>>
     THEN owner' = "gone" /\ UNCHANGED <<queue, freed>>
     ELSE /\ queue' = Tail(queue)
          /\ freed' = freed \cup {Head(queue)}
          /\ UNCHANGED owner
  /\ UNCHANGED <<size_, runing_, HeadMutex_, at, missed, call, op, con, thrown>>

-----------------------------------------------------------------------------

Waiting(t) ==
  /\ Lock(t) \/ Test(t) \/ Sleep(t)
  /\ UNCHANGED <<poolVars, mysqlVars>>

Spurious(t) == WakeSpuriously(t) /\ UNCHANGED <<poolVars, mysqlVars>>

Calling(t) == GotConnection(t) \/ Statement(t) \/ ReturnConnection(t) \/ Push(t)

OwnerStep == CloseNotifies \/ Drain

Next ==
  \/ \E t \in Threads :
       \/ \E o \in Ops : GetConnection(t, o)
       \/ Waiting(t) \/ Spurious(t) \/ Calling(t)
  \/ close \/ Destroy \/ OwnerStep

\* Threads go on with what they have begun, statements end, and a thread that
\* keeps trying gets the lock.
Fairness ==
  /\ \A t \in Threads : SF_vars(Waiting(t)) /\ WF_vars(Calling(t))
  /\ WF_vars(OwnerStep)

SafeSpec == Init /\ [][Next]_vars
Spec == SafeSpec /\ Fairness

-----------------------------------------------------------------------------
(* Properties.                                                             *)

Cons == 1..size_
Idle == {queue[i] : i \in DOMAIN queue}
Held == {con[t] : t \in Threads} \ {NoCon}

\* Type invariant.
TypeOK ==
  /\ size_ \in 0..MaxSize
  /\ queue \in Seq(Cons)
  /\ HeadMutex_ \in Threads \cup {Nobody}
  /\ at \in [Threads -> {"out", "lock", "test", "tested", "asleep", "pop"}]
  /\ {missed, runing_} \subseteq BOOLEAN
  /\ owner \in {"open", "closing", "closed", "draining", "gone"}
  /\ call \in [Threads -> {"idle", "getting", "using", "returning", "pushing"}]
  /\ op \in [Threads -> Ops]
  /\ con \in [Threads -> Cons \cup {NoCon}]
  /\ thrown \subseteq Cons /\ freed \subseteq Cons

\* Every connection is in one place: idle in the queue, with the one thread
\* that uses it, or closed.  No two statements share one, none is put back
\* twice, and none disappears but with a query that threw or a pool that was
\* closed.
OneHolder ==
  /\ \A i, j \in DOMAIN queue : queue[i] = queue[j] => i = j
  /\ \A s, t \in Threads : con[s] = con[t] /\ con[s] # NoCon => s = t
  /\ \A t \in Threads : con[t] \notin Idle \cup thrown \cup freed
  /\ Idle \cap (thrown \cup freed) = {}
  /\ Cons = Idle \cup Held \cup thrown \cup freed
  /\ runing_ => freed = {}

\* PopHead never finds the list empty: between the test of the predicate and
\* the pop nobody else has taken the last node.
PopFindsData == \A t \in Threads : at[t] = "pop" => queue # <<>>

\* While a thread sleeps, or is about to, every idle connection has a thread
\* on its way to it.  The one exception is a push between the test of the
\* predicate and the sleep: it takes TailMutex only, so that its notification
\* may come too early.
WakeupsCover ==
  (\E t \in Threads : at[t] \in {"tested", "asleep"}) /\ ~missed =>
    Len(queue) <= Cardinality({t \in Threads : at[t] \in {"lock", "test", "pop"}})

\* No thread waits for ever beside an idle connection, unless a notification
\* has been missed: it gets one, or others take all there are.
IdleIsTaken ==
  \A t \in Threads :
    at[t] # "out" /\ queue # <<>> ~> at[t] = "out" \/ queue = <<>> \/ missed
=============================================================================
