--------------------------- MODULE MysqlPoolProofs ---------------------------
(***************************************************************************)
(* The connections of a MysqlPool and the wakeups of the queue they are    *)
(* kept in, for any number of threads and connections.                     *)
(*                                                                         *)
(* HeadMutex_ is held from the test of the predicate to the pop, so that   *)
(* only one thread is between them; a thread has a connection exactly from *)
(* the pop to the end of its call.                                         *)
(***************************************************************************)
EXTENDS MysqlPool, FiniteSetTheorems, SequenceTheorems, TLAPS

\* HeadMutex_ is held by the thread that tests, pops or goes to sleep.
LockInv ==
  \A t \in Threads : at[t] \in {"test", "tested", "pop"} <=> HeadMutex_ = t

\* A thread is in WaitPop while it gets a connection, and then has one.
CallInv ==
  \A t \in Threads :
    /\ at[t] # "out" <=> call[t] = "getting"
    /\ con[t] # NoCon <=> call[t] \in {"using", "returning", "pushing"}

\* A pool that is destroyed has been closed and has no callers.
OwnerInv ==
  /\ runing_ <=> owner = "open"
  /\ owner \in {"draining", "gone"} => \A t \in Threads : call[t] = "idle"

Inv == TypeOK /\ LockInv /\ CallInv /\ OwnerInv /\ PopFindsData

-----------------------------------------------------------------------------
(* Places, locks and types.                                                *)

\* The constructor establishes the invariant.
LEMMA InitInv == Init => Inv
<1> SUFFICES ASSUME Init PROVE Inv
  OBVIOUS
<1> USE ThreadsAssumption, PoolAssumption DEF Init
<1>1. size_ \in Nat /\ queue \in Seq(Cons)
  BY DEF Cons
<1>2. TypeOK
  BY <1>1 DEF TypeOK, Cons, Ops
<1>3. LockInv /\ CallInv /\ OwnerInv /\ PopFindsData
  BY DEF LockInv, CallInv, OwnerInv, PopFindsData
<1> QED BY <1>2, <1>3 DEF Inv

\* WaitPop: what a thread does under HeadMutex_ and while it sleeps.
LEMMA WaitingInv ==
  ASSUME Inv, NEW t \in Threads, Waiting(t) \/ Spurious(t)
  PROVE  Inv'
<1> USE ThreadsAssumption DEF Inv
<1>1. UNCHANGED <<queue, missed, poolVars, mysqlVars>>
  BY DEF Waiting, Spurious, Lock, Test, Sleep, WakeSpuriously
<1>2. /\ at[t] \notin {"out", "pop"}
      /\ \E there \in {"lock", "test", "tested", "asleep", "pop"} : at' = [at EXCEPT ![t] = there]
      /\ HeadMutex_' \in Threads \cup {Nobody}
  BY DEF Waiting, Spurious, Lock, Test, Sleep, WakeSpuriously, GoTo, TypeOK
<1>3. TypeOK'
  BY <1>1, <1>2 DEF TypeOK, Cons, poolVars, mysqlVars
<1>4. LockInv'
  BY DEF Waiting, Spurious, Lock, Test, Sleep, WakeSpuriously, GoTo, TypeOK, LockInv
<1>5. CallInv' /\ OwnerInv'
  BY <1>1, <1>2 DEF CallInv, OwnerInv, TypeOK, poolVars, mysqlVars
<1>6. PopFindsData'
  BY <1>1 DEF Waiting, Spurious, Lock, Test, Sleep, WakeSpuriously, GoTo, TypeOK, PopFindsData
<1> QED BY <1>3, <1>4, <1>5, <1>6

\* Taking a connection.
LEMMA GettingInv ==
  ASSUME Inv, NEW t \in Threads,
         GotConnection(t) \/ \E o \in Ops : GetConnection(t, o)
  PROVE  Inv'
<1> USE ThreadsAssumption, PoolAssumption DEF Inv
<1>1. CASE GotConnection(t)
  <2>1. Tail(queue) \in Seq(Cons) /\ Head(queue) \in Cons /\ Head(queue) # NoCon
    BY <1>1 DEF GotConnection, PopHead, TypeOK, Cons
  <2>2. TypeOK'
    BY <1>1, <2>1 DEF GotConnection, PopHead, GoTo, TypeOK, Cons, poolVars
  <2>3. LockInv' /\ PopFindsData'
    BY <1>1 DEF GotConnection, PopHead, GoTo, TypeOK, LockInv, PopFindsData
  <2>4. CallInv' /\ OwnerInv'
    BY <1>1, <2>1 DEF GotConnection, PopHead, GoTo, TypeOK, CallInv, OwnerInv, poolVars
  <2> QED BY <2>2, <2>3, <2>4
<1>2. ASSUME NEW o \in Ops, GetConnection(t, o) PROVE Inv'
  <2>1. TypeOK'
    BY <1>2 DEF GetConnection, GoTo, TypeOK, Cons, poolVars
  <2>2. LockInv' /\ PopFindsData'
    BY <1>2 DEF GetConnection, GoTo, TypeOK, CallInv, LockInv, PopFindsData
  <2>3. CallInv' /\ OwnerInv'
    BY <1>2 DEF GetConnection, GoTo, TypeOK, CallInv, OwnerInv, poolVars
  <2> QED BY <2>1, <2>2, <2>3
<1> QED BY <1>1, <1>2

\* The statement and the way of the connection back.
LEMMA CallingInv ==
  ASSUME Inv, NEW t \in Threads, Statement(t) \/ ReturnConnection(t) \/ Push(t)
  PROVE  Inv'
<1> USE ThreadsAssumption, PoolAssumption DEF Inv
<1>1. con[t] \in Cons /\ at[t] = "out" /\ call[t] \in {"using", "returning", "pushing"}
  BY DEF TypeOK, CallInv, Statement, ReturnConnection, Push
<1>2. CASE Statement(t) \/ ReturnConnection(t)
  <2>1. UNCHANGED <<queueVars, poolVars, op>>
    BY <1>2 DEF Statement, ReturnConnection
  <2>2. TypeOK'
    BY <1>1, <1>2 DEF Statement, ReturnConnection, queueVars, poolVars, TypeOK, Cons
  <2>3. LockInv' /\ PopFindsData'
    BY <2>1 DEF queueVars, LockInv, PopFindsData
  <2>4. CallInv' /\ OwnerInv'
    BY <1>1, <1>2 DEF Statement, ReturnConnection, queueVars, poolVars, TypeOK, CallInv, OwnerInv
  <2> QED BY <2>2, <2>3, <2>4
<1>3. CASE Push(t)
  <2>1. queue' = Append(queue, con[t]) /\ queue' \in Seq(Cons) /\ queue' # <<>>
    BY <1>1, <1>3 DEF Push, push, TypeOK
  <2>2. UNCHANGED at \/ \E s \in Asleep : at' = [at EXCEPT ![s] = "lock"]
    BY <1>3 DEF Push, push, GoTo
  <2>3. /\ UNCHANGED <<HeadMutex_, poolVars, op, thrown, freed>>
        /\ call' = [call EXCEPT ![t] = "idle"] /\ con' = [con EXCEPT ![t] = NoCon]
        /\ missed' \in BOOLEAN
    BY <1>3 DEF Push, push, TypeOK
  <2>4. TypeOK'
    BY <2>1, <2>2, <2>3 DEF TypeOK, Cons, poolVars, Asleep
  <2>5. LockInv'
    BY <2>2, <2>3 DEF LockInv, TypeOK, Asleep
  <2>6. PopFindsData'
    BY <2>1 DEF PopFindsData
  <2>7. CallInv' /\ OwnerInv'
    BY <1>1, <2>2, <2>3 DEF CallInv, OwnerInv, TypeOK, Asleep, poolVars
  <2> QED BY <2>4, <2>5, <2>6, <2>7
<1> QED BY <1>2, <1>3

\* Closing and destroying the pool.
LEMMA OwnerStepInv ==
  ASSUME Inv, close \/ Destroy \/ OwnerStep
  PROVE  Inv'
<1> USE ThreadsAssumption, PoolAssumption DEF Inv
<1>1. CASE close \/ Destroy
  <2>1. UNCHANGED <<size_, queue, HeadMutex_, at, missed, call, op, con, thrown, freed>>
    BY <1>1 DEF close, Destroy, queueVars, mysqlVars
  <2>2. runing_' \in BOOLEAN /\ owner' \in {"closing", "draining"}
    BY <1>1 DEF close, Destroy, TypeOK
  <2>3. TypeOK'
    BY <2>1, <2>2 DEF TypeOK, Cons
  <2>4. LockInv' /\ CallInv' /\ PopFindsData'
    BY <2>1 DEF LockInv, CallInv, PopFindsData
  <2>5. OwnerInv'
    BY <1>1, <2>1 DEF close, Destroy, OwnerInv, TypeOK
  <2> QED BY <2>3, <2>4, <2>5
<1>2. CASE CloseNotifies
  <2>1. at' = [t \in Threads |-> IF at[t] = "asleep" THEN "lock" ELSE at[t]]
    BY <1>2 DEF CloseNotifies, NotifyAll, Asleep
  <2>2. UNCHANGED <<queue, HeadMutex_, missed, size_, runing_, mysqlVars>>
        /\ owner = "closing" /\ owner' = "closed"
    BY <1>2 DEF CloseNotifies, NotifyAll
  <2> QED BY <2>1, <2>2 DEF mysqlVars, TypeOK, LockInv, CallInv, OwnerInv, PopFindsData, Cons
<1>3. CASE Drain
  <2>1. \A t \in Threads : at[t] = "out"
    BY <1>3 DEF Drain, OwnerInv, CallInv
  <2>2. UNCHANGED <<size_, runing_, HeadMutex_, at, missed, call, op, con, thrown>>
        /\ owner = "draining" /\ owner' \in {"draining", "gone"}
    BY <1>3 DEF Drain
  <2>3. queue' \in Seq(Cons) /\ freed' \subseteq Cons
    <3>1. CASE queue = <<>>
      BY <1>3, <3>1 DEF Drain, TypeOK
    <3>2. CASE queue # <<>>
      <4>1. Tail(queue) \in Seq(Cons) /\ Head(queue) \in Cons
        BY <3>2, HeadTailProperties DEF TypeOK
      <4> QED BY <1>3, <3>2, <4>1 DEF Drain, TypeOK
    <3> QED BY <3>1, <3>2
  <2> QED BY <2>1, <2>2, <2>3 DEF TypeOK, LockInv, CallInv, OwnerInv, PopFindsData, Cons
<1> QED BY <1>1, <1>2, <1>3 DEF OwnerStep

\* The inductive step.
LEMMA NextInv == Inv /\ [Next]_vars => Inv'
<1> SUFFICES ASSUME Inv, [Next]_vars PROVE Inv'
  OBVIOUS
<1>1. ASSUME NEW t \in Threads, NEW o \in Ops, GetConnection(t, o) PROVE Inv'
  BY <1>1, GettingInv
<1>2. ASSUME NEW t \in Threads, Waiting(t) \/ Spurious(t) PROVE Inv'
  BY <1>2, WaitingInv
<1>3. ASSUME NEW t \in Threads, Calling(t) PROVE Inv'
  BY <1>3, GettingInv, CallingInv DEF Calling
<1>4. CASE close \/ Destroy \/ OwnerStep
  BY <1>4, OwnerStepInv
<1>5. CASE UNCHANGED vars
  BY <1>5 DEF vars, queueVars, poolVars, mysqlVars, Inv, TypeOK, LockInv, CallInv, OwnerInv,
              PopFindsData, Cons
<1> QED BY <1>1, <1>2, <1>3, <1>4, <1>5 DEF Next

\* Every reachable state has the invariant.
LEMMA Invariance == SafeSpec => []Inv
<1> QED BY InitInv, NextInv, PTL DEF SafeSpec

\* The state of the pool, its queue and its callers is well typed.
THEOREM TypeCorrect == SafeSpec => []TypeOK
<1>1. Inv => TypeOK
  BY DEF Inv
<1> QED BY <1>1, Invariance, PTL

\* ThreadSafeQueue::PopHead never moves from an empty list.
THEOREM PopNeverEmpty == SafeSpec => []PopFindsData
<1>1. Inv => PopFindsData
  BY DEF Inv
<1> QED BY <1>1, Invariance, PTL

-----------------------------------------------------------------------------
(* Where the connections are.                                              *)

Values(q) == {q[k] : k \in DOMAIN q}
Distinct(q) == \A i, j \in DOMAIN q : q[i] = q[j] => i = j

\* What is left of a queue without repetition when its head is taken.
LEMMA TailValues ==
  ASSUME NEW S, NEW q \in Seq(S), q # <<>>, Distinct(q)
  PROVE  /\ Distinct(Tail(q))
         /\ Values(Tail(q)) = Values(q) \ {Head(q)}
         /\ Head(q) \in Values(q)
<1>1. /\ Len(q) \in Nat \ {0} /\ DOMAIN q = 1..Len(q) /\ Head(q) = q[1]
      /\ DOMAIN Tail(q) = 1..(Len(q) - 1)
      /\ \A k \in 1..(Len(q) - 1) : Tail(q)[k] = q[k + 1]
  OBVIOUS
<1>2. Distinct(Tail(q))
  BY <1>1 DEF Distinct
<1>3. ASSUME NEW v \in Values(Tail(q)) PROVE v \in Values(q) \ {Head(q)}
  <2>1. PICK k \in 1..(Len(q) - 1) : v = q[k + 1]
    BY <1>1, <1>3 DEF Values
  <2> QED BY <1>1, <2>1 DEF Values, Distinct
<1>4. ASSUME NEW v \in Values(q) \ {Head(q)} PROVE v \in Values(Tail(q))
  <2>1. PICK k \in 1..Len(q) : v = q[k]
    BY <1>1, <1>4 DEF Values
  <2>2. k - 1 \in 1..(Len(q) - 1) /\ Tail(q)[k - 1] = v
    BY <1>1, <1>4, <2>1
  <2> QED BY <1>1, <2>2 DEF Values
<1> QED BY <1>1, <1>2, <1>3, <1>4 DEF Values

\* What a queue has when a new value is put into it.
LEMMA AppendValues ==
  ASSUME NEW S, NEW q \in Seq(S), NEW v \in S, v \notin Values(q), Distinct(q)
  PROVE  /\ Distinct(Append(q, v))
         /\ Values(Append(q, v)) = Values(q) \cup {v}
<1>1. /\ Len(q) \in Nat /\ DOMAIN q = 1..Len(q)
      /\ DOMAIN Append(q, v) = 1..(Len(q) + 1)
      /\ \A k \in 1..Len(q) : Append(q, v)[k] = q[k]
      /\ Append(q, v)[Len(q) + 1] = v
  OBVIOUS
<1>2. \A k \in 1..Len(q) : q[k] # v
  BY <1>1 DEF Values
<1>3. Distinct(Append(q, v))
  BY <1>1, <1>2 DEF Distinct
<1>4. Values(Append(q, v)) = Values(q) \cup {v}
  BY <1>1 DEF Values
<1> QED BY <1>3, <1>4

\* Every connection has one place when the pool has been made.
LEMMA InitHolder == Init => OneHolder
<1> SUFFICES ASSUME Init PROVE OneHolder
  OBVIOUS
<1>1. size_ \in Nat /\ DOMAIN queue = 1..size_ /\ \A k \in 1..size_ : queue[k] = k
  BY PoolAssumption DEF Init
<1>2. Idle = Cons /\ Held = {} /\ NoCon \notin Cons
  BY <1>1, PoolAssumption DEF Init, Idle, Held, Cons
<1> QED BY <1>1, <1>2 DEF Init, OneHolder

\* Every call moves a connection from one place to another.
LEMMA NextHolder == Inv /\ OneHolder /\ [Next]_vars => OneHolder'
<1> SUFFICES ASSUME Inv, OneHolder, [Next]_vars PROVE OneHolder'
  OBVIOUS
<1>a. /\ queue \in Seq(Cons) /\ Distinct(queue) /\ Idle = Values(queue)
      /\ con \in [Threads -> Cons \cup {NoCon}] /\ NoCon \notin Cons
      /\ size_ \in 0..MaxSize
  BY PoolAssumption DEF Inv, TypeOK, OneHolder, Distinct, Idle, Values, Cons
<1>b. ASSUME UNCHANGED <<size_, queue, con, thrown, freed>>, runing_' => runing_
      PROVE  OneHolder'
  BY <1>b DEF OneHolder, Idle, Held, Cons
<1>1. ASSUME NEW t \in Threads, NEW o \in Ops, GetConnection(t, o) PROVE OneHolder'
  BY <1>1, <1>b DEF GetConnection, poolVars
<1>2. ASSUME NEW t \in Threads, Waiting(t) \/ Spurious(t) PROVE OneHolder'
  BY <1>2, <1>b DEF Waiting, Spurious, Lock, Test, Sleep, WakeSpuriously, poolVars, mysqlVars
<1>3. ASSUME NEW t \in Threads, GotConnection(t) PROVE OneHolder'
  <2>1. /\ queue # <<>> /\ queue' = Tail(queue) /\ con' = [con EXCEPT ![t] = Head(queue)]
        /\ UNCHANGED <<size_, runing_, thrown, freed>> /\ con[t] = NoCon
    BY <1>3 DEF GotConnection, PopHead, poolVars, Inv, CallInv
  <2>2. /\ Distinct(queue') /\ Values(queue') = Idle \ {Head(queue)}
        /\ Head(queue) \in Idle /\ Head(queue) # NoCon
    BY <1>a, <2>1, TailValues, HeadTailProperties
  <2>3. Idle' = Idle \ {Head(queue)}
    BY <2>2 DEF Idle, Values
  <2>4. Held' = Held \cup {Head(queue)}
    BY <1>a, <2>1, <2>2 DEF Held
  <2>5. \A s \in Threads : con[s] # Head(queue)
    BY <2>2 DEF OneHolder
  <2>6. /\ \A r, s \in Threads : con'[r] = con'[s] /\ con'[r] # NoCon => r = s
        /\ \A s \in Threads : con'[s] \notin Idle' \cup thrown \cup freed
    BY <1>a, <2>1, <2>2, <2>3, <2>5 DEF OneHolder
  <2>7. Cons' = Idle' \cup Held' \cup thrown \cup freed /\ Idle' \cap (thrown \cup freed) = {}
    BY <2>1, <2>2, <2>3, <2>4 DEF OneHolder, Cons
  <2> QED BY <2>1, <2>2, <2>6, <2>7 DEF OneHolder, Distinct
<1>4. ASSUME NEW t \in Threads, Statement(t) \/ ReturnConnection(t) PROVE OneHolder'
  <2>1. UNCHANGED <<size_, queue, runing_>>
    BY <1>4 DEF Statement, ReturnConnection, queueVars, poolVars
  <2>2. con[t] \in Held /\ con[t] # NoCon
    BY <1>4 DEF Inv, CallInv, Statement, ReturnConnection, Held
  <2>3. CASE UNCHANGED con
    <3>1. con' # [con EXCEPT ![t] = NoCon]
      BY <1>a, <2>2, <2>3
    <3> QED BY <1>4, <1>b, <2>1, <3>1 DEF Statement, ReturnConnection
  <2>4. CASE con' = [con EXCEPT ![t] = NoCon] /\ thrown' \cup freed' = thrown \cup freed \cup {con[t]}
               /\ (runing_ => freed' = freed)
    <3>1. Held' = Held \ {con[t]}
      BY <1>a, <2>2, <2>4 DEF Held, OneHolder
    <3>2. Idle' = Idle
      BY <2>1 DEF Idle
    <3> QED BY <1>a, <2>1, <2>2, <2>4, <3>1, <3>2 DEF OneHolder, Cons
  <2> QED BY <1>4, <2>3, <2>4 DEF Statement, ReturnConnection
<1>5. ASSUME NEW t \in Threads, Push(t) PROVE OneHolder'
  <2>1. /\ queue' = Append(queue, con[t]) /\ con' = [con EXCEPT ![t] = NoCon]
        /\ UNCHANGED <<size_, runing_, thrown, freed>> /\ con[t] # NoCon
    BY <1>5 DEF Push, push, poolVars, Inv, CallInv
  <2>2. Distinct(queue') /\ Values(queue') = Idle \cup {con[t]}
    BY <1>a, <2>1, AppendValues DEF OneHolder
  <2>3. Idle' = Idle \cup {con[t]}
    BY <2>2 DEF Idle, Values
  <2>4. Held' = Held \ {con[t]} /\ con[t] \in Held
    BY <1>a, <2>1 DEF Held, OneHolder
  <2> QED BY <1>a, <2>1, <2>2, <2>3, <2>4 DEF OneHolder, Distinct, Cons
<1>6. CASE Drain
  <2>1. CASE queue = <<>>
    BY <1>6, <2>1, <1>b DEF Drain
  <2>2. CASE queue # <<>>
    <3>1. /\ queue' = Tail(queue) /\ freed' = freed \cup {Head(queue)} /\ ~runing_
          /\ UNCHANGED <<size_, runing_, con, thrown>>
      BY <1>6, <2>2 DEF Drain, Inv, OwnerInv
    <3>2. Distinct(queue') /\ Values(queue') = Idle \ {Head(queue)} /\ Head(queue) \in Idle
      BY <1>a, <2>2, <3>1, TailValues
    <3>3. Idle' = Idle \ {Head(queue)} /\ Held' = Held
      BY <3>1, <3>2 DEF Idle, Values, Held
    <3> QED BY <1>a, <3>1, <3>2, <3>3 DEF OneHolder, Distinct, Cons
  <2> QED BY <2>1, <2>2
<1>7. CASE close \/ Destroy \/ CloseNotifies
  BY <1>7, <1>b DEF close, Destroy, CloseNotifies, NotifyAll, queueVars, mysqlVars
<1>8. CASE UNCHANGED vars
  BY <1>8, <1>b DEF vars, queueVars, poolVars, mysqlVars
<1> QED BY <1>1, <1>2, <1>3, <1>4, <1>5, <1>6, <1>7, <1>8 DEF Next, Calling, OwnerStep

\* No two statements of different threads ever share a connection, and none is
\* lost but with a query that threw, for any number of threads.
THEOREM ConnectionsHaveOneHolder == SafeSpec => []OneHolder
<1> QED BY Invariance, InitHolder, NextHolder, PTL DEF SafeSpec

-----------------------------------------------------------------------------
(* The wakeups.                                                            *)

\* The threads on their way to the queue.
Coming == {t \in Threads : at[t] \in {"lock", "test", "pop"}}
Resting == \E t \in Threads : at[t] \in {"tested", "asleep"}

\* They are finitely many.
LEMMA ComingFinite == IsFiniteSet(Coming) /\ Cardinality(Coming) \in Nat
<1>1. Coming \subseteq Threads
  BY DEF Coming
<1> QED BY <1>1, ThreadsAssumption, FS_Subset, FS_CardinalityType

\* Every thread that goes to sleep, comes or takes a connection, and every
\* connection that is put back, leaves enough threads awake.
LEMMA NextCover == Inv /\ WakeupsCover /\ [Next]_vars => WakeupsCover'
<1> SUFFICES ASSUME Inv, WakeupsCover, [Next]_vars, Resting', ~missed'
             PROVE  Len(queue') <= Cardinality(Coming')
  BY DEF WakeupsCover, Resting, Coming
<1>a. /\ IsFiniteSet(Coming) /\ Cardinality(Coming) \in Nat
      /\ IsFiniteSet(Coming') /\ Cardinality(Coming') \in Nat
      /\ at \in [Threads -> {"out", "lock", "test", "tested", "asleep", "pop"}]
      /\ queue \in Seq(Cons) /\ Len(queue) \in Nat
  <2>1. Coming' \subseteq Threads
    BY DEF Coming
  <2> QED BY <2>1, ComingFinite, ThreadsAssumption, FS_Subset, FS_CardinalityType DEF Inv, TypeOK
<1>b. Resting /\ ~missed => Len(queue) <= Cardinality(Coming)
  BY DEF WakeupsCover, Resting, Coming
<1>c. ASSUME UNCHANGED queue, Coming \subseteq Coming', Resting, ~missed
      PROVE  Len(queue') <= Cardinality(Coming')
  <2>1. Cardinality(Coming) <= Cardinality(Coming')
    BY <1>a, <1>c, FS_Subset
  <2> QED BY <1>a, <1>b, <1>c, <2>1
<1>d. ASSUME UNCHANGED <<queue, at, missed>>
      PROVE  Len(queue') <= Cardinality(Coming')
  BY <1>c, <1>d DEF Coming, Resting
<1>1. ASSUME NEW t \in Threads, NEW o \in Ops, GetConnection(t, o)
      PROVE  Len(queue') <= Cardinality(Coming')
  <2>1. UNCHANGED <<queue, missed>> /\ at' = [at EXCEPT ![t] = "lock"] /\ at[t] = "out"
    BY <1>1 DEF GetConnection, GoTo, Inv, CallInv
  <2>2. Resting /\ Coming \subseteq Coming'
    BY <1>a, <2>1 DEF Resting, Coming
  <2> QED BY <1>c, <2>1, <2>2
<1>2. ASSUME NEW t \in Threads, Waiting(t) \/ Spurious(t)
      PROVE  Len(queue') <= Cardinality(Coming')
  <2>0. UNCHANGED <<queue, missed>>
    BY <1>2 DEF Waiting, Spurious, Lock, Test, Sleep, WakeSpuriously
  <2>1. CASE queue = <<>>
    BY <1>a, <2>0, <2>1
  <2>2. CASE queue # <<>>
    <3>1. Resting /\ Coming \subseteq Coming'
      BY <1>2, <1>a, <2>2 DEF Waiting, Spurious, Lock, Test, Sleep, WakeSpuriously, GoTo, Resting, Coming
    <3> QED BY <1>c, <2>0, <3>1
  <2> QED BY <2>1, <2>2
<1>3. ASSUME NEW t \in Threads, GotConnection(t)
      PROVE  Len(queue') <= Cardinality(Coming')
  <2>1. /\ queue # <<>> /\ queue' = Tail(queue) /\ UNCHANGED missed
        /\ at[t] = "pop" /\ at' = [at EXCEPT ![t] = "out"]
    BY <1>3 DEF GotConnection, PopHead, GoTo
  <2>2. Resting /\ t \in Coming /\ Coming' = Coming \ {t}
    BY <1>a, <2>1 DEF Resting, Coming
  <2>3. Cardinality(Coming') = Cardinality(Coming) - 1
    BY <1>a, <2>2, FS_RemoveElement
  <2>4. Len(queue') = Len(queue) - 1
    BY <1>a, <2>1
  <2> QED BY <1>a, <1>b, <2>1, <2>2, <2>3, <2>4
<1>4. ASSUME NEW t \in Threads, Statement(t) \/ ReturnConnection(t)
      PROVE  Len(queue') <= Cardinality(Coming')
  BY <1>4, <1>d DEF Statement, ReturnConnection, queueVars
<1>5. ASSUME NEW t \in Threads, Push(t)
      PROVE  Len(queue') <= Cardinality(Coming')
  <2>1. queue' = Append(queue, con[t]) /\ Len(queue') = Len(queue) + 1
    BY <1>5, <1>a DEF Push, push
  <2>2. Asleep # {}
    BY <1>5 DEF Push, push, Asleep, Resting
  <2>3. PICK s \in Asleep : at' = [at EXCEPT ![s] = "lock"]
    BY <1>5, <2>2 DEF Push, push, GoTo
  <2>4. UNCHANGED missed
    BY <1>5, <2>2 DEF Push, push
  <2>5. Resting /\ s \notin Coming /\ Coming' = Coming \cup {s}
    BY <1>a, <2>3 DEF Resting, Coming, Asleep
  <2>6. Cardinality(Coming') = Cardinality(Coming) + 1
    BY <1>a, <2>5, FS_AddElement
  <2> QED BY <1>a, <1>b, <2>1, <2>4, <2>5, <2>6
<1>6. CASE CloseNotifies
  <2>1. UNCHANGED <<queue, missed>>
        /\ at' = [t \in Threads |-> IF t \in Asleep THEN "lock" ELSE at[t]]
    BY <1>6 DEF CloseNotifies, NotifyAll
  <2>2. Resting /\ Coming \subseteq Coming'
    BY <1>a, <2>1 DEF Resting, Coming, Asleep
  <2> QED BY <1>c, <2>1, <2>2
<1>7. CASE Drain
  <2>1. \A t \in Threads : at'[t] = "out"
    BY <1>7 DEF Drain, Inv, OwnerInv, CallInv
  <2> QED BY <2>1 DEF Resting
<1>8. CASE close \/ Destroy \/ UNCHANGED vars
  BY <1>8, <1>d DEF close, Destroy, vars, queueVars
<1> QED BY <1>1, <1>2, <1>3, <1>4, <1>5, <1>6, <1>7, <1>8 DEF Next, Calling, OwnerStep

\* Unless a notification comes between a test and its sleep, no thread sleeps
\* while more connections are idle than threads are on their way to them.
THEOREM NoWakeupIsLost == SafeSpec => []WakeupsCover
<1>1. Init => WakeupsCover
  BY DEF Init, WakeupsCover
<1> QED BY <1>1, Invariance, NextCover, PTL DEF SafeSpec
=============================================================================
