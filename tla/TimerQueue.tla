----------------------------- MODULE TimerQueue -----------------------------
(***************************************************************************)
(* The TimerQueue (src/src/net/TimerQueue.cpp) of an EventLoop, with Timer *)
(* and Timestamp.  The loop's thread and others add and cancel timers; the *)
(* loop keeps them in the set timers_, sets the timerfd for the first one, *)
(* and when that is readable runs those whose time has come and starts the *)
(* repeating ones again.                                                   *)
(*                                                                         *)
(* A Timer is named by its id, its place in timer.  functors stands for    *)
(* the loop's queue, which calls each functor once and in order (the       *)
(* refinement of SerialExecutor by EventLoop).                             *)
(***************************************************************************)
EXTENDS Integers, Sequences, SequencesExt, FiniteSets

CONSTANTS
  kSecond,      \* 1000000: ticks of the real clock (microseconds) in a second
  kMilli,       \* 1000: the factor of Timestamp::now() and of the delays
  Delays,       \* the delays that users ask for
  Times,        \* the times that users give to RunAt
  MaxTime,      \* bound: the real clock stops here
  MaxTimers     \* bound: how many timers are made

ASSUME TimerAssumption ==
  /\ kSecond \in Nat \ {0} /\ kMilli \in Nat \ {0} /\ kMilli <= kSecond
  /\ Delays \subseteq Nat /\ Times \subseteq Nat
  /\ MaxTime \in Nat /\ MaxTimers \in Nat

VARIABLES
  time,         \* the real clock
  timerfd,      \* when the timerfd expires, in real time; 0: disarmed
  timer,        \* the Timer objects, by id; TotalNum_ is their number
  timers_,      \* the std::set, in the order of its iterator
  CallingExpiredTimers_, CancelTimers_,
  expired, at,  \* HandleRead: the timers taken out and the last one treated
  nowAt,        \* when HandleRead read the clock, in real time
  pc,           \* where the loop is: "idle", "active", "callbacks", "reset"
  made,         \* timers that other threads have made and not yet queued
  functors,     \* the loop's queue
  fatal,        \* LOG_FATAL has aborted the process
  settime,      \* history: the last ResetTimerfd, its expiration and the real
                \* time of its two readings of the clock
  gone,         \* history: timers that were erased or have run for the last time
  cancelled     \* history: timers that a functor has cancelled

clockVars == <<time, timerfd, fatal, settime>>
cancelVars == <<CallingExpiredTimers_, CancelTimers_>>
batchVars == <<expired, at, nowAt, pc>>
historyVars == <<gone, cancelled>>
vars == <<clockVars, timer, timers_, cancelVars, batchVars, made, functors, historyVars>>

-----------------------------------------------------------------------------
(* Timestamp and ResetTimerfd.                                             *)

\* Timestamp::now() when the real clock shows t: the seconds count
\* thousandths and the rest is in microseconds.
Now(t) == (t \div kSecond) * kMilli + (t % kSecond)

\* Division and remainder of C++, towards zero.
Quotient(a, b) == IF a >= 0 THEN a \div b ELSE -((-a) \div b)
Remainder(a, b) == a - b * Quotient(a, b)

\* Mutant: a tick less is set, so that the timerfd is not late.
ResetTimerfdEager(expiration) ==
  LET rest == expiration - Now(time) - 1
  IN  /\ fatal' = (rest < 0)
      /\ timerfd' = IF rest < 0 THEN timerfd ELSE time + rest
      /\ settime' = <<expiration, time, time>>
      /\ UNCHANGED time

\* The clock is read twice; any time may have passed before either reading.
\* timerfd_settime refuses a negative time, which is fatal, and takes 0 for
\* disarming; what has not been read of an earlier expiration is forgotten.
ResetTimerfd(expiration) ==
  \E t1 \in time..MaxTime : \E t2 \in t1..MaxTime :
    LET sec == Quotient(expiration - Now(t1), kMilli)
        rest == Remainder(expiration - Now(t2), kMilli)
    IN  /\ time' = t2
        /\ settime' = <<expiration, t1, t2>>
        /\ IF sec < 0 \/ rest < 0
           THEN fatal' = TRUE /\ UNCHANGED timerfd
           ELSE /\ timerfd' = IF sec = 0 /\ rest = 0 THEN 0
                              ELSE t2 + sec * kSecond + rest
                /\ UNCHANGED fatal

-----------------------------------------------------------------------------
(* The set of timers.                                                      *)

\* Mutant: the time alone decides.
BeforeByTime(tm, a, b) == tm[a].expiration < tm[b].expiration

\* ExpiredTimer::operator<: the id decides also when the time is later.
Before(tm, a, b) == tm[a].expiration < tm[b].expiration \/ a < b

\* Where the search in the tree can end for timer i: not before the element
\* in front of it and before the one that follows.  The order is not a
\* strict weak one, so there may be several places, and the shape of the
\* tree decides.
Places(tm, i) ==
  {p \in 1..Len(timers_) + 1 :
     /\ p > 1 => ~Before(tm, i, timers_[p - 1])
     /\ p <= Len(timers_) => Before(tm, i, timers_[p])}

\* timers_.insert: i is left out if the element in front is not before it.
InsertedAt(tm, i, p) ==
  IF p > 1 /\ ~Before(tm, timers_[p - 1], i) THEN timers_
  ELSE InsertAt(timers_, p, i)

insert(tm, i) == \E p \in Places(tm, i) : timers_' = InsertedAt(tm, i, p)

\* What insert returns.
EarliestChanged(tm, i) ==
  timers_ = <<>> \/ tm[i].expiration < tm[Head(timers_)].expiration

AddTimerInLoop(tm, i) ==
  /\ insert(tm, i)
  /\ IF EarliestChanged(tm, i) THEN ResetTimerfd(tm[i].expiration)
     ELSE UNCHANGED clockVars

CancelTimerInLoop(i) ==
  IF i \in ToSet(timers_)
  THEN /\ \E it \in DOMAIN timers_ : timers_[it] = i /\ timers_' = RemoveAt(timers_, it)
       /\ gone' = gone \cup {i}
       /\ UNCHANGED CancelTimers_
  ELSE /\ CancelTimers_' = IF CallingExpiredTimers_ THEN CancelTimers_ \cup {i}
                           ELSE CancelTimers_
       /\ UNCHANGED <<timers_, gone>>

-----------------------------------------------------------------------------

Init ==
  /\ time = 0 /\ timerfd = 0 /\ fatal = FALSE /\ settime = <<0, 0, 0>>
  /\ timer = <<>> /\ timers_ = <<>>
  /\ CallingExpiredTimers_ = FALSE /\ CancelTimers_ = {}
  /\ expired = <<>> /\ at = 0 /\ nowAt = 0 /\ pc = "idle"
  /\ made = {} /\ functors = <<>>
  /\ gone = {} /\ cancelled = {}

\* The real clock.
Tick ==
  /\ time < MaxTime
  /\ time' = time + 1
  /\ UNCHANGED <<timerfd, fatal, settime, timer, timers_, cancelVars, batchVars, made,
                 functors, historyVars>>

\* What RunAt, RunAfterS, RunAfterMs, RunEveryS and RunEveryMs make: RunAt
\* takes any time, also one that has passed; the others read the clock.
After(delay, interval) ==
  [expiration |-> Now(time) + delay, interval |-> interval]

NewTimers ==
  {[expiration |-> t, interval |-> 0] : t \in Times} \cup
  UNION { { After(d * kMilli, 0), After(d, 0),
            After(d * kMilli, d * kMilli), After(d * kMilli, d) } : d \in Delays }

repeat(tm) == tm.interval > 0

-----------------------------------------------------------------------------
(* Other threads.                                                          *)

\* AddTimer: the Timer is made ...
MakeTimer ==
  /\ Len(timer) < MaxTimers
  /\ \E tm \in NewTimers : timer' = Append(timer, tm)
  /\ made' = made \cup {Len(timer) + 1}
  /\ UNCHANGED <<clockVars, timers_, cancelVars, batchVars, functors, historyVars>>

\* ... and RunInLoop queues it, before AddTimer returns its id.
AddTimer(i) ==
  /\ i \in made
  /\ functors' = Append(functors, <<"add", i>>)
  /\ made' = made \ {i}
  /\ UNCHANGED <<clockVars, timer, timers_, cancelVars, batchVars, historyVars>>

\* Mutant: cancel does not go through the queue.
CancelAtOnce(i) ==
  /\ i \in DOMAIN timer \ made
  /\ pc = "idle"
  /\ CancelTimerInLoop(i)
  /\ cancelled' = cancelled \cup {i}
  /\ UNCHANGED <<clockVars, timer, CallingExpiredTimers_, batchVars, made, functors>>

\* Bound: one functor per timer at a time.
cancel(i) ==
  /\ i \in DOMAIN timer \ made
  /\ <<"cancel", i>> \notin ToSet(functors)
  /\ functors' = Append(functors, <<"cancel", i>>)
  /\ UNCHANGED <<clockVars, timer, timers_, cancelVars, batchVars, made, historyVars>>

-----------------------------------------------------------------------------
(* The loop's thread.                                                      *)

RunFunctor ==
  /\ pc = "idle" /\ functors # <<>>
  /\ functors' = Tail(functors)
  /\ LET i == Head(functors)[2] IN
       \/ /\ Head(functors)[1] = "add"
          /\ AddTimerInLoop(timer, i)
          /\ UNCHANGED <<CancelTimers_, historyVars>>
       \/ /\ Head(functors)[1] = "cancel"
          /\ CancelTimerInLoop(i)
          /\ cancelled' = cancelled \cup {i}
          /\ UNCHANGED clockVars
  /\ UNCHANGED <<timer, CallingExpiredTimers_, batchVars, made>>

\* User code runs in the loop's thread: a functor, the handler of another
\* channel, or the callback of a timer.
UserCode == pc \in {"idle", "active"} \/ (pc = "callbacks" /\ at > 0)

\* The time that passes between the reading of the clock for a delay and
\* those of ResetTimerfd may make a short delay overdue.
UserAdds ==
  /\ UserCode
  /\ Len(timer) < MaxTimers
  /\ \E tm \in NewTimers : timer' = Append(timer, tm)
  /\ AddTimerInLoop(timer', Len(timer'))
  /\ UNCHANGED <<cancelVars, batchVars, made, functors, historyVars>>

UserCancels(i) ==
  /\ UserCode
  /\ i \in DOMAIN timer \ made
  /\ CancelTimerInLoop(i)
  /\ UNCHANGED <<clockVars, timer, CallingExpiredTimers_, batchVars, made, functors, cancelled>>

\* Poller: the timerfd is readable.
Poll ==
  /\ pc = "idle"
  /\ timerfd > 0 /\ time >= timerfd
  /\ pc' = "active"
  /\ UNCHANGED <<clockVars, timer, timers_, cancelVars, expired, at, nowAt, made, functors,
                 historyVars>>

\* How many elements stand before the first that is not due.
Due(now) ==
  CHOOSE n \in 0..Len(timers_) :
    /\ \A i \in 1..n : timer[timers_[i]].expiration <= now
    /\ n < Len(timers_) => timer[timers_[n + 1]].expiration > now

NotDue(n) == SubSeq(timers_, n + 1, Len(timers_))

\* HandleRead up to the first callback: reads the timerfd, if it can still
\* be read, and takes the expired timers out.
HandleRead ==
  /\ pc = "active"
  /\ timerfd' = IF time >= timerfd THEN 0 ELSE timerfd
  /\ nowAt' = time
  /\ LET n == Due(Now(time)) IN
       /\ expired' = SubSeq(timers_, 1, n)
       /\ timers_' = NotDue(n)
  /\ CallingExpiredTimers_' = FALSE
  /\ pc' = "callbacks" /\ at' = 0
  /\ UNCHANGED <<time, fatal, settime, timer, CancelTimers_, made, functors, historyVars>>

\* The callback of the next timer is called; UserAdds and UserCancels may
\* follow before it returns.
RunTimer ==
  /\ pc = "callbacks" /\ at < Len(expired)
  /\ at' = at + 1
  /\ UNCHANGED <<clockVars, timer, timers_, cancelVars, expired, nowAt, pc, made, functors,
                 historyVars>>

CallbacksDone ==
  /\ pc = "callbacks" /\ at = Len(expired)
  /\ CallingExpiredTimers_' = FALSE
  /\ pc' = "reset" /\ at' = 0
  /\ UNCHANGED <<clockVars, timer, timers_, CancelTimers_, expired, nowAt, made, functors,
                 historyVars>>

\* Timer::restart, which is called for repeating timers only.
Restarted(tm) == [tm EXCEPT !.expiration = Now(nowAt) + tm.interval]

\* reset: restart and insert, for the timers of the batch that repeat.
restart ==
  /\ pc = "reset" /\ at < Len(expired)
  /\ at' = at + 1
  /\ LET i == expired[at + 1] IN
       IF repeat(timer[i]) /\ i \notin CancelTimers_
       THEN /\ timer' = [timer EXCEPT ![i] = Restarted(@)]
            /\ insert(timer', i)
            /\ UNCHANGED gone
       ELSE gone' = gone \cup {i} /\ UNCHANGED <<timer, timers_>>
  /\ UNCHANGED <<clockVars, cancelVars, expired, nowAt, pc, made, functors, cancelled>>

\* Mutant: the timerfd is set again only if a timer has expired.
resetAfterRun ==
  /\ pc = "reset" /\ at = Len(expired)
  /\ IF timers_ # <<>> /\ expired # <<>> THEN ResetTimerfd(timer[Head(timers_)].expiration)
     ELSE UNCHANGED clockVars
  /\ expired' = <<>> /\ at' = 0
  /\ pc' = "idle"
  /\ UNCHANGED <<timer, timers_, cancelVars, nowAt, made, functors, historyVars>>

\* reset, its end: the timerfd is set for the first timer.
reset ==
  /\ pc = "reset" /\ at = Len(expired)
  /\ IF timers_ # <<>> THEN ResetTimerfd(timer[Head(timers_)].expiration)
     ELSE UNCHANGED clockVars
  /\ expired' = <<>> /\ at' = 0
  /\ pc' = "idle"
  /\ UNCHANGED <<timer, timers_, cancelVars, nowAt, made, functors, historyVars>>

-----------------------------------------------------------------------------

Next ==
  /\ ~fatal
  /\ \/ Tick
     \/ MakeTimer
     \/ \E i \in made : AddTimer(i)
     \/ \E i \in DOMAIN timer : cancel(i)
     \/ RunFunctor
     \/ UserAdds
     \/ \E i \in DOMAIN timer : UserCancels(i)
     \/ Poll \/ HandleRead \/ RunTimer \/ CallbacksDone \/ restart \/ reset

Spec == Init /\ [][Next]_vars

-----------------------------------------------------------------------------
(* Properties.                                                             *)

Ids == 1..Len(timer)

\* Type invariant; a deadline that the kernel accepted is not negative, and
\* no timer is in the set twice.
TypeOK ==
  /\ time \in 0..MaxTime /\ timerfd \in Nat /\ fatal \in BOOLEAN
  /\ settime \in Nat \X (0..MaxTime) \X (0..MaxTime)
  /\ timer \in Seq([expiration : Nat, interval : Nat])
  /\ Len(timer) <= MaxTimers
  /\ timers_ \in Seq(Ids) /\ IsInjective(timers_)
  /\ CallingExpiredTimers_ \in BOOLEAN /\ CancelTimers_ \subseteq Ids
  /\ expired \in Seq(Ids) /\ at \in 0..Len(expired) /\ nowAt \in 0..MaxTime
  /\ pc \in {"idle", "active", "callbacks", "reset"}
  /\ made \subseteq Ids
  /\ functors \in Seq({"add", "cancel"} \X Ids)
  /\ gone \subseteq Ids /\ cancelled \subseteq Ids

\* The timers of the batch that restart has not yet dealt with.
InBatch ==
  IF pc = "reset" THEN ToSet(SubSeq(expired, at + 1, Len(expired))) ELSE ToSet(expired)

\* Every timer is in one place only, from the thread that makes it through
\* the queue, the set and the batch until it is erased or has run for the
\* last time: although the order of the set is not a strict weak one, no
\* timer is refused by insert, lost between set and batch, kept twice, or
\* back after its end.
TimersAccountedFor ==
  TypeOK /\ \A i \in Ids :
    LET place == << made, {j \in Ids : <<"add", j>> \in ToSet(functors)},
                    ToSet(timers_), InBatch, gone >>
    IN  Cardinality({k \in DOMAIN place : i \in place[k]}) = 1

\* Once a cancel that another thread has queued is called, the timer is gone:
\* it never runs again, whatever the other threads and callbacks have done
\* before.
CancelHolds == cancelled \subseteq gone

\* The timerfd was set for a moment that had just come: by the first reading
\* less than a second was left, by the second whole seconds, so that the time
\* asked for was zero.
SetForNow ==
  /\ settime[1] - Now(settime[2]) < kMilli
  /\ (settime[1] - Now(settime[3])) % kMilli = 0

\* While the loop polls and a timer is left in the set, the timerfd is armed
\* (or readable), through adding, cancelling and batches, also those in which
\* nothing was due: no timer is left without a wakeup.  The one exception is
\* SetForNow: a time of zero disarms the timerfd.
TimersWakeLoop ==
  pc = "idle" /\ ~fatal /\ timers_ # <<>> => timerfd > 0 \/ SetForNow

\* timerfd_settime refuses a time, which ends the process, only for a timer of
\* the set that was overdue: by one of the two readings of the clock its
\* expiration had passed.
FatalOnlyLate ==
  fatal => \E i \in ToSet(timers_) :
             /\ timer[i].expiration = settime[1]
             /\ \E k \in {2, 3} : timer[i].expiration < Now(settime[k])
=============================================================================
