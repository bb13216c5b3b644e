-------------------------- MODULE TimerQueueProofs --------------------------
(***************************************************************************)
(* What becomes of the timers of a TimerQueue, for any number of timers,   *)
(* any delays and times, any units of the clock and any time that passes   *)
(* between two of its readings.                                            *)
(*                                                                         *)
(* The order of the set is not a strict weak one, so nothing is known of   *)
(* where a timer stands in timers_.  The argument does without: two        *)
(* different timers are always comparable, which is all that insert needs  *)
(* to take one in, and the range of the expired ones is taken from the     *)
(* front as far as it goes.                                                *)
(***************************************************************************)
EXTENDS TimerQueue, FiniteSetTheorems, SequenceTheorems, WellFoundedInduction, TLAPS

Timers == [expiration : Nat, interval : Nat]

\* The five places of a timer.
Making(i) == i \in made
Queued(i) == <<"add", i>> \in ToSet(functors)
Waiting(i) == i \in ToSet(timers_)
Running(i) == i \in InBatch
Done(i) == i \in gone

OnePlace(i) ==
  /\ Making(i) \/ Queued(i) \/ Waiting(i) \/ Running(i) \/ Done(i)
  /\ Making(i) => ~Queued(i) /\ ~Waiting(i) /\ ~Running(i) /\ ~Done(i)
  /\ Queued(i) => ~Waiting(i) /\ ~Running(i) /\ ~Done(i)
  /\ Waiting(i) => ~Running(i) /\ ~Done(i)
  /\ Running(i) => ~Done(i)

\* A timer is cancelled by one who has its id: after it was queued.
CancelAfterAdd ==
  \A k \in DOMAIN functors : functors[k][1] = "cancel" =>
    /\ functors[k][2] \notin made
    /\ \A j \in DOMAIN functors : functors[j] = <<"add", functors[k][2]>> => j < k

\* Between two batches there is none, and no timer is twice in one.
BatchInv ==
  /\ pc \in {"idle", "active"} => expired = <<>>
  /\ IsInjective(expired)

Inv ==
  /\ TypeOK
  /\ IsInjective(functors) /\ BatchInv /\ CancelAfterAdd
  /\ \A i \in Ids : OnePlace(i)
  /\ CancelHolds /\ TimersWakeLoop /\ FatalOnlyLate

-----------------------------------------------------------------------------
(* Lemmas on sequences and on numbers.                                     *)

\* A set of natural numbers has a least element.
LEMMA LeastNat ==
  ASSUME NEW T \in SUBSET Nat, T # {}
  PROVE  \E m \in T : \A k \in T : m <= k
<1> DEFINE less == {ss \in Nat \X Nat : ss[1] < ss[2]}
<1>1. IsWellFoundedOn(less, Nat)
  BY NatLessThanWellFounded DEF OpToRel
<1>2. \E x \in T : \A y \in T : <<y, x>> \notin less
  <2> HIDE DEF less
  <2> QED BY <1>1, WFMin
<1>3. PICK x \in T : \A y \in T : <<y, x>> \notin less
  BY <1>2
<1>4. \A y \in T : ~(y < x)
  BY <1>3
<1> QED BY <1>4

\* What InsertAt returns.
LEMMA InsertAtFacts ==
  ASSUME NEW S, NEW s \in Seq(S), NEW e \in S, NEW p \in 1..Len(s) + 1
  PROVE  /\ InsertAt(s, p, e) \in Seq(S)
         /\ Len(InsertAt(s, p, e)) = Len(s) + 1
         /\ \A k \in 1..Len(s) + 1 :
              InsertAt(s, p, e)[k] = IF k < p THEN s[k] ELSE IF k = p THEN e ELSE s[k - 1]
<1> Len(s) \in Nat /\ p \in Int
  OBVIOUS
<1> DEFINE a == SubSeq(s, 1, p - 1)
           b == SubSeq(s, p, Len(s))
<1>1. a \in Seq(S) /\ Len(a) = p - 1 /\ \A k \in 1..p - 1 : a[k] = s[k]
  OBVIOUS
<1>2. b \in Seq(S) /\ Len(b) = Len(s) - p + 1 /\ \A k \in 1..Len(s) - p + 1 : b[k] = s[p + k - 1]
  OBVIOUS
<1> HIDE DEF a, b
<1> DEFINE c == a \o <<e>>
<1>3. c \in Seq(S) /\ Len(c) = p /\ \A k \in 1..p : c[k] = IF k = p THEN e ELSE s[k]
  BY <1>1
<1> DEFINE u == c \o b
<1> HIDE DEF c, u
<1>4. u \in Seq(S) /\ Len(u) = Len(c) + Len(b)
      /\ \A k \in 1..Len(c) + Len(b) : u[k] = IF k <= Len(c) THEN c[k] ELSE b[k - Len(c)]
  BY <1>2, <1>3, ConcatProperties DEF u
<1>5. InsertAt(s, p, e) = u
  BY DEF InsertAt, a, b, c, u
<1>6. Len(u) = Len(s) + 1
  BY <1>2, <1>3, <1>4
<1>7. ASSUME NEW k \in 1..Len(s) + 1
      PROVE  u[k] = IF k < p THEN s[k] ELSE IF k = p THEN e ELSE s[k - 1]
  <2>1. CASE k <= p
    BY <1>2, <1>3, <1>4, <2>1
  <2>2. CASE k > p
    <3>1. k - p \in 1..Len(s) - p + 1 /\ p + (k - p) - 1 = k - 1
      BY <2>2
    <3>2. u[k] = b[k - p]
      BY <1>2, <1>3, <1>4, <2>2
    <3>3. b[k - p] = s[k - 1]
      BY <1>2, <3>1
    <3> QED BY <2>2, <3>2, <3>3
  <2> QED BY <2>1, <2>2
<1> QED BY <1>4, <1>5, <1>6, <1>7

\* What RemoveAt returns.
LEMMA RemoveAtFacts ==
  ASSUME NEW S, NEW s \in Seq(S), NEW p \in 1..Len(s)
  PROVE  /\ RemoveAt(s, p) \in Seq(S)
         /\ Len(RemoveAt(s, p)) = Len(s) - 1
         /\ \A k \in 1..Len(s) - 1 : RemoveAt(s, p)[k] = IF k < p THEN s[k] ELSE s[k + 1]
<1> Len(s) \in Nat /\ p \in Int
  OBVIOUS
<1> DEFINE a == SubSeq(s, 1, p - 1)
           b == SubSeq(s, p + 1, Len(s))
<1>1. a \in Seq(S) /\ Len(a) = p - 1 /\ \A k \in 1..p - 1 : a[k] = s[k]
  OBVIOUS
<1>2. b \in Seq(S) /\ Len(b) = Len(s) - p /\ \A k \in 1..Len(s) - p : b[k] = s[p + k]
  OBVIOUS
<1> HIDE DEF a, b
<1> DEFINE u == a \o b
<1> HIDE DEF u
<1>3. u \in Seq(S) /\ Len(u) = Len(a) + Len(b)
      /\ \A k \in 1..Len(a) + Len(b) : u[k] = IF k <= Len(a) THEN a[k] ELSE b[k - Len(a)]
  BY <1>1, <1>2, ConcatProperties DEF u
<1>4. RemoveAt(s, p) = u
  BY DEF RemoveAt, a, b, u
<1>6. Len(u) = Len(s) - 1 /\ Len(a) = p - 1 /\ Len(a) + Len(b) = Len(s) - 1
  BY <1>1, <1>2, <1>3
<1>5. ASSUME NEW k \in 1..Len(s) - 1
      PROVE  u[k] = IF k < p THEN s[k] ELSE s[k + 1]
  <2>1. CASE k < p
    <3>1. k \in 1..p - 1
      BY <2>1
    <3>2. u[k] = a[k]
      BY <1>3, <1>6, <2>1
    <3> QED BY <1>1, <2>1, <3>1, <3>2
  <2>2. CASE k >= p
    <3>1. k - (p - 1) \in 1..Len(s) - p /\ p + (k - (p - 1)) = k + 1
      BY <2>2
    <3>2. u[k] = b[k - (p - 1)]
      BY <1>3, <1>6, <2>2
    <3>3. b[k - (p - 1)] = s[k + 1]
      BY <1>2, <3>1
    <3> QED BY <2>2, <3>2, <3>3
  <2> QED BY <2>1, <2>2
<1> QED BY <1>3, <1>4, <1>5, <1>6

\* An element that is put in or taken out of a sequence without repetitions.
LEMMA InsertAtSet ==
  ASSUME NEW S, NEW s \in Seq(S), NEW e \in S, NEW p \in 1..Len(s) + 1,
         IsInjective(s), e \notin ToSet(s)
  PROVE  /\ IsInjective(InsertAt(s, p, e))
         /\ ToSet(InsertAt(s, p, e)) = ToSet(s) \cup {e}
<1> DEFINE t == InsertAt(s, p, e)
<1> HIDE DEF t
<1>1. /\ t \in Seq(S) /\ Len(t) = Len(s) + 1
      /\ \A k \in 1..Len(s) + 1 : t[k] = IF k < p THEN s[k] ELSE IF k = p THEN e ELSE s[k - 1]
  <2>1. /\ InsertAt(s, p, e) \in Seq(S)
        /\ Len(InsertAt(s, p, e)) = Len(s) + 1
        /\ \A k \in 1..Len(s) + 1 :
             InsertAt(s, p, e)[k] = IF k < p THEN s[k] ELSE IF k = p THEN e ELSE s[k - 1]
    BY InsertAtFacts, SMT
  <2> QED BY <2>1 DEF t
<1>2. \A j, k \in 1..Len(s) : s[k] # e /\ (s[j] = s[k] => j = k)
  BY DEF ToSet, IsInjective
<1>3. IsInjective(t)
  <2> SUFFICES ASSUME NEW j \in 1..Len(t), NEW k \in 1..Len(t), t[j] = t[k], j < k PROVE FALSE
    BY <1>1 DEF IsInjective
  <2>1. CASE k < p
    <3>1. j \in 1..Len(s) /\ k \in 1..Len(s) /\ t[j] = s[j] /\ t[k] = s[k]
      BY <1>1, <2>1
    <3>2. j = k
      BY <1>2, <3>1, Zenon
    <3> QED BY <3>2
  <2>2. CASE k = p
    BY <1>1, <1>2, <2>2
  <2>3. CASE k > p /\ j = p
    BY <1>1, <1>2, <2>3
  <2>4. CASE k > p /\ j < p
    BY <1>1, <1>2, <2>4
  <2>5. CASE k > p /\ j > p
    <3>1. j - 1 \in 1..Len(s) /\ k - 1 \in 1..Len(s)
      BY <1>1, <2>5
    <3>2. s[j - 1] = s[k - 1]
      BY <1>1, <2>5
    <3> QED BY <1>2, <3>1, <3>2
  <2> QED BY <2>1, <2>2, <2>3, <2>4, <2>5
<1>4. ToSet(t) \subseteq ToSet(s) \cup {e}
  <2>1. ASSUME NEW k \in 1..Len(t) PROVE t[k] = e \/ \E j \in 1..Len(s) : t[k] = s[j]
    BY <1>1
  <2> QED BY <1>1, <2>1 DEF ToSet
<1>5. ASSUME NEW k \in 1..Len(s) PROVE s[k] \in ToSet(t)
  <2>1. CASE k < p
    <3>1. k \in DOMAIN t /\ t[k] = s[k]
      BY <1>1, <2>1
    <3> QED BY <3>1, Zenon DEF ToSet
  <2>2. CASE ~(k < p)
    <3>1. k + 1 \in 1..Len(t) /\ t[k + 1] = s[k]
      BY <1>1, <2>2
    <3> QED BY <1>1, <3>1 DEF ToSet
  <2> QED BY <2>1, <2>2
<1>6. e \in ToSet(t)
  <2>1. p \in 1..Len(t) /\ t[p] = e
    BY <1>1
  <2> QED BY <1>1, <2>1 DEF ToSet
<1> QED BY <1>3, <1>4, <1>5, <1>6 DEF t, ToSet

\* As InsertAtSet, for RemoveAt.
LEMMA RemoveAtSet ==
  ASSUME NEW S, NEW s \in Seq(S), NEW p \in 1..Len(s), IsInjective(s)
  PROVE  /\ IsInjective(RemoveAt(s, p))
         /\ ToSet(RemoveAt(s, p)) = ToSet(s) \ {s[p]}
<1> DEFINE t == RemoveAt(s, p)
<1>1. /\ t \in Seq(S) /\ Len(t) = Len(s) - 1
      /\ \A k \in 1..Len(s) - 1 : t[k] = IF k < p THEN s[k] ELSE s[k + 1]
  BY RemoveAtFacts
<1> HIDE DEF t
<1>2. \A j, k \in 1..Len(s) : s[j] = s[k] => j = k
  BY DEF IsInjective
<1>3. IsInjective(t)
  <2> SUFFICES ASSUME NEW j \in 1..Len(t), NEW k \in 1..Len(t), t[j] = t[k] PROVE j = k
    BY <1>1 DEF IsInjective
  <2> QED BY <1>1, <1>2
<1>4. ASSUME NEW k \in 1..Len(t) PROVE t[k] \in ToSet(s) \ {s[p]}
  <2>1. PICK j \in 1..Len(s) : t[k] = s[j] /\ j # p
    BY <1>1
  <2> QED BY <1>2, <2>1 DEF ToSet
<1>5. ASSUME NEW k \in 1..Len(s), s[k] # s[p] PROVE s[k] \in ToSet(t)
  <2>1. CASE k < p
    <3>1. k \in 1..Len(t) /\ t[k] = s[k]
      BY <1>1, <2>1
    <3> QED BY <1>1, <3>1 DEF ToSet
  <2>2. CASE k > p
    <3>1. k - 1 \in 1..Len(t) /\ t[k - 1] = s[k]
      BY <1>1, <2>2
    <3> QED BY <1>1, <3>1 DEF ToSet
  <2> QED BY <1>5, <2>1, <2>2
<1>6. DOMAIN t = 1..Len(t) /\ DOMAIN s = 1..Len(s)
  BY <1>1
<1>7. ToSet(t) = ToSet(s) \ {s[p]}
  BY <1>4, <1>5, <1>6 DEF ToSet
<1> QED BY <1>3, <1>7 DEF t

\* Where a sequence without repetitions is cut in two.
LEMMA CutFacts ==
  ASSUME NEW S, NEW s \in Seq(S), NEW n \in 0..Len(s), IsInjective(s)
  PROVE  LET a == SubSeq(s, 1, n)
             b == SubSeq(s, n + 1, Len(s))
         IN  /\ a \in Seq(S) /\ b \in Seq(S)
             /\ IsInjective(a) /\ IsInjective(b)
             /\ Len(a) = n /\ \A k \in 1..n : a[k] = s[k]
             /\ ToSet(s) = ToSet(a) \cup ToSet(b)
             /\ ToSet(a) \cap ToSet(b) = {}
<1> DEFINE a == SubSeq(s, 1, n)
           b == SubSeq(s, n + 1, Len(s))
<1>1. a \in Seq(S) /\ Len(a) = n /\ \A k \in 1..n : a[k] = s[k]
  OBVIOUS
<1>2. b \in Seq(S) /\ Len(b) = Len(s) - n /\ \A k \in 1..Len(s) - n : b[k] = s[n + k]
  OBVIOUS
<1> HIDE DEF a, b
<1>3. DOMAIN a = 1..n /\ DOMAIN b = 1..Len(s) - n /\ DOMAIN s = 1..Len(s)
  BY <1>1, <1>2
<1>4. \A j, k \in 1..Len(s) : s[j] = s[k] => j = k
  BY DEF IsInjective
<1>5. IsInjective(a) /\ IsInjective(b)
  <2>1. ASSUME NEW j \in 1..n, NEW k \in 1..n, a[j] = a[k] PROVE j = k
    BY <1>1, <1>4, <2>1
  <2>2. ASSUME NEW j \in 1..Len(s) - n, NEW k \in 1..Len(s) - n, b[j] = b[k] PROVE j = k
    <3>1. n + j \in 1..Len(s) /\ n + k \in 1..Len(s) /\ s[n + j] = s[n + k]
      BY <1>2, <2>2
    <3>2. n + j = n + k
      BY <1>4, <3>1
    <3> QED BY <3>2
  <2> QED BY <1>3, <2>1, <2>2 DEF IsInjective
<1>6. ASSUME NEW k \in 1..Len(s) PROVE s[k] \in ToSet(a) \cup ToSet(b)
  <2>1. CASE k <= n
    BY <1>1, <1>3, <2>1 DEF ToSet
  <2>2. CASE k > n
    <3>1. k - n \in 1..Len(s) - n /\ b[k - n] = s[k]
      BY <1>2, <2>2
    <3> QED BY <1>3, <3>1 DEF ToSet
  <2> QED BY <2>1, <2>2
<1>7. ASSUME NEW j \in 1..n, NEW k \in 1..Len(s) - n PROVE a[j] # b[k]
  BY <1>1, <1>2, <1>4
<1>8. ToSet(a) \subseteq ToSet(s) /\ ToSet(b) \subseteq ToSet(s)
  <2>1. ASSUME NEW k \in 1..n PROVE a[k] = s[k] /\ k \in 1..Len(s)
    BY <1>1
  <2>2. ASSUME NEW k \in 1..Len(s) - n PROVE b[k] = s[n + k] /\ n + k \in 1..Len(s)
    BY <1>2
  <2> QED BY <1>3, <2>1, <2>2 DEF ToSet
<1>9. ToSet(s) = ToSet(a) \cup ToSet(b)
  BY <1>3, <1>6, <1>8 DEF ToSet
<1>10. ToSet(a) \cap ToSet(b) = {}
  BY <1>3, <1>7 DEF ToSet
<1> QED BY <1>1, <1>2, <1>5, <1>9, <1>10 DEF a, b

\* Quotients and remainders of numbers that are not negative.
LEMMA DivFacts ==
  ASSUME NEW a \in Nat, NEW b \in Nat \ {0}
  PROVE  a \div b \in Nat /\ a % b \in Nat /\ b * (a \div b) <= a
<1>1. a \div b \in Int
  OBVIOUS
<1>2. a \div b >= 0
  OBVIOUS
<1>3. a % b \in Nat
  OBVIOUS
<1>4. b * (a \div b) <= a
  OBVIOUS
<1> QED BY <1>1, <1>2, <1>3, <1>4

\* The clock is not negative.
LEMMA NowNat == ASSUME NEW t \in Nat PROVE Now(t) \in Nat
<1>1. t \div kSecond \in Nat /\ t % kSecond \in Nat
  BY TimerAssumption, DivFacts
<1>2. (t \div kSecond) * kMilli \in Nat
  <2>1. \A x, y \in Nat : x * y \in Nat
    OBVIOUS
  <2> QED BY <1>1, <2>1, TimerAssumption
<1> QED BY <1>1, <1>2 DEF Now

\* What is passed on to timerfd_settime is negative only if the time is.
LEMMA SplitFacts ==
  ASSUME NEW a \in Int
  PROVE  /\ Quotient(a, kMilli) \in Int /\ Remainder(a, kMilli) \in Int
         /\ a >= 0 => Quotient(a, kMilli) >= 0 /\ Remainder(a, kMilli) >= 0
<1>0. kMilli \in Nat \ {0}
  BY TimerAssumption
<1>1. CASE a >= 0
  <2>1. a \div kMilli \in Nat /\ kMilli * (a \div kMilli) <= a
    BY <1>0, <1>1, DivFacts
  <2>2. Quotient(a, kMilli) = a \div kMilli
    BY <1>1 DEF Quotient
  <2>3. kMilli * (a \div kMilli) \in Int
    <3>1. \A x, y \in Int : x * y \in Int
      OBVIOUS
    <3> QED BY <1>0, <2>1, <3>1
  <2>4. Remainder(a, kMilli) \in Int /\ Remainder(a, kMilli) >= 0
    BY <2>1, <2>2, <2>3 DEF Remainder
  <2> QED BY <2>1, <2>2, <2>4
<1>2. CASE a < 0
  <2>1. (-a) \div kMilli \in Nat
    BY <1>0, <1>2, DivFacts
  <2>2. Quotient(a, kMilli) \in Int
    BY <1>2, <2>1 DEF Quotient
  <2>3. kMilli * Quotient(a, kMilli) \in Int
    <3>1. \A x, y \in Int : x * y \in Int
      OBVIOUS
    <3> QED BY <1>0, <2>2, <3>1
  <2> QED BY <1>2, <2>2, <2>3 DEF Remainder
<1> QED BY <1>1, <1>2

\* A quotient of zero is that of a small number.
LEMMA SmallFacts ==
  ASSUME NEW a \in Int, Quotient(a, kMilli) = 0
  PROVE  a < kMilli
<1>0. kMilli \in Nat \ {0}
  BY TimerAssumption
<1>1. CASE a < 0
  BY <1>0, <1>1
<1>2. CASE a >= 0
  <2>1. a \div kMilli = 0
    BY <1>2 DEF Quotient
  <2>2. a = kMilli * (a \div kMilli) + (a % kMilli) /\ a % kMilli < kMilli /\ a % kMilli \in Nat
    BY <1>0, <1>2
  <2> QED BY <1>0, <2>1, <2>2
<1> QED BY <1>1, <1>2

\* Without a remainder in C++ there is none.
LEMMA WholeFacts ==
  ASSUME NEW a \in Int, Remainder(a, kMilli) = 0
  PROVE  a % kMilli = 0
<1> DEFINE q == Quotient(a, kMilli)
<1>0. kMilli \in Nat \ {0}
  BY TimerAssumption
<1>1. q \in Int
  BY SplitFacts
<1> HIDE DEF q
<1>2. a - kMilli * q = 0
  BY DEF Remainder, q
<1>3. \A k \in Nat \ {0}, x, y \in Int : x - k * y = 0 => x % k = 0
  OBVIOUS
<1> QED BY <1>0, <1>1, <1>2, <1>3

\* Setting the timerfd fails only for an expiration that has passed, and leaves
\* it disarmed only for one that has just come.
LEMMA ResetTimerfdFacts ==
  ASSUME time \in 0..MaxTime, timerfd \in Nat, fatal = FALSE,
         NEW e \in Nat, ResetTimerfd(e)
  PROVE  /\ time' \in 0..MaxTime /\ timerfd' \in Nat /\ fatal' \in BOOLEAN
         /\ settime' \in Nat \X (0..MaxTime) \X (0..MaxTime)
         /\ fatal' => settime'[1] = e /\ \E k \in {2, 3} : e < Now(settime'[k])
         /\ ~fatal' => timerfd' > 0 \/ SetForNow'
<1>0. PICK t1 \in time..MaxTime : \E t2 \in t1..MaxTime :
        LET sec == Quotient(e - Now(t1), kMilli)
            rest == Remainder(e - Now(t2), kMilli)
        IN  /\ time' = t2
            /\ settime' = <<e, t1, t2>>
            /\ IF sec < 0 \/ rest < 0
               THEN fatal' = TRUE /\ UNCHANGED timerfd
               ELSE /\ timerfd' = IF sec = 0 /\ rest = 0 THEN 0
                                  ELSE t2 + sec * kSecond + rest
                    /\ UNCHANGED fatal
  BY DEF ResetTimerfd
<1>1. PICK t2 \in t1..MaxTime :
        LET sec == Quotient(e - Now(t1), kMilli)
            rest == Remainder(e - Now(t2), kMilli)
        IN  /\ time' = t2
            /\ settime' = <<e, t1, t2>>
            /\ IF sec < 0 \/ rest < 0
               THEN fatal' = TRUE /\ UNCHANGED timerfd
               ELSE /\ timerfd' = IF sec = 0 /\ rest = 0 THEN 0
                                  ELSE t2 + sec * kSecond + rest
                    /\ UNCHANGED fatal
  BY <1>0
<1> DEFINE sec == Quotient(e - Now(t1), kMilli)
           rest == Remainder(e - Now(t2), kMilli)
<1>2. t1 \in 0..MaxTime /\ t2 \in 0..MaxTime /\ Now(t1) \in Nat /\ Now(t2) \in Nat
  <2>1. t1 \in 0..MaxTime /\ t2 \in 0..MaxTime /\ t1 \in Nat /\ t2 \in Nat
    BY TimerAssumption
  <2> QED BY <2>1, NowNat
<1>3. /\ sec \in Int /\ (sec < 0 => e < Now(t1))
      /\ rest \in Int /\ (rest < 0 => e < Now(t2))
  <2>1. e - Now(t1) \in Int /\ e - Now(t2) \in Int
    BY <1>2
  <2>2. /\ sec \in Int /\ (e - Now(t1) >= 0 => sec >= 0)
        /\ rest \in Int /\ (e - Now(t2) >= 0 => rest >= 0)
    BY <2>1, SplitFacts
  <2> HIDE DEF sec, rest
  <2> QED BY <1>2, <2>2
<1>4. sec = 0 /\ rest = 0 => e - Now(t1) < kMilli /\ (e - Now(t2)) % kMilli = 0
  <2>1. e - Now(t1) \in Int /\ e - Now(t2) \in Int
    BY <1>2
  <2> QED BY <2>1, SmallFacts, WholeFacts
<1> HIDE DEF sec, rest
<1>5. time' = t2 /\ settime' = <<e, t1, t2>>
  BY <1>1
<1>6. settime'[1] = e /\ settime'[2] = t1 /\ settime'[3] = t2
      /\ settime' \in Nat \X (0..MaxTime) \X (0..MaxTime)
  BY <1>2, <1>5
<1>7. CASE sec < 0 \/ rest < 0
  <2>1. fatal' = TRUE /\ timerfd' = timerfd
    BY <1>1, <1>7 DEF sec, rest
  <2>2. e < Now(t1) \/ e < Now(t2)
    BY <1>3, <1>7
  <2> QED BY <1>2, <1>5, <1>6, <2>1, <2>2
<1>8. CASE ~(sec < 0 \/ rest < 0)
  <2>1. fatal' = FALSE
        /\ timerfd' = IF sec = 0 /\ rest = 0 THEN 0 ELSE t2 + sec * kSecond + rest
    BY <1>1, <1>8 DEF sec, rest
  <2>2. sec * kSecond \in Nat /\ (sec # 0 => sec * kSecond > 0)
    <3>1. \A x, y \in Nat : x * y \in Nat /\ (x # 0 /\ y # 0 => x * y > 0)
      OBVIOUS
    <3>2. sec \in Nat
      BY <1>3, <1>8
    <3> QED BY <3>1, <3>2, TimerAssumption
  <2>3. timerfd' \in Nat /\ (timerfd' > 0 \/ (sec = 0 /\ rest = 0))
    <3> DEFINE seconds == sec * kSecond
    <3> HIDE DEF seconds
    <3>1. /\ seconds \in Nat /\ (sec # 0 => seconds > 0)
          /\ timerfd' = IF sec = 0 /\ rest = 0 THEN 0 ELSE t2 + seconds + rest
      BY <2>1, <2>2 DEF seconds
    <3>2. t2 \in Nat /\ rest \in Nat
      BY <1>2, <1>3, <1>8
    <3> QED BY <3>1, <3>2
  <2>4. sec = 0 /\ rest = 0 => SetForNow'
    BY <1>4, <1>6 DEF SetForNow
  <2> QED BY <1>2, <1>5, <1>6, <2>1, <2>3, <2>4
<1> QED BY <1>7, <1>8

-----------------------------------------------------------------------------
(* Lemmas on the set of timers.                                            *)

\* insert never refuses a timer that is not in the set: whichever of two
\* timers expires first, the order tells them apart.
LEMMA InsertFacts ==
  ASSUME NEW S \in SUBSET Nat, timers_ \in Seq(S), IsInjective(timers_),
         NEW tm, NEW i \in S, i \notin ToSet(timers_), insert(tm, i)
  PROVE  timers_' \in Seq(S) /\ IsInjective(timers_')
         /\ ToSet(timers_') = ToSet(timers_) \cup {i}
<1>1. PICK p \in Places(tm, i) : timers_' = InsertedAt(tm, i, p)
  BY DEF insert
<1>2. p \in 1..Len(timers_) + 1 /\ (p > 1 => ~Before(tm, i, timers_[p - 1]))
  BY <1>1 DEF Places
<1>3. ~(p > 1 /\ ~Before(tm, timers_[p - 1], i))
  <2> SUFFICES ASSUME p > 1, ~Before(tm, timers_[p - 1], i) PROVE FALSE
    OBVIOUS
  <2>1. p - 1 \in DOMAIN timers_ /\ timers_[p - 1] \in S
    BY <1>2
  <2>2. timers_[p - 1] # i
    BY <2>1 DEF ToSet
  <2>3. timers_[p - 1] \in Nat /\ i \in Nat
    BY <2>1
  <2> QED BY <1>2, <2>2, <2>3 DEF Before
<1>4. timers_' = InsertAt(timers_, p, i)
  BY <1>1, <1>3 DEF InsertedAt
<1>5. InsertAt(timers_, p, i) \in Seq(S)
  BY <1>2, InsertAtFacts
<1>6. IsInjective(InsertAt(timers_, p, i))
      /\ ToSet(InsertAt(timers_, p, i)) = ToSet(timers_) \cup {i}
  BY <1>2, InsertAtSet
<1> QED BY <1>4, <1>5, <1>6

\* AddTimerInLoop takes the timer in, and ends the process only if its time
\* has passed.
LEMMA AddFacts ==
  ASSUME NEW S \in SUBSET Nat, timers_ \in Seq(S), IsInjective(timers_),
         time \in 0..MaxTime, timerfd \in Nat, fatal = FALSE,
         settime \in Nat \X (0..MaxTime) \X (0..MaxTime),
         NEW tm, NEW i \in S, i \notin ToSet(timers_), tm[i].expiration \in Nat,
         AddTimerInLoop(tm, i)
  PROVE  /\ timers_' \in Seq(S) /\ IsInjective(timers_')
         /\ ToSet(timers_') = ToSet(timers_) \cup {i}
         /\ time' \in 0..MaxTime /\ timerfd' \in Nat /\ fatal' \in BOOLEAN
         /\ settime' \in Nat \X (0..MaxTime) \X (0..MaxTime)
         /\ fatal' => /\ settime'[1] = tm[i].expiration
                      /\ \E k \in {2, 3} : tm[i].expiration < Now(settime'[k])
         /\ ~fatal' => \/ timerfd' > 0 \/ SetForNow'
                       \/ timers_ # <<>> /\ timerfd' = timerfd /\ settime' = settime
<1>1. insert(tm, i)
  BY DEF AddTimerInLoop
<1>2. /\ timers_' \in Seq(S) /\ IsInjective(timers_')
      /\ ToSet(timers_') = ToSet(timers_) \cup {i}
  BY <1>1, InsertFacts
<1>3. CASE EarliestChanged(tm, i)
  <2>1. ResetTimerfd(tm[i].expiration)
    BY <1>3 DEF AddTimerInLoop
  <2>2. /\ time' \in 0..MaxTime /\ timerfd' \in Nat /\ fatal' \in BOOLEAN
        /\ settime' \in Nat \X (0..MaxTime) \X (0..MaxTime)
        /\ fatal' => /\ settime'[1] = tm[i].expiration
                     /\ \E k \in {2, 3} : tm[i].expiration < Now(settime'[k])
        /\ ~fatal' => timerfd' > 0 \/ SetForNow'
    BY <2>1, ResetTimerfdFacts
  <2> QED BY <1>2, <2>2
<1>4. CASE ~EarliestChanged(tm, i)
  <2>1. time' = time /\ timerfd' = timerfd /\ fatal' = FALSE /\ settime' = settime
        /\ timers_ # <<>>
    BY <1>4 DEF AddTimerInLoop, EarliestChanged, clockVars
  <2> QED BY <1>2, <2>1
<1> QED BY <1>3, <1>4

\* CancelTimerInLoop takes the timer out if it is in the set.
LEMMA CancelFacts ==
  ASSUME NEW S, timers_ \in Seq(S), IsInjective(timers_), NEW i, CancelTimerInLoop(i)
  PROVE  /\ timers_' \in Seq(S) /\ IsInjective(timers_')
         /\ ToSet(timers_') = ToSet(timers_) \ {i}
         /\ gone' = gone \cup (ToSet(timers_) \cap {i})
         /\ CancelTimers_' = CancelTimers_ \/ CancelTimers_' = CancelTimers_ \cup {i}
<1>1. CASE i \in ToSet(timers_)
  <2>1. PICK it \in DOMAIN timers_ : timers_[it] = i /\ timers_' = RemoveAt(timers_, it)
    BY <1>1 DEF CancelTimerInLoop
  <2>2. it \in 1..Len(timers_)
    BY <2>1
  <2>3. RemoveAt(timers_, it) \in Seq(S)
    BY <2>2, RemoveAtFacts
  <2>4. IsInjective(RemoveAt(timers_, it))
        /\ ToSet(RemoveAt(timers_, it)) = ToSet(timers_) \ {timers_[it]}
    BY <2>2, RemoveAtSet
  <2>5. gone' = gone \cup {i} /\ CancelTimers_' = CancelTimers_
    BY <1>1 DEF CancelTimerInLoop
  <2> QED BY <1>1, <2>1, <2>3, <2>4, <2>5
<1>2. CASE i \notin ToSet(timers_)
  BY <1>2 DEF CancelTimerInLoop
<1> QED BY <1>1, <1>2

\* What is taken from an empty set leaves it empty.
LEMMA EmptyStays ==
  ASSUME NEW S, timers_' \in Seq(S), NEW i, ToSet(timers_') = ToSet(timers_) \ {i},
         timers_' # <<>>
  PROVE  timers_ # <<>>
<1>1. timers_'[1] \in ToSet(timers_')
  BY DEF ToSet
<1>2. ToSet(<<>>) = {}
  BY DEF ToSet
<1> QED BY <1>1, <1>2

\* The range that HandleRead takes: it exists, and everything in it is due.
LEMMA DueFacts ==
  ASSUME NEW S, timers_ \in Seq(S), \A i \in S : timer[i].expiration \in Nat, NEW now \in Nat
  PROVE  /\ Due(now) \in 0..Len(timers_)
         /\ \A k \in 1..Due(now) : timer[timers_[k]].expiration <= now
<1> DEFINE Late == {k \in 1..Len(timers_) : timer[timers_[k]].expiration > now}
           Fits(n) == /\ \A k \in 1..n : timer[timers_[k]].expiration <= now
                      /\ n < Len(timers_) => timer[timers_[n + 1]].expiration > now
<1>1. \A k \in 1..Len(timers_) : timer[timers_[k]].expiration \in Nat
  OBVIOUS
<1>2. \E n \in 0..Len(timers_) : Fits(n)
  <2>1. CASE Late = {}
    <3>1. Len(timers_) \in 0..Len(timers_)
      OBVIOUS
    <3>2. \A k \in 1..Len(timers_) : timer[timers_[k]].expiration <= now
      BY <1>1, <2>1
    <3> QED BY <3>1, <3>2
  <2>2. CASE Late # {}
    <3>0. Late \in SUBSET Nat
      OBVIOUS
    <3>1. PICK m \in Late : \A k \in Late : m <= k
      <4> HIDE DEF Late
      <4> QED BY <2>2, <3>0, LeastNat
    <3>2. m - 1 \in 0..Len(timers_) /\ (m - 1) + 1 = m
      BY <3>1
    <3>3. \A k \in 1..m - 1 : timer[timers_[k]].expiration <= now
      BY <1>1, <3>1
    <3>4. Fits(m - 1)
      BY <3>1, <3>2, <3>3
    <3> QED BY <3>2, <3>4
  <2> QED BY <2>1, <2>2
<1>3. Due(now) = CHOOSE n \in 0..Len(timers_) : Fits(n)
  BY DEF Due
<1>4. Due(now) \in 0..Len(timers_) /\ Fits(Due(now))
  <2> HIDE DEF Fits
  <2> QED BY <1>2, <1>3
<1> QED BY <1>4

\* The rest of a batch.
LEMMA RestFacts ==
  ASSUME NEW S, NEW s \in Seq(S), NEW n \in 0..Len(s)
  PROVE  ToSet(SubSeq(s, n + 1, Len(s))) = {s[k] : k \in n + 1..Len(s)}
<1> DEFINE b == SubSeq(s, n + 1, Len(s))
<1>1. b \in Seq(S) /\ Len(b) = Len(s) - n /\ \A k \in 1..Len(s) - n : b[k] = s[n + k]
  OBVIOUS
<1> HIDE DEF b
<1>2. ASSUME NEW k \in 1..Len(s) - n PROVE n + k \in n + 1..Len(s) /\ b[k] = s[n + k]
  BY <1>1
<1>3. ASSUME NEW k \in n + 1..Len(s) PROVE k - n \in 1..Len(s) - n /\ b[k - n] = s[k]
  BY <1>1
<1>4. DOMAIN b = 1..Len(s) - n
  BY <1>1
<1>5. ToSet(b) = {s[k] : k \in n + 1..Len(s)}
  <2>1. ToSet(b) = {b[k] : k \in 1..Len(s) - n}
    BY <1>4 DEF ToSet
  <2>2. ASSUME NEW x \in ToSet(b) PROVE x \in {s[k] : k \in n + 1..Len(s)}
    BY <1>2, <2>1
  <2>3. ASSUME NEW x \in {s[k] : k \in n + 1..Len(s)} PROVE x \in ToSet(b)
    BY <1>3, <2>1
  <2> QED BY <2>2, <2>3
<1> QED BY <1>5 DEF b

-----------------------------------------------------------------------------
(* Every step keeps the invariant.                                         *)

\* Every place holds timers that have been made.
LEMMA PlacesTyped ==
  ASSUME TypeOK, NEW i, Making(i) \/ Queued(i) \/ Waiting(i) \/ Running(i) \/ Done(i)
  PROVE  i \in Ids
<1>1. Queued(i) => i \in Ids
  <2> SUFFICES ASSUME Queued(i) PROVE i \in Ids
    OBVIOUS
  <2>1. PICK k \in DOMAIN functors : functors[k] = <<"add", i>>
    BY DEF Queued, ToSet
  <2>2. functors[k] \in {"add", "cancel"} \X Ids
    BY <2>1 DEF TypeOK
  <2> QED BY <2>1, <2>2
<1>2. Waiting(i) => i \in Ids
  BY DEF Waiting, ToSet, TypeOK
<1>3. Running(i) => i \in Ids
  <2>1. expired \in Seq(Ids) /\ at \in 0..Len(expired)
    BY DEF TypeOK
  <2>2. ToSet(SubSeq(expired, at + 1, Len(expired))) = {expired[k] : k \in at + 1..Len(expired)}
    BY <2>1, RestFacts
  <2>3. InBatch \subseteq {expired[k] : k \in 1..Len(expired)}
    BY <2>1, <2>2 DEF InBatch, ToSet
  <2> QED BY <2>1, <2>3 DEF Running
<1> QED BY <1>1, <1>2, <1>3 DEF Making, Done, TypeOK

\* A new timer is next in number and leaves the others alone.
LEMMA NewTimerFacts ==
  ASSUME TypeOK, Len(timer) < MaxTimers,
         \E tm \in NewTimers : timer' = Append(timer, tm)
  PROVE  /\ timer' \in Seq(Timers) /\ Len(timer') = Len(timer) + 1 /\ Len(timer') <= MaxTimers
         /\ Ids' = Ids \cup {Len(timer) + 1} /\ Len(timer) + 1 \notin Ids
         /\ \A i \in Ids : timer'[i] = timer[i]
         /\ Seq(Ids) \subseteq Seq(Ids')
         /\ Seq({"add", "cancel"} \X Ids) \subseteq Seq({"add", "cancel"} \X Ids')
<1>1. PICK tm \in NewTimers : timer' = Append(timer, tm)
  OBVIOUS
<1>2. Now(time) \in Nat
  <2>1. time \in Nat
    BY TimerAssumption DEF TypeOK
  <2> QED BY <2>1, NowNat
<1>3. ASSUME NEW x \in Nat, NEW y \in Nat PROVE After(x, y) \in Timers
  BY <1>2 DEF After, Timers
<1>4. ASSUME NEW d \in Delays PROVE d \in Nat /\ d * kMilli \in Nat
  <2>1. d \in Nat /\ kMilli \in Nat
    BY TimerAssumption
  <2> QED BY <2>1
<1>5. tm \in Timers
  <2>1. CASE tm \in {[expiration |-> t, interval |-> 0] : t \in Times}
    BY <2>1, TimerAssumption DEF Timers
  <2>2. CASE \E d \in Delays : tm \in { After(d * kMilli, 0), After(d, 0),
                                        After(d * kMilli, d * kMilli), After(d * kMilli, d) }
    BY <1>3, <1>4, <2>2
  <2> QED BY <1>1, <2>1, <2>2 DEF NewTimers
<1>6. timer \in Seq(Timers)
  BY DEF TypeOK, Timers
<1>7. timer' \in Seq(Timers) /\ Len(timer') = Len(timer) + 1
      /\ \A i \in 1..Len(timer) : timer'[i] = timer[i]
  BY <1>1, <1>5, <1>6
<1>8. Ids' = Ids \cup {Len(timer) + 1} /\ Len(timer) + 1 \notin Ids
  BY <1>6, <1>7 DEF Ids
<1>9. Seq(Ids) \subseteq Seq(Ids')
  BY <1>8, SeqMonotonic
<1>10. Seq({"add", "cancel"} \X Ids) \subseteq Seq({"add", "cancel"} \X Ids')
  BY <1>8, SeqMonotonic
<1>11. Len(timer) + 1 <= MaxTimers
  BY <1>6, TimerAssumption
<1> QED BY <1>7, <1>8, <1>9, <1>10, <1>11 DEF Ids

\* The clock alone.
LEMMA TickInv == ASSUME Inv, ~fatal, Tick PROVE Inv'
<1>1. TypeOK'
  <2>1. time' \in 0..MaxTime
    BY TimerAssumption DEF Inv, TypeOK, Tick
  <2>2. TypeOK /\ UNCHANGED <<timerfd, fatal, settime, timer, timers_, cancelVars, batchVars, made,
                             functors, historyVars>>
    BY DEF Inv, Tick
  <2> QED BY <2>1, <2>2 DEF TypeOK, cancelVars, batchVars, historyVars, Ids
<1> QED BY <1>1 DEF Inv, Tick, cancelVars, batchVars, historyVars, BatchInv, CancelAfterAdd,
        OnePlace, Making, Queued, Waiting, Running, Done, InBatch, Ids, CancelHolds,
        TimersWakeLoop, SetForNow, FatalOnlyLate

\* Another thread makes a timer.
LEMMA MakeTimerInv == ASSUME Inv, ~fatal, MakeTimer PROVE Inv'
<1> DEFINE n == Len(timer) + 1
<1>1. TypeOK
  BY DEF Inv
<1>2. /\ timer' \in Seq(Timers) /\ Len(timer') <= MaxTimers
      /\ Ids' = Ids \cup {n} /\ n \notin Ids
      /\ \A i \in Ids : timer'[i] = timer[i]
      /\ Seq(Ids) \subseteq Seq(Ids')
      /\ Seq({"add", "cancel"} \X Ids) \subseteq Seq({"add", "cancel"} \X Ids')
  BY <1>1, NewTimerFacts DEF MakeTimer
<1> HIDE DEF n
<1>3. made' = made \cup {n} /\ UNCHANGED <<clockVars, timers_, cancelVars, batchVars, functors,
                                           historyVars>>
  BY DEF MakeTimer, n
<1>4. TypeOK'
  BY <1>1, <1>2, <1>3 DEF TypeOK, Timers, clockVars, cancelVars, batchVars, historyVars
<1>5. ASSUME NEW i \in Ids' PROVE OnePlace(i)'
  <2>1. i \in Ids => OnePlace(i)
    BY DEF Inv
  <2>2. i \notin Ids => ~Making(i) /\ ~Queued(i) /\ ~Waiting(i) /\ ~Running(i) /\ ~Done(i)
    BY <1>1, PlacesTyped
  <2>3. (Making(i)' <=> Making(i) \/ i = n) /\ (Queued(i)' <=> Queued(i))
        /\ (Waiting(i)' <=> Waiting(i)) /\ (Running(i)' <=> Running(i)) /\ (Done(i)' <=> Done(i))
    BY <1>3 DEF Making, Queued, Waiting, Running, Done, InBatch, batchVars, historyVars
  <2> QED BY <1>2, <2>1, <2>2, <2>3 DEF OnePlace
<1>6. CancelAfterAdd'
  <2>1. ASSUME NEW k \in DOMAIN functors PROVE functors[k][2] # n
    <3>1. functors[k] \in {"add", "cancel"} \X Ids
      BY <1>1 DEF TypeOK
    <3> QED BY <1>2, <3>1
  <2> QED BY <1>3, <2>1 DEF Inv, CancelAfterAdd
<1>7. TimersWakeLoop' /\ FatalOnlyLate'
  BY <1>3 DEF Inv, TimersWakeLoop, SetForNow, FatalOnlyLate, clockVars, batchVars
<1> QED BY <1>3, <1>4, <1>5, <1>6, <1>7 DEF Inv, BatchInv, CancelHolds, batchVars, historyVars

\* What appending a functor does to the queue.
LEMMA QueueFacts ==
  ASSUME TypeOK, IsInjective(functors), CancelAfterAdd,
         NEW f \in {"add", "cancel"} \X Ids, f \notin ToSet(functors),
         functors' = Append(functors, f)
  PROVE  /\ functors' \in Seq({"add", "cancel"} \X Ids)
         /\ IsInjective(functors')
         /\ DOMAIN functors' = 1..Len(functors) + 1
         /\ \A k \in 1..Len(functors) : functors'[k] = functors[k]
         /\ functors'[Len(functors) + 1] = f
         /\ ToSet(functors') = ToSet(functors) \cup {f}
<1>1. functors \in Seq({"add", "cancel"} \X Ids)
  BY DEF TypeOK
<1>2. /\ functors' \in Seq({"add", "cancel"} \X Ids)
      /\ Len(functors') = Len(functors) + 1 /\ DOMAIN functors' = 1..Len(functors) + 1
      /\ \A k \in 1..Len(functors) : functors'[k] = functors[k]
      /\ functors'[Len(functors) + 1] = f
  BY <1>1
<1>3. \A j, k \in 1..Len(functors) : functors[k] # f /\ (functors[j] = functors[k] => j = k)
  BY <1>1 DEF ToSet, IsInjective
<1>4. IsInjective(functors')
  <2> SUFFICES ASSUME NEW j \in 1..Len(functors) + 1, NEW k \in 1..Len(functors) + 1,
                      functors'[j] = functors'[k]
               PROVE  j = k
    BY <1>2 DEF IsInjective
  <2>1. Len(functors) \in Nat
    BY <1>1
  <2> QED BY <1>2, <1>3, <2>1
<1>5. ToSet(functors') = ToSet(functors) \cup {f}
  <2>1. DOMAIN functors = 1..Len(functors) /\ Len(functors) \in Nat
    BY <1>1
  <2>2. DOMAIN functors' = DOMAIN functors \cup {Len(functors) + 1}
    BY <1>2, <2>1
  <2> QED BY <1>2, <2>1, <2>2 DEF ToSet
<1> QED BY <1>2, <1>4, <1>5

\* Another thread queues a timer that it has made.
LEMMA AddTimerInv == ASSUME Inv, ~fatal, NEW i \in made, AddTimer(i) PROVE Inv'
<1> DEFINE f == <<"add", i>>
<1>1. TypeOK /\ IsInjective(functors) /\ CancelAfterAdd /\ i \in Ids /\ OnePlace(i)
  BY DEF Inv, TypeOK
<1>2. f \notin ToSet(functors) /\ f \in {"add", "cancel"} \X Ids
  BY <1>1 DEF OnePlace, Making, Queued
<1>3. functors' = Append(functors, f) /\ made' = made \ {i}
      /\ UNCHANGED <<clockVars, timer, timers_, cancelVars, batchVars, historyVars>>
  BY DEF AddTimer
<1>4. /\ functors' \in Seq({"add", "cancel"} \X Ids)
      /\ IsInjective(functors')
      /\ DOMAIN functors' = 1..Len(functors) + 1
      /\ \A k \in 1..Len(functors) : functors'[k] = functors[k]
      /\ functors'[Len(functors) + 1] = f
      /\ ToSet(functors') = ToSet(functors) \cup {f}
  <2> HIDE DEF f
  <2> QED BY <1>1, <1>2, <1>3, QueueFacts
<1>5. TypeOK'
  BY <1>1, <1>3, <1>4 DEF TypeOK, Ids, clockVars, cancelVars, batchVars, historyVars
<1>6. ASSUME NEW j \in Ids PROVE OnePlace(j)'
  <2>1. OnePlace(j)
    BY DEF Inv
  <2>2. Queued(j)' <=> Queued(j) \/ j = i
    BY <1>4 DEF Queued
  <2>3. (Making(j)' <=> Making(j) /\ j # i)
        /\ (Waiting(j)' <=> Waiting(j)) /\ (Running(j)' <=> Running(j)) /\ (Done(j)' <=> Done(j))
    BY <1>3 DEF Making, Waiting, Running, Done, InBatch, batchVars, historyVars
  <2> QED BY <2>1, <2>2, <2>3 DEF OnePlace, Making
<1>7. CancelAfterAdd'
  <2> SUFFICES ASSUME NEW k \in DOMAIN functors', functors'[k][1] = "cancel"
               PROVE  /\ functors'[k][2] \notin made'
                      /\ \A j \in DOMAIN functors' : functors'[j] = <<"add", functors'[k][2]>> => j < k
    BY DEF CancelAfterAdd
  <2>1. Len(functors) \in Nat /\ DOMAIN functors = 1..Len(functors)
    BY <1>1 DEF TypeOK
  <2>2. k \in DOMAIN functors /\ functors'[k] = functors[k]
    BY <1>4, <2>1
  <2>3. /\ functors[k][2] \notin made
        /\ \A j \in DOMAIN functors : functors[j] = <<"add", functors[k][2]>> => j < k
    BY <1>1, <2>2 DEF CancelAfterAdd
  <2>4. functors[k][2] # i
    BY <2>3
  <2>5. ASSUME NEW j \in DOMAIN functors', functors'[j] = <<"add", functors'[k][2]>> PROVE j < k
    <3>1. j # Len(functors) + 1
      BY <1>4, <2>2, <2>4, <2>5
    <3>2. j \in DOMAIN functors /\ functors'[j] = functors[j]
      BY <1>4, <2>1, <3>1
    <3> QED BY <2>2, <2>3, <2>5, <3>2
  <2> QED BY <1>3, <2>2, <2>3, <2>5
<1> QED BY <1>3, <1>4, <1>5, <1>6, <1>7 DEF Inv, BatchInv, CancelHolds, TimersWakeLoop, SetForNow,
        FatalOnlyLate, Ids, clockVars, batchVars, historyVars

\* Another thread cancels a timer whose id it has.
LEMMA CancelInv == ASSUME Inv, ~fatal, NEW i \in DOMAIN timer, cancel(i) PROVE Inv'
<1> DEFINE f == <<"cancel", i>>
<1>1. TypeOK /\ IsInjective(functors) /\ CancelAfterAdd /\ i \in Ids
  <2>1. timer \in Seq(Timers)
    BY DEF Inv, TypeOK, Timers
  <2>2. i \in Ids
    BY <2>1 DEF Ids
  <2> QED BY <2>2 DEF Inv
<1>2. f \notin ToSet(functors) /\ f \in {"add", "cancel"} \X Ids /\ i \notin made
  BY <1>1 DEF cancel
<1>3. functors' = Append(functors, f)
      /\ UNCHANGED <<clockVars, timer, timers_, cancelVars, batchVars, made, historyVars>>
  BY DEF cancel
<1>4. /\ functors' \in Seq({"add", "cancel"} \X Ids)
      /\ IsInjective(functors')
      /\ DOMAIN functors' = 1..Len(functors) + 1
      /\ \A k \in 1..Len(functors) : functors'[k] = functors[k]
      /\ functors'[Len(functors) + 1] = f
      /\ ToSet(functors') = ToSet(functors) \cup {f}
  <2> HIDE DEF f
  <2> QED BY <1>1, <1>2, <1>3, QueueFacts
<1>5. TypeOK'
  BY <1>1, <1>3, <1>4 DEF TypeOK, Ids, clockVars, cancelVars, batchVars, historyVars
<1>6. ASSUME NEW j \in Ids PROVE OnePlace(j)'
  <2>1. OnePlace(j)
    BY DEF Inv
  <2>2. Queued(j)' <=> Queued(j)
    BY <1>4 DEF Queued
  <2>3. (Making(j)' <=> Making(j))
        /\ (Waiting(j)' <=> Waiting(j)) /\ (Running(j)' <=> Running(j)) /\ (Done(j)' <=> Done(j))
    BY <1>3 DEF Making, Waiting, Running, Done, InBatch, batchVars, historyVars
  <2> QED BY <2>1, <2>2, <2>3 DEF OnePlace
<1>7. CancelAfterAdd'
  <2> SUFFICES ASSUME NEW k \in DOMAIN functors', functors'[k][1] = "cancel"
               PROVE  /\ functors'[k][2] \notin made'
                      /\ \A j \in DOMAIN functors' : functors'[j] = <<"add", functors'[k][2]>> => j < k
    BY DEF CancelAfterAdd
  <2>1. Len(functors) \in Nat /\ DOMAIN functors = 1..Len(functors)
    BY <1>1 DEF TypeOK
  <2>2. ASSUME NEW j \in DOMAIN functors', functors'[j] = <<"add", functors'[k][2]>>
        PROVE  j \in DOMAIN functors /\ functors'[j] = functors[j]
    BY <1>4, <2>1, <2>2
  <2>3. CASE k = Len(functors) + 1
    BY <1>2, <1>3, <1>4, <2>1, <2>2, <2>3
  <2>4. CASE k \in DOMAIN functors
    <3>1. functors'[k] = functors[k]
      BY <1>4, <2>1, <2>4
    <3>2. /\ functors[k][2] \notin made
          /\ \A j \in DOMAIN functors : functors[j] = <<"add", functors[k][2]>> => j < k
      BY <1>1, <2>4, <3>1 DEF CancelAfterAdd
    <3> QED BY <1>3, <2>2, <3>1, <3>2
  <2> QED BY <1>4, <2>1, <2>3, <2>4
<1> QED BY <1>3, <1>4, <1>5, <1>6, <1>7 DEF Inv, BatchInv, CancelHolds, TimersWakeLoop, SetForNow,
        FatalOnlyLate, Ids, clockVars, batchVars, historyVars

\* The loop calls the first functor of its queue; what it does to the queue.
LEMMA CalledFacts ==
  ASSUME TypeOK, IsInjective(functors), CancelAfterAdd, functors # <<>>,
         functors' = Tail(functors), made' = made
  PROVE  /\ Head(functors) \in {"add", "cancel"} \X Ids
         /\ functors' \in Seq({"add", "cancel"} \X Ids)
         /\ IsInjective(functors')
         /\ ToSet(functors') = ToSet(functors) \ {Head(functors)}
         /\ Head(functors) \in ToSet(functors)
         /\ CancelAfterAdd'
         /\ Head(functors)[1] = "cancel" =>
              /\ Head(functors)[2] \notin made
              /\ <<"add", Head(functors)[2]>> \notin ToSet(functors)
<1>1. functors \in Seq({"add", "cancel"} \X Ids)
  BY DEF TypeOK
<1>2. /\ Len(functors) \in Nat /\ Len(functors) >= 1 /\ DOMAIN functors = 1..Len(functors)
      /\ Head(functors) = functors[1] /\ 1 \in DOMAIN functors
  BY <1>1
<1>3. /\ functors' \in Seq({"add", "cancel"} \X Ids)
      /\ Len(functors') = Len(functors) - 1 /\ DOMAIN functors' = 1..Len(functors) - 1
      /\ \A k \in 1..Len(functors) - 1 : functors'[k] = functors[k + 1]
  BY <1>1, <1>2
<1>4. \A j, k \in 1..Len(functors) : functors[j] = functors[k] => j = k
  BY <1>2 DEF IsInjective
<1>5. IsInjective(functors')
  <2> SUFFICES ASSUME NEW j \in 1..Len(functors) - 1, NEW k \in 1..Len(functors) - 1,
                      functors'[j] = functors'[k]
               PROVE  j = k
    BY <1>3 DEF IsInjective
  <2>1. j + 1 \in 1..Len(functors) /\ k + 1 \in 1..Len(functors)
    BY <1>2
  <2>2. functors[j + 1] = functors[k + 1]
    BY <1>3
  <2>3. j + 1 = k + 1
    BY <1>4, <2>1, <2>2
  <2> QED BY <2>3
<1>6. ToSet(functors') = ToSet(functors) \ {functors[1]}
  <2>1. ASSUME NEW k \in 1..Len(functors) - 1
        PROVE  functors'[k] \in ToSet(functors) \ {functors[1]}
    <3>1. k + 1 \in 1..Len(functors) /\ k + 1 # 1 /\ functors'[k] = functors[k + 1]
      BY <1>2, <1>3
    <3>2. functors[k + 1] # functors[1]
      BY <1>2, <1>4, <3>1
    <3> QED BY <1>2, <3>1, <3>2 DEF ToSet
  <2>2. ASSUME NEW k \in 1..Len(functors), functors[k] # functors[1]
        PROVE  functors[k] \in ToSet(functors')
    <3>1. k - 1 \in 1..Len(functors) - 1
      BY <1>2, <2>2
    <3>2. functors'[k - 1] = functors[k]
      BY <1>3, <3>1
    <3> QED BY <1>3, <3>1, <3>2 DEF ToSet
  <2>3. ToSet(functors) = {functors[k] : k \in 1..Len(functors)}
        /\ ToSet(functors') = {functors'[k] : k \in 1..Len(functors) - 1}
    BY <1>2, <1>3 DEF ToSet
  <2>4. \A x \in ToSet(functors') : x \in ToSet(functors) \ {functors[1]}
    BY <2>1, <2>3
  <2>5. \A x \in ToSet(functors) \ {functors[1]} : x \in ToSet(functors')
    BY <2>2, <2>3
  <2> QED BY <2>4, <2>5
<1>7. CancelAfterAdd'
  <2> SUFFICES ASSUME NEW k \in DOMAIN functors', functors'[k][1] = "cancel"
               PROVE  /\ functors'[k][2] \notin made'
                      /\ \A j \in DOMAIN functors' : functors'[j] = <<"add", functors'[k][2]>> => j < k
    BY DEF CancelAfterAdd
  <2>1. k + 1 \in DOMAIN functors /\ functors'[k] = functors[k + 1]
    BY <1>2, <1>3
  <2>2. /\ functors[k + 1][2] \notin made
        /\ \A j \in DOMAIN functors : functors[j] = <<"add", functors[k + 1][2]>> => j < k + 1
    BY <2>1 DEF CancelAfterAdd
  <2>3. ASSUME NEW j \in DOMAIN functors', functors'[j] = <<"add", functors'[k][2]>> PROVE j < k
    <3>1. j + 1 \in DOMAIN functors /\ functors'[j] = functors[j + 1]
      BY <1>2, <1>3
    <3>2. j + 1 < k + 1
      BY <2>1, <2>2, <2>3, <3>1
    <3> QED BY <1>3, <3>2
  <2> QED BY <2>1, <2>2, <2>3
<1>8. ASSUME functors[1][1] = "cancel"
      PROVE  functors[1][2] \notin made /\ <<"add", functors[1][2]>> \notin ToSet(functors)
  <2>1. \A j \in DOMAIN functors : functors[j] # <<"add", functors[1][2]>>
    BY <1>2, <1>8 DEF CancelAfterAdd
  <2> QED BY <1>2, <1>8, <2>1 DEF ToSet, CancelAfterAdd
<1>9. Head(functors) \in {"add", "cancel"} \X Ids /\ Head(functors) \in ToSet(functors)
  BY <1>1, <1>2 DEF ToSet
<1> QED BY <1>2, <1>3, <1>5, <1>6, <1>7, <1>8, <1>9

\* Outside a batch no timer runs.
LEMMA NoBatch == ASSUME TypeOK, BatchInv, pc \in {"idle", "active"}, NEW i PROVE ~Running(i)
<1>1. expired = <<>> /\ InBatch = ToSet(expired)
  BY DEF BatchInv, InBatch
<1> QED BY <1>1 DEF Running, ToSet

\* The loop calls AddTimerInLoop or CancelTimerInLoop from its queue.
LEMMA RunFunctorInv == ASSUME Inv, ~fatal, RunFunctor PROVE Inv'
<1> DEFINE f == Head(functors)
           i == f[2]
<1>1. /\ TypeOK /\ IsInjective(functors) /\ CancelAfterAdd /\ BatchInv /\ fatal = FALSE
      /\ \A j \in Ids : OnePlace(j)
  BY DEF Inv, TypeOK
<1>2. pc = "idle" /\ functors # <<>> /\ functors' = Tail(functors) /\ made' = made
      /\ UNCHANGED <<timer, CallingExpiredTimers_, batchVars>>
  BY DEF RunFunctor
<1>3. /\ f \in {"add", "cancel"} \X Ids
      /\ functors' \in Seq({"add", "cancel"} \X Ids) /\ IsInjective(functors')
      /\ ToSet(functors') = ToSet(functors) \ {f} /\ f \in ToSet(functors)
      /\ CancelAfterAdd'
      /\ f[1] = "cancel" => i \notin made /\ <<"add", i>> \notin ToSet(functors)
  BY <1>1, <1>2, CalledFacts
<1>4. i \in Ids /\ f = <<f[1], i>>
  BY <1>3
<1>5. Ids \in SUBSET Nat /\ timers_ \in Seq(Ids) /\ IsInjective(timers_) /\ Ids' = Ids
  BY <1>1, <1>2 DEF TypeOK, Ids
<1> HIDE DEF f
<1>6. \A j : ~Running(j) /\ ~Running(j)'
  <2>1. \A j : ~Running(j)
    BY <1>1, <1>2, NoBatch
  <2> QED BY <1>2, <2>1 DEF Running, InBatch, batchVars
<1>7. CASE f[1] = "add"
  <2>1. AddTimerInLoop(timer, i) /\ UNCHANGED <<CancelTimers_, historyVars>>
    BY <1>7 DEF RunFunctor, f
  <2>2. Queued(i) /\ OnePlace(i)
    BY <1>1, <1>3, <1>4, <1>7 DEF Queued
  <2>3. i \notin ToSet(timers_) /\ timer[i].expiration \in Nat
    <3>1. timer \in Seq(Timers)
      BY <1>1 DEF TypeOK, Timers
    <3>2. timer[i] \in Timers
      BY <1>4, <3>1 DEF Ids
    <3> QED BY <2>2, <3>2 DEF OnePlace, Waiting, Timers
  <2>4. /\ timers_' \in Seq(Ids) /\ IsInjective(timers_')
        /\ ToSet(timers_') = ToSet(timers_) \cup {i}
        /\ time' \in 0..MaxTime /\ timerfd' \in Nat /\ fatal' \in BOOLEAN
        /\ settime' \in Nat \X (0..MaxTime) \X (0..MaxTime)
        /\ fatal' => /\ settime'[1] = timer[i].expiration
                     /\ \E k \in {2, 3} : timer[i].expiration < Now(settime'[k])
        /\ ~fatal' => \/ timerfd' > 0 \/ SetForNow'
                      \/ timers_ # <<>> /\ timerfd' = timerfd /\ settime' = settime
    <3>1. time \in 0..MaxTime /\ timerfd \in Nat /\ settime \in Nat \X (0..MaxTime) \X (0..MaxTime)
      BY <1>1 DEF TypeOK
    <3> QED BY <1>1, <1>4, <1>5, <2>1, <2>3, <3>1, AddFacts
  <2>5. TypeOK'
    BY <1>1, <1>2, <1>3, <1>5, <2>1, <2>4 DEF TypeOK, batchVars, historyVars
  <2>6. ASSUME NEW j \in Ids PROVE OnePlace(j)'
    <3>1. OnePlace(j)
      BY <1>1
    <3>2. Queued(j)' <=> Queued(j) /\ j # i
      BY <1>3, <1>4, <1>7 DEF Queued
    <3>3. (Waiting(j)' <=> Waiting(j) \/ j = i) /\ (Making(j)' <=> Making(j)) /\ (Done(j)' <=> Done(j))
      BY <1>2, <2>1, <2>4 DEF Waiting, Making, Done, historyVars
    <3> QED BY <1>6, <2>2, <3>1, <3>2, <3>3 DEF OnePlace
  <2>7. FatalOnlyLate'
    BY <1>2, <2>4 DEF FatalOnlyLate
  <2>8. TimersWakeLoop'
    BY <1>1, <1>2, <2>4 DEF Inv, TimersWakeLoop, SetForNow
  <2> QED BY <1>1, <1>2, <1>3, <1>5, <2>1, <2>5, <2>6, <2>7, <2>8 DEF Inv, BatchInv, CancelHolds,
          batchVars, historyVars
<1>8. CASE f[1] = "cancel"
  <2>1. CancelTimerInLoop(i) /\ cancelled' = cancelled \cup {i} /\ UNCHANGED clockVars
    BY <1>8 DEF RunFunctor, f
  <2>2. /\ timers_' \in Seq(Ids) /\ IsInjective(timers_')
        /\ ToSet(timers_') = ToSet(timers_) \ {i}
        /\ gone' = gone \cup (ToSet(timers_) \cap {i})
        /\ CancelTimers_' = CancelTimers_ \/ CancelTimers_' = CancelTimers_ \cup {i}
    BY <1>5, <2>1, CancelFacts
  <2>3. i \in gone'
    <3>1. OnePlace(i) /\ ~Making(i) /\ ~Queued(i) /\ ~Running(i)
      BY <1>1, <1>3, <1>4, <1>6, <1>8 DEF Making, Queued
    <3> QED BY <2>2, <3>1 DEF OnePlace, Waiting, Done
  <2>4. TypeOK'
    BY <1>1, <1>2, <1>3, <1>4, <1>5, <2>1, <2>2 DEF TypeOK, batchVars, clockVars
  <2>5. ASSUME NEW j \in Ids PROVE OnePlace(j)'
    <3>1. OnePlace(j)
      BY <1>1
    <3>2. Queued(j)' <=> Queued(j)
      BY <1>3, <1>4, <1>8 DEF Queued
    <3>3. /\ Waiting(j)' <=> Waiting(j) /\ j # i
          /\ Making(j)' <=> Making(j)
          /\ Done(j)' <=> Done(j) \/ (Waiting(j) /\ j = i)
      BY <1>2, <2>2 DEF Waiting, Making, Done
    <3> QED BY <1>6, <3>1, <3>2, <3>3 DEF OnePlace
  <2>6. CancelHolds'
    BY <2>1, <2>2, <2>3 DEF Inv, CancelHolds
  <2>7. TimersWakeLoop'
    BY <1>1, <1>2, <2>1, <2>2, EmptyStays DEF Inv, TimersWakeLoop, SetForNow, clockVars
  <2> QED BY <1>1, <1>2, <1>3, <1>5, <2>1, <2>4, <2>5, <2>6, <2>7 DEF Inv, BatchInv,
          FatalOnlyLate, batchVars, clockVars
<1> QED BY <1>3, <1>7, <1>8

\* User code in the loop's thread adds a timer.
LEMMA UserAddsInv == ASSUME Inv, ~fatal, UserAdds PROVE Inv'
<1> DEFINE n == Len(timer')
<1>1. /\ TypeOK /\ fatal = FALSE
      /\ \A j \in Ids : OnePlace(j)
  BY DEF Inv, TypeOK
<1>2. /\ timer' \in Seq(Timers) /\ n = Len(timer) + 1 /\ n <= MaxTimers
      /\ Ids' = Ids \cup {n} /\ n \notin Ids
      /\ \A i \in Ids : timer'[i] = timer[i]
      /\ Seq(Ids) \subseteq Seq(Ids')
      /\ Seq({"add", "cancel"} \X Ids) \subseteq Seq({"add", "cancel"} \X Ids')
  BY <1>1, NewTimerFacts DEF UserAdds
<1>3. AddTimerInLoop(timer', n) /\ UNCHANGED <<cancelVars, batchVars, made, functors, historyVars>>
  BY DEF UserAdds
<1>4. n \in Ids' /\ Ids' \in SUBSET Nat /\ timer'[n].expiration \in Nat
  <2>1. Ids' = 1..n /\ n \in Nat
    BY <1>2 DEF Ids
  <2>2. n \in Ids'
    BY <1>2
  <2>3. timer'[n] \in Timers
    BY <1>2, <2>1, <2>2
  <2> QED BY <2>1, <2>2, <2>3 DEF Timers
<1> HIDE DEF n
<1>5. ~Making(n) /\ ~Queued(n) /\ ~Waiting(n) /\ ~Running(n) /\ ~Done(n)
  BY <1>1, <1>2, PlacesTyped
<1>6. /\ timers_' \in Seq(Ids') /\ IsInjective(timers_')
      /\ ToSet(timers_') = ToSet(timers_) \cup {n}
      /\ time' \in 0..MaxTime /\ timerfd' \in Nat /\ fatal' \in BOOLEAN
      /\ settime' \in Nat \X (0..MaxTime) \X (0..MaxTime)
      /\ fatal' => /\ settime'[1] = timer'[n].expiration
                   /\ \E k \in {2, 3} : timer'[n].expiration < Now(settime'[k])
      /\ ~fatal' => \/ timerfd' > 0 \/ SetForNow'
                    \/ timers_ # <<>> /\ timerfd' = timerfd /\ settime' = settime
  <2>1. time \in 0..MaxTime /\ timerfd \in Nat /\ settime \in Nat \X (0..MaxTime) \X (0..MaxTime)
        /\ timers_ \in Seq(Ids') /\ IsInjective(timers_)
    BY <1>1, <1>2 DEF TypeOK
  <2>2. n \notin ToSet(timers_)
    BY <1>5 DEF Waiting
  <2> QED BY <1>1, <1>3, <1>4, <2>1, <2>2, AddFacts
<1>7. TypeOK'
  BY <1>1, <1>2, <1>3, <1>6 DEF TypeOK, Timers, cancelVars, batchVars, historyVars, n
<1>8. ASSUME NEW j \in Ids' PROVE OnePlace(j)'
  <2>1. j \in Ids => OnePlace(j)
    BY <1>1
  <2>2. (Waiting(j)' <=> Waiting(j) \/ j = n) /\ (Making(j)' <=> Making(j))
        /\ (Queued(j)' <=> Queued(j)) /\ (Running(j)' <=> Running(j)) /\ (Done(j)' <=> Done(j))
    BY <1>3, <1>6 DEF Making, Queued, Waiting, Running, Done, InBatch, batchVars, historyVars
  <2> QED BY <1>2, <1>5, <2>1, <2>2 DEF OnePlace
<1>9. TimersWakeLoop'
  BY <1>1, <1>3, <1>6 DEF Inv, TimersWakeLoop, SetForNow, batchVars
<1>10. FatalOnlyLate'
  BY <1>6 DEF FatalOnlyLate
<1> QED BY <1>3, <1>7, <1>8, <1>9, <1>10 DEF Inv, BatchInv, CancelAfterAdd, CancelHolds,
        batchVars, historyVars

\* User code in the loop's thread cancels a timer.
LEMMA UserCancelsInv == ASSUME Inv, ~fatal, NEW i \in DOMAIN timer, UserCancels(i) PROVE Inv'
<1>1. TypeOK /\ \A j \in Ids : OnePlace(j)
  BY DEF Inv
<1>2. /\ CancelTimerInLoop(i)
      /\ UNCHANGED <<clockVars, timer, CallingExpiredTimers_, batchVars, made, functors, cancelled>>
  BY DEF UserCancels
<1>3. i \in Ids /\ timers_ \in Seq(Ids) /\ IsInjective(timers_) /\ Ids' = Ids
  <2>1. timer \in Seq(Timers)
    BY <1>1 DEF TypeOK, Timers
  <2>2. i \in Ids
    BY <2>1 DEF Ids
  <2>3. timers_ \in Seq(Ids) /\ IsInjective(timers_)
    BY <1>1 DEF TypeOK
  <2>4. Ids' = Ids
    BY <1>2 DEF Ids
  <2> QED BY <2>2, <2>3, <2>4
<1>4. /\ timers_' \in Seq(Ids) /\ IsInjective(timers_')
      /\ ToSet(timers_') = ToSet(timers_) \ {i}
      /\ gone' = gone \cup (ToSet(timers_) \cap {i})
      /\ CancelTimers_' = CancelTimers_ \/ CancelTimers_' = CancelTimers_ \cup {i}
  BY <1>2, <1>3, CancelFacts
<1>5. TypeOK'
  BY <1>1, <1>2, <1>3, <1>4 DEF TypeOK, batchVars, clockVars
<1>6. ASSUME NEW j \in Ids PROVE OnePlace(j)'
  <2>1. OnePlace(j)
    BY <1>1
  <2>2. /\ Waiting(j)' <=> Waiting(j) /\ j # i
        /\ Making(j)' <=> Making(j)
        /\ Queued(j)' <=> Queued(j)
        /\ Running(j)' <=> Running(j)
        /\ Done(j)' <=> Done(j) \/ (Waiting(j) /\ j = i)
    BY <1>2, <1>4 DEF Waiting, Making, Queued, Running, Done, InBatch, batchVars
  <2> QED BY <2>1, <2>2 DEF OnePlace
<1>7. TimersWakeLoop'
  BY <1>2, <1>3, <1>4, EmptyStays DEF Inv, TimersWakeLoop, SetForNow, batchVars, clockVars
<1> QED BY <1>2, <1>3, <1>4, <1>5, <1>6, <1>7 DEF Inv, BatchInv, CancelAfterAdd, CancelHolds,
        FatalOnlyLate, batchVars, clockVars

\* The timerfd has become readable, the next callback is called, or the last
\* has returned: the timers stay where they are.
LEMMA LoopGoesOn == ASSUME Inv, ~fatal, Poll \/ RunTimer \/ CallbacksDone PROVE Inv'
<1>1. TypeOK /\ BatchInv /\ \A j \in Ids : OnePlace(j)
  BY DEF Inv
<1>2. UNCHANGED <<clockVars, timer, timers_, CancelTimers_, expired, nowAt, made, functors,
                  historyVars>>
  BY DEF Poll, RunTimer, CallbacksDone, cancelVars
<1>3. expired \in Seq(Ids) /\ at \in 0..Len(expired) /\ Len(expired) \in Nat
  BY <1>1 DEF TypeOK
<1>4. TypeOK'
  <2>1. at' \in 0..Len(expired) /\ CallingExpiredTimers_' \in BOOLEAN
        /\ pc' \in {"idle", "active", "callbacks", "reset"}
    <3>1. CASE Poll
      BY <1>1, <3>1 DEF Poll, TypeOK, cancelVars
    <3>2. CASE RunTimer
      <4>1. at' = at + 1 /\ at < Len(expired)
        BY <3>2 DEF RunTimer
      <4>2. at' \in 0..Len(expired)
        BY <1>3, <4>1
      <4> QED BY <1>1, <3>2, <4>2 DEF RunTimer, TypeOK, cancelVars
    <3>3. CASE CallbacksDone
      <4>1. at' = 0 /\ CallingExpiredTimers_' = FALSE /\ pc' = "reset"
        BY <3>3 DEF CallbacksDone
      <4>2. 0 \in 0..Len(expired)
        BY <1>3
      <4> QED BY <4>1, <4>2
    <3> QED BY <3>1, <3>2, <3>3
  <2> QED BY <1>1, <1>2, <2>1 DEF TypeOK, Ids, clockVars, historyVars
<1>5. InBatch' = InBatch
  <2>1. CASE Poll \/ RunTimer
    BY <1>2, <2>1 DEF Poll, RunTimer, InBatch
  <2>2. CASE CallbacksDone
    <3>1. SubSeq(expired, 0 + 1, Len(expired)) = expired
      BY <1>3
    <3> QED BY <1>2, <2>2, <3>1 DEF CallbacksDone, InBatch
  <2> QED BY <2>1, <2>2
<1>6. ASSUME NEW j \in Ids PROVE OnePlace(j)'
  <2>1. OnePlace(j)
    BY <1>1
  <2> QED BY <1>2, <1>5, <2>1 DEF OnePlace, Making, Queued, Waiting, Running, Done, historyVars
<1>7. BatchInv' /\ TimersWakeLoop'
  BY <1>1, <1>2 DEF Inv, BatchInv, TimersWakeLoop, Poll, RunTimer, CallbacksDone
<1> QED BY <1>2, <1>4, <1>6, <1>7 DEF Inv, CancelAfterAdd, CancelHolds, FatalOnlyLate, Ids,
        clockVars, historyVars

\* The expired timers are taken out of the set.
LEMMA HandleReadInv == ASSUME Inv, ~fatal, HandleRead PROVE Inv'
<1> DEFINE n == Due(Now(time))
<1>1. TypeOK /\ BatchInv /\ \A j \in Ids : OnePlace(j)
  BY DEF Inv
<1>2. /\ pc = "active" /\ pc' = "callbacks" /\ at' = 0 /\ nowAt' = time
      /\ timerfd' = (IF time >= timerfd THEN 0 ELSE timerfd)
      /\ expired' = SubSeq(timers_, 1, n) /\ timers_' = SubSeq(timers_, n + 1, Len(timers_))
      /\ CallingExpiredTimers_' = FALSE
      /\ UNCHANGED <<time, fatal, settime, timer, CancelTimers_, made, functors, historyVars>>
  BY DEF HandleRead, NotDue
<1>3. timers_ \in Seq(Ids) /\ IsInjective(timers_) /\ Ids' = Ids /\ time \in Nat
  BY <1>1, <1>2, TimerAssumption DEF TypeOK, Ids
<1>4. n \in 0..Len(timers_)
  <2>1. \A i \in Ids : timer[i].expiration \in Nat
    <3>1. timer \in Seq(Timers)
      BY <1>1 DEF TypeOK, Timers
    <3>2. \A i \in Ids : timer[i] \in Timers
      BY <3>1 DEF Ids
    <3> QED BY <3>2 DEF Timers
  <2>2. Now(time) \in Nat
    BY <1>3, NowNat
  <2> QED BY <1>3, <2>1, <2>2, DueFacts
<1> HIDE DEF n
<1>5. /\ expired' \in Seq(Ids) /\ timers_' \in Seq(Ids)
      /\ IsInjective(expired') /\ IsInjective(timers_')
      /\ Len(expired') = n /\ \A k \in 1..n : expired'[k] = timers_[k]
      /\ ToSet(timers_) = ToSet(expired') \cup ToSet(timers_')
      /\ ToSet(expired') \cap ToSet(timers_') = {}
  BY <1>2, <1>3, <1>4, CutFacts
<1>6. TypeOK'
  <2>1. timerfd' \in Nat /\ at' \in 0..Len(expired') /\ nowAt' \in 0..MaxTime
    BY <1>1, <1>2, <1>4, <1>5 DEF TypeOK
  <2> QED BY <1>1, <1>2, <1>3, <1>5, <2>1 DEF TypeOK, historyVars
<1>7. \A j : ~Running(j)
  BY <1>1, <1>2, NoBatch
<1>8. ASSUME NEW j \in Ids PROVE OnePlace(j)'
  <2>1. OnePlace(j) /\ ~Running(j)
    BY <1>1, <1>7
  <2>2. Running(j)' <=> j \in ToSet(expired')
    BY <1>2 DEF Running, InBatch
  <2>3. /\ Waiting(j) <=> Waiting(j)' \/ Running(j)'
        /\ ~(Waiting(j)' /\ Running(j)')
    BY <1>5, <2>2 DEF Waiting
  <2>4. (Making(j)' <=> Making(j)) /\ (Queued(j)' <=> Queued(j)) /\ (Done(j)' <=> Done(j))
    BY <1>2 DEF Making, Queued, Done, historyVars
  <2> QED BY <2>1, <2>3, <2>4 DEF OnePlace
<1>9. TimersWakeLoop'
  BY <1>2 DEF TimersWakeLoop
<1>10. BatchInv'
  BY <1>2, <1>5 DEF BatchInv
<1> QED BY <1>2, <1>3, <1>6, <1>8, <1>9, <1>10 DEF Inv, CancelAfterAdd, CancelHolds, FatalOnlyLate,
        historyVars

\* A timer of the batch is started again, or has run for the last time.
LEMMA RestartInv == ASSUME Inv, ~fatal, restart PROVE Inv'
<1> DEFINE i == expired[at + 1]
<1>1. TypeOK /\ BatchInv /\ \A j \in Ids : OnePlace(j)
  BY DEF Inv
<1>2. /\ pc = "reset" /\ at < Len(expired) /\ at' = at + 1
      /\ UNCHANGED <<clockVars, cancelVars, expired, nowAt, pc, made, functors, cancelled>>
  BY DEF restart
<1>3. /\ expired \in Seq(Ids) /\ at \in 0..Len(expired) /\ Len(expired) \in Nat
      /\ at + 1 \in 0..Len(expired) /\ at + 1 \in DOMAIN expired /\ i \in Ids
      /\ timers_ \in Seq(Ids) /\ IsInjective(timers_) /\ Ids \in SUBSET Nat
  <2>1. expired \in Seq(Ids) /\ at \in 0..Len(expired) /\ timers_ \in Seq(Ids) /\ IsInjective(timers_)
    BY <1>1 DEF TypeOK
  <2>2. Len(expired) \in Nat /\ DOMAIN expired = 1..Len(expired)
    BY <2>1
  <2>3. at + 1 \in 1..Len(expired)
    BY <1>2, <2>1, <2>2
  <2>4. i \in Ids
    BY <2>1, <2>3
  <2>5. Ids \in SUBSET Nat
    BY DEF Ids
  <2> QED BY <2>1, <2>2, <2>3, <2>4, <2>5
<1>4. ASSUME NEW j \in Ids PROVE Running(j)' <=> Running(j) /\ j # i
  <2>1. InBatch = {expired[k] : k \in at + 1..Len(expired)}
    BY <1>2, <1>3, RestFacts DEF InBatch
  <2>2. InBatch' = {expired[k] : k \in at + 1 + 1..Len(expired)}
    BY <1>2, <1>3, RestFacts DEF InBatch
  <2>3. \A k \in DOMAIN expired : expired[k] = i => k = at + 1
    BY <1>1, <1>3 DEF BatchInv, IsInjective
  <2>4. Running(j)' => Running(j) /\ j # i
    <3> SUFFICES ASSUME Running(j)' PROVE Running(j) /\ j # i
      OBVIOUS
    <3>1. PICK k \in at + 1 + 1..Len(expired) : j = expired[k]
      BY <2>2 DEF Running
    <3>2. k \in at + 1..Len(expired) /\ k # at + 1 /\ k \in DOMAIN expired
      BY <1>3, <3>1
    <3> QED BY <2>1, <2>3, <3>1, <3>2 DEF Running
  <2>5. Running(j) /\ j # i => Running(j)'
    <3> SUFFICES ASSUME Running(j), j # i PROVE Running(j)'
      OBVIOUS
    <3>1. PICK k \in at + 1..Len(expired) : j = expired[k]
      BY <2>1 DEF Running
    <3>2. k \in at + 1 + 1..Len(expired)
      BY <1>3, <3>1
    <3> QED BY <2>2, <3>1, <3>2 DEF Running
  <2> QED BY <2>4, <2>5
<1>5. Running(i)
  <2>1. InBatch = {expired[k] : k \in at + 1..Len(expired)}
    BY <1>2, <1>3, RestFacts DEF InBatch
  <2>2. at + 1 \in at + 1..Len(expired)
    BY <1>2, <1>3
  <2> QED BY <2>1, <2>2 DEF Running
<1>6. OnePlace(i)
  BY <1>1, <1>3
<1> HIDE DEF i
<1>7. CASE repeat(timer[i]) /\ i \notin CancelTimers_
  <2>1. /\ timer' = [timer EXCEPT ![i] = Restarted(@)]
        /\ insert(timer', i) /\ gone' = gone
    BY <1>7 DEF restart, i
  <2>2. timer' \in Seq(Timers) /\ Len(timer') = Len(timer)
    <3>1. timer \in Seq(Timers) /\ i \in 1..Len(timer)
      BY <1>1, <1>3 DEF TypeOK, Timers, Ids
    <3>2. Now(nowAt) \in Nat
      <4>1. nowAt \in Nat
        BY <1>1, TimerAssumption DEF TypeOK
      <4> QED BY <4>1, NowNat
    <3>3. timer[i] \in Timers
      BY <3>1
    <3>4. Restarted(timer[i]) \in Timers
      BY <3>2, <3>3 DEF Restarted, Timers
    <3> QED BY <2>1, <3>1, <3>4
  <2>3. Ids' = Ids
    BY <2>2 DEF Ids
  <2>4. i \notin ToSet(timers_)
    BY <1>5, <1>6 DEF OnePlace, Waiting
  <2>5. timers_' \in Seq(Ids) /\ IsInjective(timers_') /\ ToSet(timers_') = ToSet(timers_) \cup {i}
    BY <1>3, <2>1, <2>4, InsertFacts
  <2>6. TypeOK'
    BY <1>1, <1>2, <1>3, <2>1, <2>2, <2>3, <2>5 DEF TypeOK, Timers, clockVars, cancelVars
  <2>7. ASSUME NEW j \in Ids PROVE OnePlace(j)'
    <3>1. OnePlace(j) /\ (Running(j)' <=> Running(j) /\ j # i)
      BY <1>1, <1>4
    <3>2. (Waiting(j)' <=> Waiting(j) \/ j = i) /\ (Making(j)' <=> Making(j))
          /\ (Queued(j)' <=> Queued(j)) /\ (Done(j)' <=> Done(j))
      BY <1>2, <2>1, <2>5 DEF Waiting, Making, Queued, Done
    <3> QED BY <1>5, <1>6, <3>1, <3>2 DEF OnePlace
  <2> QED BY <1>1, <1>2, <2>1, <2>3, <2>6, <2>7 DEF Inv, BatchInv, CancelAfterAdd, CancelHolds,
          TimersWakeLoop, FatalOnlyLate, clockVars
<1>8. CASE ~(repeat(timer[i]) /\ i \notin CancelTimers_)
  <2>1. gone' = gone \cup {i} /\ timer' = timer /\ timers_' = timers_
    BY <1>8 DEF restart, i
  <2>2. TypeOK'
    BY <1>1, <1>2, <1>3, <2>1 DEF TypeOK, Ids, clockVars, cancelVars
  <2>3. ASSUME NEW j \in Ids PROVE OnePlace(j)'
    <3>1. OnePlace(j) /\ (Running(j)' <=> Running(j) /\ j # i)
      BY <1>1, <1>4
    <3>2. (Waiting(j)' <=> Waiting(j)) /\ (Making(j)' <=> Making(j))
          /\ (Queued(j)' <=> Queued(j)) /\ (Done(j)' <=> Done(j) \/ j = i)
      BY <1>2, <2>1 DEF Waiting, Making, Queued, Done
    <3> QED BY <1>5, <1>6, <3>1, <3>2 DEF OnePlace
  <2> QED BY <1>1, <1>2, <2>1, <2>2, <2>3 DEF Inv, BatchInv, CancelAfterAdd, CancelHolds,
          TimersWakeLoop, FatalOnlyLate, Ids, clockVars
<1> QED BY <1>7, <1>8

\* The batch is done and the timerfd is set for the first timer.
LEMMA ResetInv == ASSUME Inv, ~fatal, reset PROVE Inv'
<1>1. TypeOK /\ BatchInv /\ fatal = FALSE /\ \A j \in Ids : OnePlace(j)
  BY DEF Inv, TypeOK
<1>2. /\ pc = "reset" /\ at = Len(expired) /\ expired' = <<>> /\ at' = 0 /\ pc' = "idle"
      /\ UNCHANGED <<timer, timers_, cancelVars, nowAt, made, functors, historyVars>>
  BY DEF reset
<1>3. /\ time' \in 0..MaxTime /\ timerfd' \in Nat /\ fatal' \in BOOLEAN
      /\ settime' \in Nat \X (0..MaxTime) \X (0..MaxTime)
      /\ fatal' => \E i \in ToSet(timers_) :
                     /\ timer[i].expiration = settime'[1]
                     /\ \E k \in {2, 3} : timer[i].expiration < Now(settime'[k])
      /\ ~fatal' /\ timers_ # <<>> => timerfd' > 0 \/ SetForNow'
  <2>1. CASE timers_ # <<>>
    <3> DEFINE i == Head(timers_)
    <3>1. ResetTimerfd(timer[i].expiration)
      BY <2>1 DEF reset
    <3>2. i \in Ids /\ i \in ToSet(timers_)
      BY <1>1, <2>1 DEF TypeOK, ToSet
    <3>3. timer[i].expiration \in Nat
      <4>1. timer \in Seq(Timers)
        BY <1>1 DEF TypeOK, Timers
      <4>2. timer[i] \in Timers
        BY <3>2, <4>1 DEF Ids
      <4> QED BY <4>2 DEF Timers
    <3>4. time \in 0..MaxTime /\ timerfd \in Nat
      BY <1>1 DEF TypeOK
    <3> HIDE DEF i
    <3>5. /\ time' \in 0..MaxTime /\ timerfd' \in Nat /\ fatal' \in BOOLEAN
          /\ settime' \in Nat \X (0..MaxTime) \X (0..MaxTime)
          /\ fatal' => /\ settime'[1] = timer[i].expiration
                       /\ \E k \in {2, 3} : timer[i].expiration < Now(settime'[k])
          /\ ~fatal' => timerfd' > 0 \/ SetForNow'
      BY <1>1, <3>1, <3>3, <3>4, ResetTimerfdFacts
    <3> QED BY <3>2, <3>5
  <2>2. CASE timers_ = <<>>
    BY <1>1, <2>2 DEF reset, clockVars, TypeOK
  <2> QED BY <2>1, <2>2
<1>4. TypeOK'
  <2>1. expired' \in Seq(Ids') /\ at' \in 0..Len(expired')
    BY <1>2
  <2>2. Ids' = Ids
    BY <1>2 DEF Ids
  <2> QED BY <1>1, <1>2, <1>3, <2>1, <2>2 DEF TypeOK, cancelVars, historyVars
<1>5. \A j : ~Running(j) /\ ~Running(j)'
  <2>1. expired \in Seq(Ids) /\ Len(expired) \in 0..Len(expired)
    BY <1>1 DEF TypeOK
  <2>2. InBatch = {expired[k] : k \in Len(expired) + 1..Len(expired)}
    BY <1>2, <2>1, RestFacts DEF InBatch
  <2>3. InBatch = {}
    BY <2>1, <2>2
  <2>4. InBatch' = {}
    BY <1>2 DEF InBatch, ToSet
  <2> QED BY <2>3, <2>4 DEF Running
<1>6. ASSUME NEW j \in Ids PROVE OnePlace(j)'
  <2>1. OnePlace(j)
    BY <1>1
  <2>2. (Waiting(j)' <=> Waiting(j)) /\ (Making(j)' <=> Making(j))
        /\ (Queued(j)' <=> Queued(j)) /\ (Done(j)' <=> Done(j))
    BY <1>2 DEF Waiting, Making, Queued, Done, historyVars
  <2> QED BY <1>5, <2>1, <2>2 DEF OnePlace
<1>7. BatchInv' /\ TimersWakeLoop' /\ FatalOnlyLate'
  BY <1>2, <1>3 DEF BatchInv, TimersWakeLoop, FatalOnlyLate, IsInjective
<1> QED BY <1>2, <1>4, <1>6, <1>7 DEF Inv, CancelAfterAdd, CancelHolds, Ids, historyVars

\* The invariant holds at first.
LEMMA InitInv == Init => Inv
<1> SUFFICES ASSUME Init PROVE Inv
  OBVIOUS
<1>1. Ids = {}
  BY DEF Init, Ids
<1>2. TypeOK
  <2>1. /\ time \in 0..MaxTime /\ nowAt \in 0..MaxTime
        /\ settime \in Nat \X (0..MaxTime) \X (0..MaxTime) /\ Len(timer) <= MaxTimers
        /\ at \in 0..Len(expired)
    BY TimerAssumption DEF Init
  <2>2. /\ timer \in Seq([expiration : Nat, interval : Nat])
        /\ timers_ \in Seq(Ids) /\ expired \in Seq(Ids)
        /\ functors \in Seq({"add", "cancel"} \X Ids) /\ IsInjective(timers_)
    BY DEF Init, IsInjective
  <2> QED BY <2>1, <2>2 DEF Init, TypeOK
<1> QED BY <1>1, <1>2 DEF Init, Inv, BatchInv, CancelAfterAdd, CancelHolds, TimersWakeLoop,
        FatalOnlyLate, IsInjective

\* Every step keeps the invariant.
LEMMA NextInv == Inv /\ [Next]_vars => Inv'
<1> SUFFICES ASSUME Inv, [Next]_vars PROVE Inv'
  OBVIOUS
<1>1. CASE Next
  BY <1>1, TickInv, MakeTimerInv, AddTimerInv, CancelInv, RunFunctorInv, UserAddsInv, UserCancelsInv,
     LoopGoesOn, HandleReadInv, RestartInv, ResetInv DEF Next
<1>2. CASE UNCHANGED vars
  BY <1>2 DEF Inv, vars, clockVars, cancelVars, batchVars, historyVars, TypeOK, BatchInv, CancelAfterAdd,
     OnePlace, Making, Queued, Waiting, Running, Done, InBatch, Ids, CancelHolds, TimersWakeLoop,
     SetForNow, FatalOnlyLate
<1> QED BY <1>1, <1>2

\* The invariant holds in every state.
LEMMA SpecInv == Spec => []Inv
BY InitInv, NextInv, PTL DEF Spec

-----------------------------------------------------------------------------
(* Theorems.                                                               *)

\* The types of the state; no timer is twice in the set.
THEOREM TypeCorrect == Spec => []TypeOK
<1>1. Inv => TypeOK
  BY DEF Inv
<1> QED BY <1>1, SpecInv, PTL

\* Every timer is in one place: whatever order the set has them in, none is
\* refused by insert, lost between set and batch, kept twice, or back after
\* its end.
THEOREM AllAccountedFor == Spec => []TimersAccountedFor
<1>1. ASSUME Inv, NEW i \in Ids
      PROVE  LET place == << made, {j \in Ids : <<"add", j>> \in ToSet(functors)},
                             ToSet(timers_), InBatch, gone >>
             IN  Cardinality({k \in DOMAIN place : i \in place[k]}) = 1
  <2> DEFINE place == << made, {j \in Ids : <<"add", j>> \in ToSet(functors)},
                         ToSet(timers_), InBatch, gone >>
             holders == {k \in DOMAIN place : i \in place[k]}
  <2>1. OnePlace(i)
    BY <1>1 DEF Inv
  <2>2. /\ 1 \in holders <=> Making(i)
        /\ 2 \in holders <=> Queued(i)
        /\ 3 \in holders <=> Waiting(i)
        /\ 4 \in holders <=> Running(i)
        /\ 5 \in holders <=> Done(i)
        /\ holders \subseteq 1..5
    BY DEF Making, Queued, Waiting, Running, Done
  <2> HIDE DEF holders
  <2>3. \E k \in 1..5 : holders = {k}
    <3>1. ASSUME NEW k \in 1..5, k \in holders, \A j \in 1..5 : j \in holders => j = k
          PROVE  holders = {k}
      BY <2>2, <3>1
    <3>2. \E k \in 1..5 : k \in holders /\ \A j \in 1..5 : j \in holders => j = k
      <4>1. ASSUME NEW j \in 1..5 PROVE j = 1 \/ j = 2 \/ j = 3 \/ j = 4 \/ j = 5
        OBVIOUS
      <4>2. CASE Making(i)
        BY <2>1, <2>2, <4>1, <4>2 DEF OnePlace
      <4>3. CASE Queued(i)
        BY <2>1, <2>2, <4>1, <4>3 DEF OnePlace
      <4>4. CASE Waiting(i)
        BY <2>1, <2>2, <4>1, <4>4 DEF OnePlace
      <4>5. CASE Running(i)
        BY <2>1, <2>2, <4>1, <4>5 DEF OnePlace
      <4>6. CASE Done(i)
        BY <2>1, <2>2, <4>1, <4>6 DEF OnePlace
      <4> QED BY <2>1, <4>2, <4>3, <4>4, <4>5, <4>6 DEF OnePlace
    <3> QED BY <3>1, <3>2
  <2>4. Cardinality(holders) = 1
    BY <2>3, FS_Singleton
  <2> QED BY <2>4 DEF holders
<1>2. Inv => TimersAccountedFor
  BY <1>1 DEF TimersAccountedFor, Inv
<1> QED BY <1>2, SpecInv, PTL

\* A timer that a queued cancel has cancelled never runs again: it is gone,
\* whatever other threads and callbacks have done before.
THEOREM CancelAlwaysHolds == Spec => []CancelHolds
<1>1. Inv => CancelHolds
  BY DEF Inv
<1> QED BY <1>1, SpecInv, PTL

\* No timer is left in the set of a polling loop without a wakeup: the timerfd
\* is armed, unless it was last set for a moment that had just come.
THEOREM TimersAlwaysWakeLoop == Spec => []TimersWakeLoop
<1>1. Inv => TimersWakeLoop
  BY DEF Inv
<1> QED BY <1>1, SpecInv, PTL

\* LOG_FATAL of ResetTimerfd ends the process only for a timer that was overdue.
THEOREM FatalOnlyForLate == Spec => []FatalOnlyLate
<1>1. Inv => FatalOnlyLate
  BY DEF Inv
<1> QED BY <1>1, SpecInv, PTL

=============================================================================
