-------------------------- MODULE AsyncLoggerProofs --------------------------
(***************************************************************************)
(* What holds of the AsyncLogger and its LogFile whatever the messages,    *)
(* their lengths, the size of a buffer, the limit of a batch, the sizes    *)
(* and intervals of the LogFile and the time.                              *)
(*                                                                         *)
(* Inv: the backend never takes a buffer that is not there.  NextBuffer_   *)
(* is null only when append has moved a full buffer to buffers_ since the  *)
(* last swap: that buffer and the current one make the batch long enough   *)
(* for buffer1 and buffer2 to come back from it.                           *)
(*                                                                         *)
(* FileInv: a file is changed in time.  The open file, with what the       *)
(* stream holds back, leaves room for one more buffer, and no more buffers *)
(* of a new day are in it than have been counted since the last look at    *)
(* the clock.                                                              *)
(*                                                                         *)
(* LogInv: nothing is lost.  Each step leaves the log - what the files     *)
(* say, the rest of the batch, the buffers - as it is, but for append,     *)
(* which adds a message at its end, and the cutting of a batch, which      *)
(* takes messages out of its middle.                                       *)
(*                                                                         *)
(* Last come the lines that are logged, which LogStream formats.           *)
(***************************************************************************)
EXTENDS AsyncLogger, LogStream, SequenceTheorems, WellFoundedInduction, TLAPS

BufferTypes ==
  /\ lpc \in {"none", "launched", "while", "lock", "wait", "write", "append"}
  /\ CurrentBuffer_ \in BufferPtrs /\ NextBuffer_ \in BufferPtrs
  /\ buffer1 \in BufferPtrs /\ buffer2 \in BufferPtrs
  /\ buffers_ \in Seq(FixedBuffers) /\ BuffersWrite \in Seq(FixedBuffers)

\* A null NextBuffer_ has left a buffer in buffers_.
SpareAccounted == NextBuffer_ = <<>> => buffers_ # <<>>

\* Outside the writing of a batch the backend has both of its buffers.
BackendEquipped ==
  lpc \in {"while", "lock", "wait"} => buffer1 # <<>> /\ buffer2 # <<>>

BatchLongEnough ==
  lpc \in {"write", "append"} =>
    /\ Len(BuffersWrite) >= 1
    /\ buffer2 = <<>> => Len(BuffersWrite) >= 2

Inv ==
  /\ BufferTypes
  /\ CurrentBuffer_ # <<>>
  /\ SpareAccounted /\ BackendEquipped /\ BatchLongEnough

-----------------------------------------------------------------------------
(* BufferPtrs and the operations on a buffer.                              *)

\* A pointer that is not null points to a buffer.
LEMMA PtrFacts ==
  /\ <<>> \in BufferPtrs
  /\ \A b \in FixedBuffers : <<b>> \in BufferPtrs /\ <<b>> # <<>>
  /\ \A ptr \in BufferPtrs :
       /\ ptr \in Seq(FixedBuffers)
       /\ ptr # <<>> => Head(ptr) \in FixedBuffers /\ Len(ptr) = 1
<1>1. <<>> \in BufferPtrs
  BY DEF BufferPtrs
<1>2. ASSUME NEW b \in FixedBuffers PROVE <<b>> \in BufferPtrs /\ <<b>> # <<>>
  <2>1. <<b>> \in Seq(FixedBuffers) /\ Len(<<b>>) = 1
    OBVIOUS
  <2> QED BY <2>1 DEF BufferPtrs
<1>3. ASSUME NEW ptr \in BufferPtrs
      PROVE  /\ ptr \in Seq(FixedBuffers)
             /\ ptr # <<>> => Head(ptr) \in FixedBuffers /\ Len(ptr) = 1
  <2>1. ptr \in Seq(FixedBuffers) /\ Len(ptr) <= 1
    BY DEF BufferPtrs
  <2>2. ASSUME ptr # <<>> PROVE Head(ptr) \in FixedBuffers /\ Len(ptr) >= 1
    BY <2>1, <2>2
  <2>3. Len(ptr) \in Nat
    BY <2>1
  <2>4. ASSUME ptr # <<>> PROVE Len(ptr) = 1
    <3>1. \A n \in Nat : n <= 1 /\ n >= 1 => n = 1
      OBVIOUS
    <3> QED BY <2>1, <2>2, <2>3, <2>4, <3>1, Zenon
  <2> QED BY <2>1, <2>2, <2>4
<1> QED BY <1>1, <1>2, <1>3

\* A new or recycled buffer is a buffer.
LEMMA EmptyFacts == EmptyBuffer \in FixedBuffers
BY LoggerAssumption DEF EmptyBuffer, FixedBuffers

\* FixedBuffer::append keeps cur_ within the buffer.
LEMMA PutFacts ==
  ASSUME NEW b \in FixedBuffers, NEW m \in Messages
  PROVE  Put(b, m) \in FixedBuffers
<1>1. CASE FreeSize(b) > Length(m)
  <2>0. Length(m) \in Nat
    BY LoggerAssumption DEF Messages, Length
  <2>1. b.cur \in Nat /\ b.data \in Seq(Messages)
    BY LoggerAssumption DEF FixedBuffers
  <2>2. b.cur + Length(m) \in 0..kLargeBuffer
    BY <1>1, <2>0, <2>1, LoggerAssumption DEF FreeSize
  <2>3. Append(b.data, m) \in Seq(Messages)
    BY <2>1
  <2> QED BY <1>1, <2>2, <2>3 DEF Put, FixedBuffers
<1>2. CASE ~(FreeSize(b) > Length(m))
  BY <1>2 DEF Put
<1> QED BY <1>1, <1>2

\* Cutting a batch leaves it long enough.
LEMMA KeptFacts ==
  ASSUME NEW batch \in Seq(FixedBuffers)
  PROVE  /\ Kept(batch) \in Seq(FixedBuffers)
         /\ Len(batch) >= 1 => Len(Kept(batch)) >= 1
         /\ Len(batch) >= 2 => Len(Kept(batch)) >= 2
BY LoggerAssumption DEF Kept

-----------------------------------------------------------------------------

\* The constructor establishes the invariant.
LEMMA InitInv == Init => Inv
BY PtrFacts, EmptyFacts
   DEF Init, Inv, BufferTypes, SpareAccounted, BackendEquipped, BatchLongEnough

\* What append does to the shared buffers.
LEMMA AppendInv ==
  ASSUME Inv, NEW m \in Messages, append(m)
  PROVE  Inv'
<1> USE DEF Inv, BufferTypes
<1>1. Head(CurrentBuffer_) \in FixedBuffers /\ CurrentBuffer_ \in Seq(FixedBuffers)
      /\ Len(CurrentBuffer_) = 1
  BY PtrFacts
<1>2. UNCHANGED <<lpc, localVars>>
  BY DEF append
<1>3. CASE FreeSize(Head(CurrentBuffer_)) > Length(m)
  <2>1. /\ CurrentBuffer_' = <<Put(Head(CurrentBuffer_), m)>>
        /\ UNCHANGED <<NextBuffer_, buffers_>>
    BY <1>3 DEF append
  <2>2. CurrentBuffer_' \in BufferPtrs /\ CurrentBuffer_' # <<>>
    BY <2>1, <1>1, PutFacts, PtrFacts
  <2> QED BY <1>2, <2>1, <2>2
          DEF localVars, SpareAccounted, BackendEquipped, BatchLongEnough
<1>4. CASE ~(FreeSize(Head(CurrentBuffer_)) > Length(m))
  <2> DEFINE b == IF NextBuffer_ = <<>> THEN EmptyBuffer ELSE Head(NextBuffer_)
  <2>1. /\ buffers_' = buffers_ \o CurrentBuffer_
        /\ CurrentBuffer_' = <<Put(b, m)>>
        /\ NextBuffer_' = <<>>
    BY <1>4 DEF append
  <2>2. b \in FixedBuffers
    BY PtrFacts, EmptyFacts
  <2>3. CurrentBuffer_' \in BufferPtrs /\ CurrentBuffer_' # <<>>
    BY <2>1, <2>2, PutFacts, PtrFacts
  <2>4. buffers_' \in Seq(FixedBuffers) /\ buffers_' # <<>>
    BY <2>1, <1>1
  <2> QED BY <1>2, <2>1, <2>3, <2>4, PtrFacts
          DEF localVars, SpareAccounted, BackendEquipped, BatchLongEnough
<1> QED BY <1>3, <1>4

\* What a swap leaves, when the backend is equipped.
LEMMA SwapInv ==
  ASSUME Inv, lpc \in {"lock", "wait"}, Swap
  PROVE  Inv'
<1> USE DEF Inv, BufferTypes
<1>1. buffer1 # <<>> /\ buffer2 # <<>>
  BY DEF BackendEquipped
<1>2. CurrentBuffer_ \in Seq(FixedBuffers) /\ Len(CurrentBuffer_) = 1
  BY PtrFacts
<1>3. /\ BuffersWrite' = buffers_ \o CurrentBuffer_
      /\ buffers_' = <<>>
      /\ CurrentBuffer_' = buffer1
      /\ buffer1' = <<>>
      /\ lpc' = "write"
  BY DEF Swap
<1>4. BuffersWrite' \in Seq(FixedBuffers) /\ Len(BuffersWrite') = Len(buffers_) + 1
  <2>1. buffers_ \in Seq(FixedBuffers)
    OBVIOUS
  <2>2. /\ buffers_ \o CurrentBuffer_ \in Seq(FixedBuffers)
        /\ Len(buffers_ \o CurrentBuffer_) = Len(buffers_) + Len(CurrentBuffer_)
    BY <2>1, <1>2, ConcatProperties
  <2> QED BY <2>2, <1>2, <1>3
<1>5. NextBuffer_' # <<>> /\ NextBuffer_' \in BufferPtrs /\ buffer2' \in BufferPtrs
  BY <1>1, PtrFacts DEF Swap
<1>6. buffer2' = <<>> => Len(buffers_) >= 1
  BY <1>1 DEF Swap, SpareAccounted
<1>7. Len(buffers_) \in Nat
  OBVIOUS
<1>8. Len(BuffersWrite') >= 1 /\ (buffer2' = <<>> => Len(BuffersWrite') >= 2)
  BY <1>4, <1>6, <1>7
<1> QED BY <1>1, <1>3, <1>4, <1>5, <1>8, PtrFacts
        DEF SpareAccounted, BackendEquipped, BatchLongEnough

\* A batch that is cut stays long enough.
LEMMA CutInv ==
  ASSUME Inv, CutBatch
  PROVE  Inv'
<1> USE DEF Inv, BufferTypes
<1>1. /\ UNCHANGED <<sharedVars, buffer1, buffer2>>
      /\ BuffersWrite' = Kept(BuffersWrite) /\ lpc = "write" /\ lpc' = "append"
  BY DEF CutBatch
<1>2. BuffersWrite' \in Seq(FixedBuffers)
  BY <1>1, KeptFacts
<1>3. Len(BuffersWrite') >= 1 /\ (buffer2' = <<>> => Len(BuffersWrite') >= 2)
  BY <1>1, KeptFacts DEF BatchLongEnough
<1> QED BY <1>1, <1>2, <1>3
        DEF sharedVars, SpareAccounted, BackendEquipped, BatchLongEnough

\* Recycling gives both buffers back.
LEMMA RecycleInv ==
  ASSUME Inv, Recycle
  PROVE  Inv'
<1> USE DEF Inv, BufferTypes
<1>1. UNCHANGED sharedVars /\ BuffersWrite' = <<>> /\ lpc' = "while"
  BY DEF Recycle
<1>2. buffer1' \in BufferPtrs /\ buffer1' # <<>>
  BY PtrFacts, EmptyFacts DEF Recycle, reset
<1>3. buffer2' \in BufferPtrs /\ buffer2' # <<>>
  BY PtrFacts, EmptyFacts DEF Recycle, reset
<1> QED BY <1>1, <1>2, <1>3
        DEF sharedVars, SpareAccounted, BackendEquipped, BatchLongEnough

\* The inductive step.
LEMMA NextInv == Inv /\ [Next]_vars => Inv'
<1> SUFFICES ASSUME Inv, [Next]_vars PROVE Inv'
  OBVIOUS
<1> USE DEF Inv, BufferTypes, SpareAccounted, BackendEquipped, BatchLongEnough
<1>1. ASSUME NEW m \in Messages, append(m) PROVE Inv'
  BY <1>1, AppendInv
<1>2. CASE start
  BY <1>2 DEF start, sharedVars, localVars
<1>3. CASE Started \/ stop \/ Join
  BY <1>3 DEF Started, stop, Join, sharedVars, localVars
<1>4. CASE StartLog
  <2>1. /\ buffer1' = <<EmptyBuffer>> /\ buffer2' = <<EmptyBuffer>>
        /\ BuffersWrite' = <<>> /\ lpc' = "while" /\ UNCHANGED sharedVars
    BY <1>4 DEF StartLog
  <2>2. <<EmptyBuffer>> \in BufferPtrs /\ <<EmptyBuffer>> # <<>>
    BY PtrFacts, EmptyFacts
  <2> QED BY <2>1, <2>2 DEF sharedVars
<1>5. CASE While
  BY <1>5, PtrFacts DEF While, sharedVars, localVars
<1>6. CASE Lock
  <2>1. CASE buffers_ = <<>>
    BY <1>6, <2>1 DEF Lock, sharedVars, localVars
  <2>2. CASE buffers_ # <<>>
    BY <1>6, <2>2, SwapInv DEF Lock
  <2> QED BY <2>1, <2>2
<1>7. CASE Wake
  BY <1>7, SwapInv DEF Wake
<1>8. CASE CutBatch \/ Recycle
  BY <1>8, CutInv, RecycleInv
<1>10. CASE WriteBuffer \/ Clock
  BY <1>10 DEF WriteBuffer, Clock, sharedVars, localVars
<1>9. CASE UNCHANGED vars
  BY <1>9 DEF vars, sharedVars, localVars
<1> QED BY <1>1, <1>2, <1>3, <1>4, <1>5, <1>6, <1>7, <1>8, <1>9, <1>10 DEF Next, Backend

\* Each step of a thread keeps the invariant, so every reachable state has it.
LEMMA Invariance == SafeSpec => []Inv
<1> QED BY InitInv, NextInv, PTL DEF SafeSpec

\* Swapping and recycling never run out of buffers: append finds a current
\* buffer, and StartLog never pops an empty BuffersWrite.
THEOREM BuffersAlwaysSuffice == SafeSpec => []BuffersSuffice
<1>1. Inv => BuffersSuffice
  BY DEF Inv, BufferTypes, BatchLongEnough, BuffersSuffice
<1> QED BY <1>1, Invariance, PTL

-----------------------------------------------------------------------------
(* Sums and concatenations, which LogFile and AsyncLogger define by        *)
(* recursion.                                                              *)

\* A set of natural numbers has a least element.
LEMMA LeastNat ==
  ASSUME NEW T \in SUBSET Nat, T # {}
  PROVE  \E m \in T : \A k \in T : m <= k
<1> DEFINE less == {ss \in Nat \X Nat : ss[1] < ss[2]}
<1>1. IsWellFoundedOn(less, Nat)
  BY NatLessThanWellFounded DEF OpToRel
<1>2. \E x \in T : \A y \in T : <<y, x>> \notin less
  <2> HIDE DEF less
  <2> QED BY <1>1, WFMin
<1>3. PICK x \in T : \A y \in T : <<y, x>> \notin less
  BY <1>2
<1>4. \A y \in T : ~(y < x)
  BY <1>3
<1> QED BY <1>4

\* g adds up the bytes of the first pieces of s.
AddsUp(g, s) ==
  /\ g \in [0..Len(s) -> Nat] /\ g[0] = 0
  /\ \A n \in 1..Len(s) : g[n] = g[n - 1] + s[n].bytes

\* What Written puts in a file.
LogPiece == [msg : Messages \cup {Notice}, bytes : Nat]

\* There is such a g.
LEMMA AddsUpExists == ASSUME NEW s \in Seq(LogPiece) PROVE \E g : AddsUp(g, s)
<1> DEFINE Good(n) == \E g \in [0..n -> Nat] :
                        g[0] = 0 /\ \A k \in 1..n : g[k] = g[k - 1] + s[k].bytes
           T == {n \in 0..Len(s) : ~Good(n)}
<1>0. Len(s) \in Nat /\ \A k \in 1..Len(s) : s[k].bytes \in Nat
  <2>1. Len(s) \in Nat /\ \A k \in 1..Len(s) : s[k] \in LogPiece
    OBVIOUS
  <2> QED BY <2>1 DEF LogPiece
<1>1. Good(0)
  <2> DEFINE z == [n \in 0..0 |-> 0]
  <2>1. z \in [0..0 -> Nat] /\ z[0] = 0 /\ \A k \in 1..0 : z[k] = z[k - 1] + s[k].bytes
    OBVIOUS
  <2> HIDE DEF z
  <2> QED BY <2>1
<1>2. ASSUME NEW n \in 1..Len(s), Good(n - 1) PROVE Good(n)
  <2>1. PICK g \in [0..n - 1 -> Nat] :
          g[0] = 0 /\ \A k \in 1..n - 1 : g[k] = g[k - 1] + s[k].bytes
    BY <1>2
  <2> DEFINE h == [k \in 0..n |-> IF k = n THEN g[n - 1] + s[n].bytes ELSE g[k]]
  <2>2. g[n - 1] \in Nat /\ s[n].bytes \in Nat /\ n \in Nat
    BY <1>0, <2>1
  <2>3. h \in [0..n -> Nat]
    <3>1. ASSUME NEW k \in 0..n, k # n PROVE g[k] \in Nat
      <4>1. k \in 0..n - 1
        BY <2>2, <3>1
      <4> QED BY <2>1, <4>1
    <3> QED BY <2>2, <3>1
  <2>4. h[0] = 0
    BY <1>2, <2>1
  <2>5. ASSUME NEW k \in 1..n PROVE h[k] = h[k - 1] + s[k].bytes
    <3>1. CASE k = n
      BY <2>2, <3>1
    <3>2. CASE k # n
      <4>1. k \in 1..n - 1 /\ k \in 0..n /\ k - 1 \in 0..n /\ k - 1 # n
        BY <2>2, <3>2
      <4>2. h[k] = g[k] /\ h[k - 1] = g[k - 1]
        BY <3>2, <4>1
      <4> QED BY <2>1, <4>1, <4>2
    <3> QED BY <3>1, <3>2
  <2> QED BY <2>3, <2>4, <2>5
<1> HIDE DEF Good
<1>3. T = {}
  <2> SUFFICES ASSUME T # {} PROVE FALSE
    OBVIOUS
  <2>1. T \in SUBSET Nat
    OBVIOUS
  <2>2. PICK m \in T : \A k \in T : m <= k
    <3> HIDE DEF T
    <3> QED BY <2>1, LeastNat
  <2>3. m \in 1..Len(s) /\ m - 1 \in 0..Len(s)
    BY <1>0, <1>1, <2>2
  <2>4. Good(m - 1)
    BY <1>0, <2>2, <2>3
  <2> QED BY <1>2, <2>2, <2>3, <2>4
<1>4. Good(Len(s))
  BY <1>0, <1>3
<1> QED BY <1>4 DEF AddsUp, Good

\* And only one: it is what Bytes computes.
LEMMA BytesIs == ASSUME NEW s \in Seq(LogPiece), NEW g, AddsUp(g, s) PROVE Bytes(s) = g[Len(s)]
<1> DEFINE Is(f) == f = [n \in 0..Len(s) |-> IF n = 0 THEN 0 ELSE f[n - 1] + s[n].bytes]
           f == CHOOSE f : Is(f)
           T == {n \in 0..Len(s) : f[n] # g[n]}
<1>0. Len(s) \in Nat
  OBVIOUS
<1>1. Is(g)
  <2>1. \A n \in 0..Len(s) : g[n] = IF n = 0 THEN 0 ELSE g[n - 1] + s[n].bytes
    BY <1>0 DEF AddsUp
  <2>2. g = [n \in 0..Len(s) |-> g[n]]
    BY DEF AddsUp
  <2> QED BY <2>1, <2>2
<1>2. Is(f)
  <2> HIDE DEF Is
  <2> QED BY <1>1
<1>3. Bytes(s) = f[Len(s)]
  BY DEF Bytes
<1> HIDE DEF f
<1>4. \A n \in 0..Len(s) : f[n] = IF n = 0 THEN 0 ELSE f[n - 1] + s[n].bytes
  BY <1>2
<1>5. T = {}
  <2> SUFFICES ASSUME T # {} PROVE FALSE
    OBVIOUS
  <2>1. T \in SUBSET Nat
    OBVIOUS
  <2>2. PICK m \in T : \A k \in T : m <= k
    <3> HIDE DEF T
    <3> QED BY <2>1, LeastNat
  <2>3. m # 0
    BY <1>4, <2>2 DEF AddsUp
  <2>4. m \in 1..Len(s) /\ m - 1 \in 0..Len(s) /\ m \in Nat
    BY <1>0, <2>2, <2>3
  <2>5. f[m - 1] = g[m - 1]
    BY <2>2, <2>4
  <2>6. f[m] = f[m - 1] + s[m].bytes /\ g[m] = g[m - 1] + s[m].bytes
    BY <1>4, <2>3, <2>4 DEF AddsUp
  <2> QED BY <2>2, <2>5, <2>6
<1> QED BY <1>0, <1>3, <1>5

\* Bytes adds up.
LEMMA BytesFacts ==
  /\ Bytes(<<>>) = 0
  /\ \A s \in Seq(LogPiece) : Bytes(s) \in Nat
  /\ \A e \in LogPiece : Bytes(<<e>>) = e.bytes
  /\ \A s, t \in Seq(LogPiece) : Bytes(s \o t) = Bytes(s) + Bytes(t)
<1>1. Bytes(<<>>) = 0
  <2>1. <<>> \in Seq(LogPiece) /\ Len(<<>>) = 0
    OBVIOUS
  <2>2. PICK g : AddsUp(g, <<>>)
    BY <2>1, AddsUpExists
  <2>3. Bytes(<<>>) = g[0]
    BY <2>1, <2>2, BytesIs
  <2> QED BY <2>2, <2>3 DEF AddsUp
<1>2. ASSUME NEW s \in Seq(LogPiece) PROVE Bytes(s) \in Nat
  <2>1. PICK g : AddsUp(g, s)
    BY AddsUpExists
  <2>2. Bytes(s) = g[Len(s)] /\ Len(s) \in 0..Len(s)
    BY <2>1, BytesIs
  <2> QED BY <2>1, <2>2 DEF AddsUp
<1>3. ASSUME NEW e \in LogPiece PROVE Bytes(<<e>>) = e.bytes
  <2> DEFINE s == <<e>>
  <2>1. s \in Seq(LogPiece) /\ Len(s) = 1 /\ s[1] = e /\ e.bytes \in Nat
    BY DEF LogPiece
  <2> HIDE DEF s
  <2>2. PICK g : AddsUp(g, s)
    BY <2>1, AddsUpExists
  <2>3. Bytes(s) = g[1]
    BY <2>1, <2>2, BytesIs
  <2>4. g[0] = 0 /\ g[1] = g[1 - 1] + s[1].bytes
    BY <2>1, <2>2 DEF AddsUp
  <2>5. g[1] = 0 + e.bytes
    BY <2>1, <2>4
  <2> QED BY <2>1, <2>3, <2>5 DEF s
<1>4. ASSUME NEW s \in Seq(LogPiece), NEW t \in Seq(LogPiece)
      PROVE  Bytes(s \o t) = Bytes(s) + Bytes(t)
  <2> DEFINE u == s \o t
  <2>1. /\ u \in Seq(LogPiece) /\ Len(u) = Len(s) + Len(t)
        /\ \A k \in 1..Len(s) + Len(t) : u[k] = IF k <= Len(s) THEN s[k] ELSE t[k - Len(s)]
    BY ConcatProperties
  <2>2. PICK g : AddsUp(g, s)
    BY AddsUpExists
  <2>3. PICK h : AddsUp(h, t)
    BY AddsUpExists
  <2>4. Len(s) \in Nat /\ Len(t) \in Nat
    OBVIOUS
  <2> HIDE DEF u
  <2> DEFINE m == Len(s)
             j == [k \in 0..Len(u) |-> IF k <= m THEN g[k] ELSE g[m] + h[k - m]]
  <2>5. g[m] \in Nat /\ \A k \in 0..m : g[k] \in Nat
    BY <2>2, <2>4 DEF AddsUp
  <2>6. \A k \in 0..Len(t) : h[k] \in Nat
    BY <2>3, <2>4 DEF AddsUp
  <2> HIDE DEF m
  <2>7. m \in Nat /\ Len(u) = m + Len(t)
    BY <2>1, <2>4 DEF m
  <2>8. ASSUME NEW k \in 0..Len(u) PROVE j[k] \in Nat /\ (k <= m => j[k] = g[k])
                                         /\ (k >= m => j[k] = g[m] + h[k - m])
    <3>1. CASE k < m
      BY <2>5, <2>7, <3>1
    <3>2. CASE k = m
      <4>1. h[0] = 0 /\ k - m = 0
        BY <2>3, <2>7, <3>2 DEF AddsUp
      <4> QED BY <2>5, <2>7, <3>2, <4>1
    <3>3. CASE k > m
      <4>1. k - m \in 0..Len(t)
        BY <2>4, <2>7, <3>3
      <4> QED BY <2>5, <2>6, <2>7, <3>3, <4>1
    <3> QED BY <2>7, <3>1, <3>2, <3>3
  <2>9. ASSUME NEW k \in 1..Len(u) PROVE j[k] = j[k - 1] + u[k].bytes
    <3>0. k \in 0..Len(u) /\ k - 1 \in 0..Len(u) /\ k \in Nat
      BY <2>4, <2>7
    <3>1. CASE k <= m
      <4>1. j[k] = g[k] /\ j[k - 1] = g[k - 1]
        BY <2>7, <2>8, <3>0, <3>1
      <4>2. k \in 1..Len(s) /\ u[k] = s[k]
        BY <2>1, <2>7, <3>0, <3>1 DEF m
      <4>3. g[k] = g[k - 1] + s[k].bytes
        BY <2>2, <4>2 DEF AddsUp
      <4> QED BY <4>1, <4>2, <4>3
    <3>2. CASE k > m
      <4>1. j[k] = g[m] + h[k - m] /\ j[k - 1] = g[m] + h[k - 1 - m]
        BY <2>7, <2>8, <3>0, <3>2
      <4>2. k - m \in 1..Len(t) /\ u[k] = t[k - m] /\ (k - m) - 1 = k - 1 - m
        <5>1. k - m \in 1..Len(t) /\ (k - m) - 1 = k - 1 - m
          BY <2>4, <2>7, <3>0, <3>2
        <5>2. k \in 1..Len(s) + Len(t) /\ ~(k <= Len(s))
          BY <2>1, <2>7, <3>0, <3>2 DEF m
        <5> QED BY <2>1, <5>1, <5>2 DEF m
      <4>3. h[k - m] = h[(k - m) - 1] + t[k - m].bytes
        BY <2>3, <4>2 DEF AddsUp
      <4>4. t[k - m].bytes \in Nat /\ h[k - 1 - m] \in Nat
        <5>1. t[k - m] \in LogPiece
          BY <4>2
        <5>2. k - 1 - m \in 0..Len(t)
          BY <2>4, <2>7, <3>0, <4>2
        <5> QED BY <2>6, <5>1, <5>2 DEF LogPiece
      <4>5. h[k - m] = h[k - 1 - m] + u[k].bytes /\ u[k].bytes \in Nat
        BY <4>2, <4>3, <4>4
      <4> HIDE DEF j
      <4> QED BY <2>5, <4>1, <4>4, <4>5
    <3> QED BY <2>7, <3>0, <3>1, <3>2
  <2>10. AddsUp(j, u)
    <3>1. j \in [0..Len(u) -> Nat]
      BY <2>8
    <3>2. j[0] = 0
      BY <2>2, <2>4, <2>7, <2>8 DEF AddsUp
    <3> HIDE DEF j
    <3> QED BY <2>9, <3>1, <3>2 DEF AddsUp
  <2>11. j[Len(u)] = g[m] + h[Len(t)]
    <3>1. Len(u) \in 0..Len(u) /\ Len(u) >= m /\ Len(u) - m = Len(t)
      BY <2>4, <2>7
    <3> HIDE DEF j
    <3> QED BY <2>8, <3>1
  <2>12. Bytes(u) = j[Len(u)]
    <3> HIDE DEF j
    <3> QED BY <2>1, <2>10, BytesIs
  <2>13. Bytes(s) = g[m] /\ Bytes(t) = h[Len(t)]
    BY <2>2, <2>3, BytesIs DEF m
  <2> QED BY <2>11, <2>12, <2>13 DEF u
<1> QED BY <1>1, <1>2, <1>3, <1>4


\* Concatenation, as the proofs below use it: by what the next two lemmas say.
Cat(a, b) == a \o b

\* The empty sequence changes nothing.
LEMMA CatFacts ==
  ASSUME NEW S, NEW a \in Seq(S), NEW b \in Seq(S)
  PROVE  Cat(a, b) \in Seq(S) /\ Cat(a, <<>>) = a /\ Cat(<<>>, a) = a
BY ConcatProperties, ConcatEmptySeq DEF Cat

\* Parentheses may be moved.
LEMMA CatAssociative ==
  ASSUME NEW S, NEW a \in Seq(S), NEW b \in Seq(S), NEW c \in Seq(S)
  PROVE  Cat(Cat(a, b), c) = Cat(a, Cat(b, c))
BY ConcatAssociative DEF Cat

\* g joins the first sequences of ss.
Joins(g, ss, S) ==
  /\ g \in [0..Len(ss) -> Seq(S)] /\ g[0] = <<>>
  /\ \A n \in 1..Len(ss) : g[n] = Cat(g[n - 1], ss[n])

\* There is such a g.
LEMMA JoinsExists == ASSUME NEW S, NEW ss \in Seq(Seq(S)) PROVE \E g : Joins(g, ss, S)
<1> DEFINE Good(n) == \E g \in [0..n -> Seq(S)] :
                        g[0] = <<>> /\ \A k \in 1..n : g[k] = Cat(g[k - 1], ss[k])
           T == {n \in 0..Len(ss) : ~Good(n)}
<1>0. Len(ss) \in Nat /\ \A k \in 1..Len(ss) : ss[k] \in Seq(S)
  OBVIOUS
<1>1. Good(0)
  <2> DEFINE z == [n \in 0..0 |-> <<>>]
  <2>1. z \in [0..0 -> Seq(S)] /\ z[0] = <<>> /\ \A k \in 1..0 : z[k] = Cat(z[k - 1], ss[k])
    OBVIOUS
  <2> HIDE DEF z
  <2> QED BY <2>1
<1>2. ASSUME NEW n \in 1..Len(ss), Good(n - 1) PROVE Good(n)
  <2>1. PICK g \in [0..n - 1 -> Seq(S)] :
          g[0] = <<>> /\ \A k \in 1..n - 1 : g[k] = Cat(g[k - 1], ss[k])
    BY <1>2
  <2> DEFINE h == [k \in 0..n |-> IF k = n THEN Cat(g[n - 1], ss[n]) ELSE g[k]]
  <2>2. g[n - 1] \in Seq(S) /\ ss[n] \in Seq(S) /\ n \in Nat
    BY <1>0, <2>1
  <2>3. h \in [0..n -> Seq(S)]
    <3>1. ASSUME NEW k \in 0..n, k # n PROVE g[k] \in Seq(S)
      <4>1. k \in 0..n - 1
        BY <2>2, <3>1
      <4> QED BY <2>1, <4>1
    <3>2. Cat(g[n - 1], ss[n]) \in Seq(S)
      BY <2>2, CatFacts
    <3> QED BY <3>1, <3>2
  <2>4. h[0] = <<>>
    BY <1>2, <2>1
  <2>5. ASSUME NEW k \in 1..n PROVE h[k] = Cat(h[k - 1], ss[k])
    <3>1. CASE k = n
      <4>1. n \in 0..n /\ n - 1 \in 0..n /\ n - 1 # n
        BY <2>2
      <4> QED BY <3>1, <4>1
    <3>2. CASE k # n
      <4>1. k \in 1..n - 1 /\ k \in 0..n /\ k - 1 \in 0..n /\ k - 1 # n
        BY <2>2, <3>2
      <4>2. h[k] = g[k] /\ h[k - 1] = g[k - 1]
        BY <3>2, <4>1
      <4> QED BY <2>1, <4>1, <4>2
    <3> QED BY <3>1, <3>2
  <2> HIDE DEF h
  <2> QED BY <2>3, <2>4, <2>5
<1> HIDE DEF Good
<1>3. T = {}
  <2> SUFFICES ASSUME T # {} PROVE FALSE
    OBVIOUS
  <2>1. T \in SUBSET Nat
    OBVIOUS
  <2>2. PICK m \in T : \A k \in T : m <= k
    <3> HIDE DEF T
    <3> QED BY <2>1, LeastNat
  <2>3. m \in 1..Len(ss) /\ m - 1 \in 0..Len(ss)
    BY <1>0, <1>1, <2>2
  <2>4. Good(m - 1)
    BY <1>0, <2>2, <2>3
  <2> QED BY <1>2, <2>2, <2>3, <2>4
<1>4. Good(Len(ss))
  BY <1>0, <1>3
<1> QED BY <1>4 DEF Joins, Good

\* And only one: it is what FlattenSeq computes.
LEMMA FlattenIs ==
  ASSUME NEW S, NEW ss \in Seq(Seq(S)), NEW g, Joins(g, ss, S)
  PROVE  FlattenSeq(ss) = g[Len(ss)]
<1> DEFINE Is(f) == f = [n \in 1..Len(ss) |-> IF n = 1 THEN ss[n] ELSE Cat(f[n - 1], ss[n])]
           f == CHOOSE f : Is(f)
           h == [n \in 1..Len(ss) |-> g[n]]
           T == {n \in 1..Len(ss) : f[n] # g[n]}
<1>0. Len(ss) \in Nat /\ \A k \in 1..Len(ss) : ss[k] \in Seq(S)
  OBVIOUS
<1>1. CASE Len(ss) = 0
  BY <1>1 DEF FlattenSeq, Joins
<1>2. CASE Len(ss) # 0
  <2>1. \A n \in 1..Len(ss) : g[n] = IF n = 1 THEN ss[n] ELSE Cat(g[n - 1], ss[n])
    <3>1. ASSUME 1 \in 1..Len(ss) PROVE g[1] = ss[1]
      <4>1. g[1] = Cat(g[1 - 1], ss[1]) /\ g[0] = <<>> /\ ss[1] \in Seq(S)
        BY <1>0, <3>1 DEF Joins
      <4> QED BY <4>1, CatFacts
    <3> QED BY <3>1 DEF Joins
  <2>2. \A n \in 1..Len(ss) : h[n] = IF n = 1 THEN ss[n] ELSE Cat(h[n - 1], ss[n])
    <3> SUFFICES ASSUME NEW n \in 1..Len(ss), n # 1 PROVE h[n - 1] = g[n - 1]
      BY <2>1
    <3>1. n - 1 \in 1..Len(ss)
      BY <1>0
    <3> QED BY <3>1
  <2>3. Is(h)
    <3>1. h = [n \in 1..Len(ss) |-> h[n]]
      OBVIOUS
    <3> HIDE DEF h
    <3> QED BY <2>2, <3>1
  <2>4. Is(f)
    <3> HIDE DEF Is, h
    <3> QED BY <2>3
  <2>5. FlattenSeq(ss) = f[Len(ss)]
    BY <1>2 DEF FlattenSeq, Cat
  <2> HIDE DEF f, h
  <2>6. \A n \in 1..Len(ss) : f[n] = IF n = 1 THEN ss[n] ELSE Cat(f[n - 1], ss[n])
    BY <2>4
  <2>7. T = {}
    <3> SUFFICES ASSUME T # {} PROVE FALSE
      OBVIOUS
    <3>1. T \in SUBSET Nat
      OBVIOUS
    <3>2. PICK m \in T : \A k \in T : m <= k
      <4> HIDE DEF T
      <4> QED BY <3>1, LeastNat
    <3>3. m # 1
      BY <2>1, <2>6, <3>2
    <3>4. m \in 1..Len(ss) /\ m - 1 \in 1..Len(ss) /\ m \in Nat /\ ~(m <= m - 1)
      BY <1>0, <3>2, <3>3
    <3>5. f[m - 1] = g[m - 1]
      BY <3>2, <3>4
    <3>6. f[m] = Cat(f[m - 1], ss[m]) /\ g[m] = Cat(g[m - 1], ss[m])
      BY <2>1, <2>6, <3>3, <3>4
    <3> QED BY <3>2, <3>5, <3>6
  <2>8. Len(ss) \in 1..Len(ss)
    BY <1>0, <1>2
  <2> QED BY <2>5, <2>7, <2>8
<1> QED BY <1>1, <1>2

\* FlattenSeq joins.
LEMMA FlattenFacts ==
  ASSUME NEW S
  PROVE  /\ FlattenSeq(<<>>) = <<>>
         /\ \A ss \in Seq(Seq(S)) : FlattenSeq(ss) \in Seq(S)
         /\ \A s \in Seq(S) : FlattenSeq(<<s>>) = s
<1>1. FlattenSeq(<<>>) = <<>>
  BY DEF FlattenSeq
<1>2. ASSUME NEW ss \in Seq(Seq(S)) PROVE FlattenSeq(ss) \in Seq(S)
  <2>1. PICK g : Joins(g, ss, S)
    BY JoinsExists
  <2>2. FlattenSeq(ss) = g[Len(ss)] /\ Len(ss) \in 0..Len(ss)
    BY <2>1, FlattenIs
  <2> QED BY <2>1, <2>2 DEF Joins
<1>3. ASSUME NEW s \in Seq(S) PROVE FlattenSeq(<<s>>) = s
  <2> DEFINE ss == <<s>>
  <2>1. ss \in Seq(Seq(S)) /\ Len(ss) = 1 /\ ss[1] = s
    OBVIOUS
  <2> HIDE DEF ss
  <2>2. PICK g : Joins(g, ss, S)
    BY <2>1, JoinsExists
  <2>3. FlattenSeq(ss) = g[1]
    BY <2>1, <2>2, FlattenIs
  <2>4. g[0] = <<>> /\ g[1] = Cat(g[1 - 1], ss[1])
    BY <2>1, <2>2 DEF Joins
  <2>5. g[1] = Cat(<<>>, s)
    BY <2>1, <2>4
  <2> QED BY <2>3, <2>5, CatFacts DEF ss
<1> QED BY <1>1, <1>2, <1>3

\* Joining two sequences of sequences.
LEMMA FlattenConcat ==
  ASSUME NEW S, NEW ss \in Seq(Seq(S)), NEW tt \in Seq(Seq(S))
  PROVE  FlattenSeq(ss \o tt) = FlattenSeq(ss) \o FlattenSeq(tt)
<1> DEFINE u == ss \o tt
<1>1. /\ u \in Seq(Seq(S)) /\ Len(u) = Len(ss) + Len(tt)
      /\ \A k \in 1..Len(ss) + Len(tt) : u[k] = IF k <= Len(ss) THEN ss[k] ELSE tt[k - Len(ss)]
  BY ConcatProperties
<1>2. PICK g : Joins(g, ss, S)
  BY JoinsExists
<1>3. PICK h : Joins(h, tt, S)
  BY JoinsExists
<1>4. Len(ss) \in Nat /\ Len(tt) \in Nat
  OBVIOUS
<1> HIDE DEF u
<1> DEFINE m == Len(ss)
           j == [k \in 0..Len(u) |-> IF k <= m THEN g[k] ELSE Cat(g[m], h[k - m])]
<1>5. g[m] \in Seq(S) /\ \A k \in 0..m : g[k] \in Seq(S)
  <2>1. m \in 0..m /\ g \in [0..m -> Seq(S)]
    BY <1>2, <1>4 DEF Joins
  <2> QED BY <2>1
<1>6. \A k \in 0..Len(tt) : h[k] \in Seq(S)
  BY <1>3, <1>4 DEF Joins
<1> HIDE DEF m
<1>7. m \in Nat /\ Len(u) = m + Len(tt)
  BY <1>1, <1>4 DEF m
<1>8. ASSUME NEW k \in 0..Len(u) PROVE j[k] \in Seq(S) /\ (k <= m => j[k] = g[k])
                                       /\ (k >= m => j[k] = Cat(g[m], h[k - m]))
  <2>1. CASE k < m
    BY <1>5, <1>7, <2>1
  <2>2. CASE k = m
    <3>1. h[0] = <<>> /\ k - m = 0
      BY <1>3, <1>7, <2>2 DEF Joins
    <3>2. Cat(g[m], <<>>) = g[m]
      BY <1>5, CatFacts
    <3> QED BY <1>5, <1>7, <2>2, <3>1, <3>2
  <2>3. CASE k > m
    <3>1. k - m \in 0..Len(tt)
      BY <1>4, <1>7, <2>3
    <3>2. Cat(g[m], h[k - m]) \in Seq(S)
      BY <1>5, <1>6, <3>1, CatFacts
    <3> QED BY <1>7, <2>3, <3>2
  <2> QED BY <1>7, <2>1, <2>2, <2>3
<1>9. ASSUME NEW k \in 1..Len(u) PROVE j[k] = Cat(j[k - 1], u[k])
  <2>0. k \in 0..Len(u) /\ k - 1 \in 0..Len(u) /\ k \in Nat
    BY <1>4, <1>7
  <2>1. CASE k <= m
    <3>1. j[k] = g[k] /\ j[k - 1] = g[k - 1]
      BY <1>7, <1>8, <2>0, <2>1
    <3>2. k \in 1..Len(ss) /\ u[k] = ss[k]
      BY <1>1, <1>7, <2>0, <2>1 DEF m
    <3>3. g[k] = Cat(g[k - 1], ss[k])
      BY <1>2, <3>2 DEF Joins
    <3> QED BY <3>1, <3>2, <3>3
  <2>2. CASE k > m
    <3>1. j[k] = Cat(g[m], h[k - m]) /\ j[k - 1] = Cat(g[m], h[k - 1 - m])
      BY <1>7, <1>8, <2>0, <2>2
    <3>2. k - m \in 1..Len(tt) /\ u[k] = tt[k - m] /\ (k - m) - 1 = k - 1 - m
      <4>1. k - m \in 1..Len(tt) /\ (k - m) - 1 = k - 1 - m
        BY <1>4, <1>7, <2>0, <2>2
      <4>2. k \in 1..Len(ss) + Len(tt) /\ ~(k <= Len(ss))
        BY <1>1, <2>0, <2>2, <1>7 DEF m
      <4> QED BY <1>1, <4>1, <4>2 DEF m
    <3>3. h[k - m] = Cat(h[(k - m) - 1], tt[k - m])
      BY <1>3, <3>2 DEF Joins
    <3>4. tt[k - m] \in Seq(S) /\ h[k - 1 - m] \in Seq(S)
      <4>1. k - 1 - m \in 0..Len(tt)
        BY <1>4, <1>7, <2>0, <3>2
      <4> QED BY <1>6, <3>2, <4>1
    <3>5. h[k - m] = Cat(h[k - 1 - m], u[k]) /\ u[k] \in Seq(S)
      BY <3>2, <3>3, <3>4
    <3>6. Cat(g[m], Cat(h[k - 1 - m], u[k])) = Cat(Cat(g[m], h[k - 1 - m]), u[k])
      BY <1>5, <3>4, <3>5, CatAssociative
    <3> HIDE DEF j
    <3> QED BY <3>1, <3>5, <3>6
  <2> QED BY <1>7, <2>0, <2>1, <2>2
<1>10. Joins(j, u, S)
  <2>1. j \in [0..Len(u) -> Seq(S)]
    BY <1>8
  <2>2. j[0] = <<>>
    BY <1>2, <1>4, <1>7, <1>8 DEF Joins
  <2> HIDE DEF j
  <2> QED BY <1>9, <2>1, <2>2 DEF Joins
<1>11. j[Len(u)] = Cat(g[m], h[Len(tt)])
  <2>1. Len(u) \in 0..Len(u) /\ Len(u) >= m /\ Len(u) - m = Len(tt)
    BY <1>4, <1>7
  <2> HIDE DEF j
  <2> QED BY <1>8, <2>1
<1>12. FlattenSeq(u) = j[Len(u)]
  <2> HIDE DEF j
  <2> QED BY <1>1, <1>10, FlattenIs
<1>13. FlattenSeq(ss) = g[m] /\ FlattenSeq(tt) = h[Len(tt)]
  BY <1>2, <1>3, FlattenIs DEF m
<1> QED BY <1>11, <1>12, <1>13 DEF u, Cat

\* What is added to the last sequence that is not empty comes last.
LEMMA FlattenGrown ==
  ASSUME NEW S, NEW ss \in Seq(Seq(S)), NEW f \in 1..Len(ss), NEW x \in Seq(S),
         \A t \in 1..Len(ss) : t > f => ss[t] = <<>>,
         NEW u \in Seq(Seq(S)), Len(u) = Len(ss), u[f] = Cat(ss[f], x),
         \A k \in 1..Len(ss) : k # f => u[k] = ss[k]
  PROVE  FlattenSeq(u) = Cat(FlattenSeq(ss), x)
<1>0. Len(ss) \in Nat /\ \A k \in 1..Len(ss) : ss[k] \in Seq(S)
  OBVIOUS
<1>1. /\ u \in Seq(Seq(S)) /\ Len(u) = Len(ss)
      /\ u[f] = Cat(ss[f], x) /\ \A k \in 1..Len(ss) : k # f => u[k] = ss[k]
  OBVIOUS
<1>2. PICK g : Joins(g, ss, S)
  BY JoinsExists
<1>3. \A n \in 0..Len(ss) : g[n] \in Seq(S) /\ Cat(g[n], x) \in Seq(S)
  BY <1>2, CatFacts DEF Joins
<1> DEFINE j == [n \in 0..Len(u) |-> IF n < f THEN g[n] ELSE Cat(g[n], x)]
<1>4. j \in [0..Len(u) -> Seq(S)]
  BY <1>1, <1>3
<1>5. j[0] = <<>>
  BY <1>0, <1>1, <1>2 DEF Joins
<1>6. ASSUME NEW n \in 1..Len(u) PROVE j[n] = Cat(j[n - 1], u[n])
  <2>1. /\ n \in 0..Len(u) /\ n - 1 \in 0..Len(u) /\ n \in Nat /\ n \in 1..Len(ss)
        /\ g[n] = Cat(g[n - 1], ss[n]) /\ g[n - 1] \in Seq(S) /\ ss[n] \in Seq(S)
    <3>1. n \in 1..Len(ss) /\ n \in Nat /\ n \in 0..Len(ss) /\ n - 1 \in 0..Len(ss)
      BY <1>0, <1>1
    <3>2. g[n] = Cat(g[n - 1], ss[n])
      BY <1>2, <3>1 DEF Joins
    <3> QED BY <1>0, <1>1, <1>3, <3>1, <3>2
  <2>2. CASE n < f
    <3>1. j[n] = g[n] /\ j[n - 1] = g[n - 1]
      BY <2>1, <2>2
    <3> HIDE DEF j
    <3> QED BY <1>1, <2>1, <2>2, <3>1
  <2>3. CASE n = f
    <3>1. j[n] = Cat(g[n], x) /\ j[n - 1] = g[n - 1]
      BY <2>1, <2>3
    <3>2. Cat(Cat(g[n - 1], ss[n]), x) = Cat(g[n - 1], Cat(ss[n], x))
      BY <2>1, CatAssociative
    <3> HIDE DEF j
    <3> QED BY <1>1, <2>1, <2>3, <3>1, <3>2
  <2>4. CASE n > f
    <3>1. j[n] = Cat(g[n], x) /\ j[n - 1] = Cat(g[n - 1], x)
      <4>1. ~(n < f) /\ ~(n - 1 < f)
        <5>1. n \in Nat /\ f \in Nat
          BY <1>0, <2>1
        <5> QED BY <2>4, <5>1
      <4> QED BY <2>1, <4>1
    <3>2. ss[n] = <<>> /\ u[n] = <<>>
      <4>1. ss[n] = <<>> /\ n # f
        BY <2>1, <2>4
      <4> QED BY <1>1, <2>1, <4>1
    <3>3. Cat(g[n - 1], <<>>) = g[n - 1] /\ Cat(Cat(g[n - 1], x), <<>>) = Cat(g[n - 1], x)
      BY <1>1, <1>3, <2>1, CatFacts
    <3> HIDE DEF j
    <3> QED BY <2>1, <3>1, <3>2, <3>3
  <2> QED BY <2>1, <2>2, <2>3, <2>4
<1>7. Joins(j, u, S)
  <2> HIDE DEF j
  <2> QED BY <1>4, <1>5, <1>6 DEF Joins
<1>8. j[Len(u)] = Cat(g[Len(ss)], x)
  BY <1>0, <1>1
<1>9. FlattenSeq(u) = j[Len(u)]
  <2> HIDE DEF j
  <2> QED BY <1>1, <1>7, FlattenIs
<1>10. FlattenSeq(ss) = g[Len(ss)]
  BY <1>2, FlattenIs
<1> QED BY <1>8, <1>9, <1>10

-----------------------------------------------------------------------------
(* The LogFile: how much a file holds, and what has been written.          *)

LogFiles ==
  [filename_ : Nat, start_ : Int, LastRoll_ : Nat, LastFlush_ : Nat, count_ : Nat,
   stream : Seq(LogPiece), disk : [1..MaxTime -> Seq(LogPiece)],
   late : [1..MaxTime -> Nat], refused : SUBSET Nat]

DayOf(t) == (t \div kRollPerSeconds_) * kRollPerSeconds_

\* Files are named by the time they were opened in, the open one last.
FileShape(f) ==
  /\ f \in LogFiles
  /\ f.LastRoll_ = f.filename_ /\ f.filename_ <= time
  /\ f.filename_ = 0 => f.stream = <<>>
  /\ f.filename_ > 0 => f.start_ = DayOf(f.filename_)
  /\ \A t \in 1..MaxTime : t > f.filename_ => f.disk[t] = <<>>
  /\ Bytes(f.stream) <= StreamSize

\* What the open file will hold once the stream is flushed.
Total(f) == Bytes(f.disk[f.filename_]) + Bytes(f.stream)

\* The files that were closed are as large as they may be, and the open one
\* leaves room for a buffer, of which it has got more bytes.
LeavesRoom(f, more) ==
  /\ \A t \in 1..MaxTime : t # f.filename_ /\ t \notin f.refused =>
       Bytes(f.disk[t]) <= RollSize_ + StreamSize + kLargeBuffer
  /\ f.filename_ > 0 /\ f.filename_ \notin f.refused => Total(f) <= RollSize_ + StreamSize + more

\* No file got more buffers after midnight than it may, and one that is opened
\* now has got none.
LateOK(f) ==
  \A t \in 1..MaxTime : f.late[t] <= CheckEveryN_ /\ (f.late[t] > 0 => t < time)

\* The open file got no more of them than since the clock was looked at.
Noticed(f) ==
  /\ LateOK(f) /\ f.count_ < CheckEveryN_
  /\ f.filename_ > 0 => f.late[f.filename_] <= f.count_

\* What was written, as AllWritten has it.
Content(f) == FlattenSeq(f.disk) \o f.stream

\* The constants are numbers.
LEMMA FileConstants ==
  /\ RollSize_ \in Nat /\ FlushInterval_ \in Nat /\ StreamSize \in Nat
  /\ CheckEveryN_ \in Nat /\ CheckEveryN_ > 0
  /\ kRollPerSeconds_ \in Nat /\ kRollPerSeconds_ > 0
  /\ MaxTime \in Nat /\ MaxTime > 0
  /\ kLargeBuffer \in Nat /\ kLargeBuffer > 0
BY LogFileAssumption, LoggerAssumption

\* The files are a sequence of sequences, and so is what is in them a sequence.
LEMMA DiskFacts ==
  ASSUME NEW d \in [1..MaxTime -> Seq(LogPiece)]
  PROVE  /\ d \in Seq(Seq(LogPiece)) /\ Len(d) = MaxTime
         /\ FlattenSeq(d) \in Seq(LogPiece)
         /\ [t \in 1..MaxTime |-> d[t]] = d
<1>1. d \in Seq(Seq(LogPiece)) /\ Len(d) = MaxTime
  BY FileConstants, IsASeq, LenProperties
<1>2. FlattenSeq(d) \in Seq(LogPiece)
  BY <1>1, FlattenFacts
<1> QED BY <1>1, <1>2

\* A day is a number, and so is a sum of bytes.
LEMMA FileNumbers ==
  ASSUME NEW f \in LogFiles
  PROVE  /\ \A t \in 1..MaxTime : f.disk[t] \in Seq(LogPiece) /\ Bytes(f.disk[t]) \in Nat
         /\ f.stream \in Seq(LogPiece) /\ Bytes(f.stream) \in Nat
         /\ \A t \in Nat : DayOf(t) \in Int
<1>1. f.stream \in Seq(LogPiece) /\ \A t \in 1..MaxTime : f.disk[t] \in Seq(LogPiece)
  BY DEF LogFiles
<1>2. \A t \in Nat : DayOf(t) \in Int
  BY FileConstants DEF DayOf
<1> QED BY <1>1, <1>2, BytesFacts

\* x is moved to the end of the open file.
LEMMA DiskGrown ==
  ASSUME NEW f, FileShape(f), f.filename_ > 0, time \in 1..MaxTime, NEW x \in Seq(LogPiece)
  PROVE  LET d == [f.disk EXCEPT ![f.filename_] = @ \o x]
         IN  /\ d \in [1..MaxTime -> Seq(LogPiece)]
             /\ \A t \in 1..MaxTime : t # f.filename_ => d[t] = f.disk[t]
             /\ d[f.filename_] = f.disk[f.filename_] \o x
             /\ Bytes(d[f.filename_]) = Bytes(f.disk[f.filename_]) + Bytes(x)
             /\ FlattenSeq(d) = FlattenSeq(f.disk) \o x
<1> DEFINE n == f.filename_
           d == [f.disk EXCEPT ![n] = @ \o x]
<1>1. n \in 1..MaxTime /\ f.disk \in [1..MaxTime -> Seq(LogPiece)]
      /\ \A t \in 1..MaxTime : t > n => f.disk[t] = <<>>
  BY FileConstants DEF FileShape, LogFiles
<1> HIDE DEF n
<1>2. f.disk[n] \in Seq(LogPiece) /\ f.disk[n] \o x \in Seq(LogPiece)
  <2>1. f.disk[n] \in Seq(LogPiece)
    BY <1>1
  <2> QED BY <2>1, ConcatProperties
<1>3. /\ d \in [1..MaxTime -> Seq(LogPiece)]
      /\ \A t \in 1..MaxTime : t # n => d[t] = f.disk[t]
      /\ d[n] = f.disk[n] \o x
  BY <1>1, <1>2
<1>4. Bytes(d[n]) = Bytes(f.disk[n]) + Bytes(x)
  BY <1>2, <1>3, BytesFacts
<1>5. FlattenSeq(d) = FlattenSeq(f.disk) \o x
  <2> DEFINE ss == f.disk
  <2>1. /\ ss \in Seq(Seq(LogPiece)) /\ Len(ss) = MaxTime /\ n \in 1..Len(ss)
        /\ d \in Seq(Seq(LogPiece)) /\ Len(d) = Len(ss) /\ d[n] = Cat(ss[n], x)
        /\ \A t \in 1..Len(ss) : t > n => ss[t] = <<>>
        /\ \A t \in 1..Len(ss) : t # n => d[t] = ss[t]
    <3> HIDE DEF d
    <3> QED BY <1>1, <1>3, DiskFacts DEF Cat
  <2> HIDE DEF ss, d
  <2>2. FlattenSeq(d) = Cat(FlattenSeq(ss), x)
    BY <2>1, FlattenGrown
  <2> QED BY <2>2 DEF ss, Cat
<1> QED BY <1>3, <1>4, <1>5 DEF n

\* Flushing moves the stream to the file.
LEMMA FlushFacts ==
  ASSUME NEW f, FileShape(f), time \in 1..MaxTime, NEW more \in Nat, LeavesRoom(f, more)
  PROVE  /\ FileShape(flush(f)) /\ LeavesRoom(flush(f), more)
         /\ Content(flush(f)) = Content(f)
         /\ flush(f).stream = <<>>
         /\ flush(f).filename_ = f.filename_ /\ flush(f).refused = f.refused
         /\ flush(f).late = f.late /\ flush(f).count_ = f.count_
<1>1. CASE f.stream = <<>>
  BY <1>1 DEF flush
<1>2. CASE f.stream # <<>>
  <2> DEFINE d == [f.disk EXCEPT ![f.filename_] = @ \o f.stream]
  <2>0. f \in LogFiles /\ f.filename_ \in Nat /\ f.filename_ > 0 /\ f.stream \in Seq(LogPiece)
    BY <1>2 DEF FileShape, LogFiles
  <2>1. /\ d \in [1..MaxTime -> Seq(LogPiece)]
        /\ \A t \in 1..MaxTime : t # f.filename_ => d[t] = f.disk[t]
        /\ Bytes(d[f.filename_]) = Bytes(f.disk[f.filename_]) + Bytes(f.stream)
        /\ FlattenSeq(d) = FlattenSeq(f.disk) \o f.stream
    BY <2>0, DiskGrown
  <2>2. flush(f) = [f EXCEPT !.disk = d, !.stream = <<>>]
    BY <1>2, <2>0 DEF flush, LogFiles
  <2> HIDE DEF d
  <2> DEFINE g == flush(f)
  <2>3. /\ g \in LogFiles /\ g.disk = d /\ g.stream = <<>>
        /\ g.filename_ = f.filename_ /\ g.refused = f.refused /\ g.start_ = f.start_
        /\ g.LastRoll_ = f.LastRoll_ /\ g.late = f.late /\ g.count_ = f.count_
    <3>1. <<>> \in Seq(LogPiece)
      OBVIOUS
    <3> QED BY <2>0, <2>1, <2>2, <3>1 DEF LogFiles
  <2> HIDE DEF g
  <2>4. Bytes(<<>>) = 0 /\ Bytes(g.stream) = 0
    BY <2>3, BytesFacts
  <2>5. FileShape(g)
    <3>1. \A t \in 1..MaxTime : t > g.filename_ => g.disk[t] = <<>>
      BY <2>0, <2>1, <2>3 DEF FileShape
    <3> QED BY <2>3, <2>4, <3>1, FileConstants DEF FileShape
  <2>6. Total(g) = Total(f)
    <3>1. f.filename_ \in 1..MaxTime
      BY <2>0, FileConstants DEF FileShape
    <3>2. Bytes(f.disk[f.filename_]) \in Nat /\ Bytes(f.stream) \in Nat
      BY <2>0, <3>1, FileNumbers
    <3> QED BY <2>1, <2>3, <2>4, <3>2 DEF Total
  <2>7. LeavesRoom(g, more)
    BY <2>1, <2>3, <2>6 DEF LeavesRoom
  <2>8. Content(g) = Content(f)
    <3>1. FlattenSeq(d) \in Seq(LogPiece)
      BY <2>1, DiskFacts
    <3>2. Content(g) = FlattenSeq(d) \o <<>>
      BY <2>3 DEF Content
    <3>3. FlattenSeq(d) \o <<>> = FlattenSeq(d)
      BY <3>1, ConcatEmptySeq
    <3> QED BY <2>1, <3>2, <3>3 DEF Content
  <2> QED BY <2>3, <2>5, <2>7, <2>8 DEF g
<1> QED BY <1>1, <1>2

\* In the second the open file was opened in it is still the same day.
LEMMA SameDay ==
  ASSUME NEW f, FileShape(f), time \in 1..MaxTime, ~(time > f.LastRoll_)
  PROVE  f.filename_ = time /\ f.start_ = Day
<1>1. f.filename_ \in Nat /\ time \in Nat /\ f.filename_ = f.LastRoll_ /\ f.filename_ <= time
  BY FileConstants DEF FileShape, LogFiles
<1>2. f.filename_ = time /\ f.filename_ > 0
  BY <1>1
<1> QED BY <1>2 DEF FileShape, DayOf, Day

\* The counters of a LogFile.
LEMMA FileTypes ==
  ASSUME NEW f \in LogFiles
  PROVE  /\ f.late \in [1..MaxTime -> Nat] /\ f.count_ \in Nat /\ f.filename_ \in Nat
         /\ f.LastFlush_ \in Nat
BY DEF LogFiles

\* A file that is opened now has got nothing after its day.
LEMMA NoneLate ==
  ASSUME NEW f \in LogFiles, LateOK(f), time \in 1..MaxTime
  PROVE  f.late[time] = 0
<1>1. f.late[time] \in Nat /\ time \in Nat
  BY FileTypes, FileConstants
<1>2. ~(f.late[time] > 0)
  <2>1. f.late[time] > 0 => time < time
    BY DEF LateOK
  <2> QED BY <1>1, <2>1
<1> QED BY <1>1, <1>2

\* Changing the file, or leaving it as it is in its first second.
LEMMA RollFacts ==
  ASSUME NEW f, FileShape(f), time \in 1..MaxTime, LeavesRoom(f, kLargeBuffer),
         f.count_ < CheckEveryN_, LateOK(f)
  PROVE  /\ FileShape(RollFile(f)) /\ LeavesRoom(RollFile(f), 0) /\ Noticed(RollFile(f))
         /\ Content(RollFile(f)) = Content(f)
         /\ RollFile(f).filename_ > 0
<1> DEFINE g == RollFile(f)
<1>0. f \in LogFiles /\ f.count_ \in Nat /\ f.filename_ \in Nat /\ f.refused \in SUBSET Nat
      /\ f.stream \in Seq(LogPiece) /\ f.disk \in [1..MaxTime -> Seq(LogPiece)]
      /\ f.LastRoll_ = f.filename_ /\ time \in Nat /\ time > 0
  <2>1. f \in LogFiles /\ f.LastRoll_ = f.filename_
    BY DEF FileShape
  <2>2. time \in Nat /\ time > 0
    BY FileConstants
  <2> QED BY <2>1, <2>2 DEF LogFiles
<1>1. CASE time > f.LastRoll_
  <2> DEFINE h == flush(f)
  <2>1. /\ FileShape(h) /\ LeavesRoom(h, kLargeBuffer) /\ Content(h) = Content(f)
        /\ h.stream = <<>> /\ h.filename_ = f.filename_ /\ h.refused = f.refused
        /\ h.count_ = f.count_ /\ h.late = f.late
    BY FlushFacts, FileConstants
  <2>2. g = [h EXCEPT !.filename_ = time, !.LastRoll_ = time, !.LastFlush_ = time,
                      !.start_ = Day]
    BY <1>1 DEF RollFile
  <2> HIDE DEF h
  <2>3. h \in LogFiles /\ Day \in Int /\ Day = DayOf(time)
    BY <2>1, <1>0, FileConstants DEF FileShape, Day, DayOf
  <2>4. /\ g \in LogFiles /\ g.filename_ = time /\ g.LastRoll_ = time /\ g.start_ = DayOf(time)
        /\ g.late = f.late /\ g.stream = <<>> /\ g.disk = h.disk /\ g.refused = f.refused
        /\ g.count_ = f.count_
    <3>1. /\ g.filename_ = time /\ g.LastRoll_ = time /\ g.start_ = DayOf(time)
          /\ g.late = h.late /\ g.stream = h.stream /\ g.disk = h.disk /\ g.refused = h.refused
          /\ g.count_ = h.count_
      BY <2>2, <2>3 DEF LogFiles
    <3>2. g \in LogFiles
      <4>1. time \in Nat /\ Day \in Int /\ 0 \in Nat
        BY <1>0, <2>3
      <4>2. \A d \in Int : [h EXCEPT !.filename_ = time, !.LastRoll_ = time, !.LastFlush_ = time,
                             !.start_ = d] \in LogFiles
        BY <2>3, <4>1 DEF LogFiles
      <4> HIDE DEF g
      <4> QED BY <2>2, <4>1, <4>2, Zenon
    <3> QED BY <2>1, <3>1, <3>2
  <2> HIDE DEF g
  <2>5. Bytes(<<>>) = 0 /\ <<>> \in Seq(LogPiece)
    BY BytesFacts
  <2>6. FileShape(g)
    <3>1. \A t \in 1..MaxTime : t > time => g.disk[t] = <<>>
      BY <2>1, <2>4, <1>0 DEF FileShape
    <3>2. Bytes(g.stream) <= StreamSize
      BY <2>4, <2>5, FileConstants
    <3> QED BY <1>0, <2>4, <3>1, <3>2 DEF FileShape
  <2>7. \A t \in 1..MaxTime : t > f.filename_ => g.disk[t] = <<>>
    BY <2>1, <2>4, <1>0 DEF FileShape
  <2>8. LeavesRoom(g, 0)
    <3>1. ASSUME NEW t \in 1..MaxTime, t # time, t \notin g.refused
          PROVE  Bytes(g.disk[t]) <= RollSize_ + StreamSize + kLargeBuffer
      <4>1. CASE t # f.filename_
        BY <2>1, <2>4, <3>1, <4>1 DEF LeavesRoom
      <4>2. CASE t = f.filename_
        <5>1. Total(h) <= RollSize_ + StreamSize + kLargeBuffer /\ h.stream = <<>>
          BY <2>1, <2>4, <3>1, <4>2 DEF LeavesRoom
        <5>2. Total(h) = Bytes(h.disk[t]) + 0 /\ Bytes(h.disk[t]) \in Nat
          BY <2>1, <2>3, <2>5, <4>2, FileNumbers DEF Total
        <5> QED BY <2>4, <5>1, <5>2
      <4> QED BY <4>1, <4>2
    <3>2. Total(g) = 0
      <4>1. g.disk[time] = <<>>
        BY <1>0, <1>1, <2>7
      <4> QED BY <2>4, <2>5, <4>1 DEF Total
    <3> QED BY <2>4, <3>1, <3>2, FileConstants DEF LeavesRoom
  <2>9. Content(g) = Content(f)
    BY <2>1, <2>4 DEF Content
  <2>10. Noticed(g)
    <3>1. f.late[time] = 0
      BY <1>0, NoneLate
    <3> QED BY <1>0, <2>4, <3>1 DEF Noticed, LateOK
  <2> QED BY <1>0, <2>4, <2>6, <2>8, <2>9, <2>10 DEF g
<1>2. CASE ~(time > f.LastRoll_)
  <2>1. f.filename_ = time /\ f.late[time] = 0
     BY <1>0, <1>2, SameDay, NoneLate
  <2>2. g = [f EXCEPT !.refused = @ \cup {f.filename_}]
    BY <1>2 DEF RollFile
  <2>3. /\ g \in LogFiles /\ g.filename_ = f.filename_ /\ g.LastRoll_ = f.LastRoll_
        /\ g.start_ = f.start_ /\ g.late = f.late /\ g.stream = f.stream /\ g.disk = f.disk
        /\ g.refused = f.refused \cup {f.filename_} /\ g.count_ = f.count_
    BY <1>0, <2>2 DEF LogFiles
  <2> HIDE DEF g
  <2>4. FileShape(g)
    BY <2>3 DEF FileShape
  <2>5. LeavesRoom(g, 0)
    BY <2>3 DEF LeavesRoom
  <2>6. Content(g) = Content(f)
    BY <2>3 DEF Content
  <2>7. Noticed(g)
    BY <1>0, <2>1, <2>3 DEF Noticed, LateOK
  <2> QED BY <1>0, <2>1, <2>3, <2>4, <2>5, <2>6, <2>7 DEF g
<1> QED BY <1>1, <1>2

FileOK(f) == FileShape(f) /\ LeavesRoom(f, 0) /\ Noticed(f)

\* The LogFile of a new backend thread goes on with the files that are there.
LEMMA OpenedFacts ==
  ASSUME NEW f, FileOK(f), time \in 1..MaxTime, f.stream = <<>>
  PROVE  /\ FileOK(Opened(f)) /\ Content(Opened(f)) = Content(f)
         /\ Opened(f).filename_ > 0
<1> DEFINE g == Opened(f)
           n == [NoFile EXCEPT !.disk = f.disk, !.late = f.late, !.refused = f.refused]
<1>0. /\ f \in LogFiles /\ f.refused \in SUBSET Nat /\ f.filename_ \in Nat /\ f.filename_ <= time
      /\ f.disk \in [1..MaxTime -> Seq(LogPiece)] /\ time \in Nat /\ time > 0
      /\ f.late \in [1..MaxTime -> Nat] /\ LateOK(f)
  <2>1. f \in LogFiles /\ f.filename_ <= time /\ LateOK(f)
    BY DEF FileOK, FileShape, Noticed
  <2>2. time \in Nat /\ time > 0
    BY FileConstants
  <2> QED BY <2>1, <2>2 DEF LogFiles
<1>1. /\ n \in LogFiles /\ n.filename_ = 0 /\ n.LastRoll_ = 0 /\ n.stream = <<>> /\ n.disk = f.disk
      /\ n.refused = f.refused /\ n.count_ = 0 /\ n.late = f.late
  <2>1. <<>> \in Seq(LogPiece) /\ {} \in SUBSET Nat /\ 0 \in Nat /\ 0 \in Int
    OBVIOUS
  <2>2. /\ [t \in 1..MaxTime |-> <<>>] \in [1..MaxTime -> Seq(LogPiece)]
        /\ [t \in 1..MaxTime |-> 0] \in [1..MaxTime -> Nat]
    BY <2>1
  <2>3. NoFile \in LogFiles
    BY <2>1, <2>2, Zenon DEF NoFile, LogFiles
  <2>4. NoFile.filename_ = 0 /\ NoFile.LastRoll_ = 0 /\ NoFile.stream = <<>> /\ NoFile.count_ = 0
    BY DEF NoFile
  <2> QED BY <1>0, <2>3, <2>4 DEF LogFiles
<1> HIDE DEF n
<1>2. flush(n) = n /\ time > n.LastRoll_
  BY <1>0, <1>1 DEF flush
<1>3. g = [n EXCEPT !.filename_ = time, !.LastRoll_ = time, !.LastFlush_ = time,
                    !.start_ = Day]
  BY <1>2 DEF Opened, RollFile, n
<1>4. Day \in Int /\ Day = DayOf(time)
  BY <1>0, FileConstants DEF Day, DayOf
<1>5. /\ g.filename_ = time /\ g.LastRoll_ = time /\ g.start_ = DayOf(time)
      /\ g.late = f.late /\ g.stream = <<>> /\ g.disk = f.disk /\ g.refused = f.refused
      /\ g.count_ = 0
  <2> HIDE DEF g
  <2> QED BY <1>1, <1>3, <1>4 DEF LogFiles
<1>6. g \in LogFiles
  <2> HIDE DEF g
  <2>1. \A d \in Int :
          [n EXCEPT !.filename_ = time, !.LastRoll_ = time, !.LastFlush_ = time,
                    !.start_ = d] \in LogFiles
    BY <1>0, <1>1 DEF LogFiles
  <2> QED BY <1>3, <1>4, <2>1, Zenon
<1> HIDE DEF g
<1>7. Bytes(<<>>) = 0
  BY BytesFacts
<1>8. FileShape(g)
  <2>1. Bytes(g.stream) <= StreamSize
    BY <1>5, <1>7, FileConstants
  <2>2. \A t \in 1..MaxTime : t > time => g.disk[t] = <<>>
    BY <1>0, <1>5 DEF FileOK, FileShape
  <2> QED BY <1>0, <1>5, <1>6, <2>1, <2>2 DEF FileShape
<1>9. LeavesRoom(g, 0)
  <2>1. /\ \A t \in 1..MaxTime : f.disk[t] \in Seq(LogPiece) /\ Bytes(f.disk[t]) \in Nat
        /\ Bytes(f.stream) = 0 /\ LeavesRoom(f, 0) /\ f.filename_ \in Nat
    BY <1>0, <1>7, FileNumbers DEF FileOK
  <2>2. ASSUME NEW t \in 1..MaxTime, t \notin f.refused
        PROVE  /\ Bytes(f.disk[t]) <= RollSize_ + StreamSize + kLargeBuffer
               /\ t >= f.filename_ => Bytes(f.disk[t]) <= RollSize_ + StreamSize
    <3>1. CASE t > f.filename_
      <4>1. f.disk[t] = <<>>
        BY <3>1 DEF FileOK, FileShape
      <4> QED BY <1>7, <4>1, FileConstants
    <3>2. CASE t = f.filename_
      <4>1. Total(f) <= RollSize_ + StreamSize + 0
        BY <2>1, <2>2, <3>2 DEF LeavesRoom
      <4>2. Total(f) = Bytes(f.disk[t])
        BY <2>1, <3>2 DEF Total
      <4>3. \A x, y, z, u \in Nat : x <= y + z + 0 => x <= y + z /\ x <= y + z + u
        OBVIOUS
      <4>4. Bytes(f.disk[t]) <= RollSize_ + StreamSize + 0 /\ Bytes(f.disk[t]) \in Nat
        BY <2>1, <4>1, <4>2
      <4> QED BY <4>3, <4>4, FileConstants
    <3>3. CASE t < f.filename_
      <4>1. Bytes(f.disk[t]) <= RollSize_ + StreamSize + kLargeBuffer
        BY <2>1, <2>2, <3>3 DEF LeavesRoom
      <4> QED BY <2>1, <3>3, <4>1
    <3> QED BY <2>1, <3>1, <3>2, <3>3
  <2>3. Total(g) = Bytes(f.disk[time])
    BY <1>5, <1>7, <2>1 DEF Total
  <2>4. \A t \in 1..MaxTime : t # g.filename_ /\ t \notin g.refused =>
          Bytes(g.disk[t]) <= RollSize_ + StreamSize + kLargeBuffer
    BY <1>5, <2>2
  <2>5. time \notin f.refused => Bytes(f.disk[time]) <= RollSize_ + StreamSize
    BY <1>0, <2>2
  <2> QED BY <1>5, <2>3, <2>4, <2>5, FileConstants DEF LeavesRoom
<1>10. Content(g) = Content(f)
  BY <1>5 DEF Content
<1>11. Noticed(g)
  <2>1. f.late[time] = 0
    BY <1>0, NoneLate
  <2> QED BY <1>0, <1>5, <2>1, FileConstants DEF Noticed, LateOK
<1> QED BY <1>0, <1>5, <1>8, <1>9, <1>10, <1>11 DEF g, FileOK

\* What the stream passes on and what it keeps are what it had and what is new.
LEMMA WrittenFacts ==
  ASSUME NEW f, FileShape(f), LeavesRoom(f, 0), time \in 1..MaxTime, f.filename_ > 0,
         NEW data \in Seq(LogPiece), Bytes(data) <= kLargeBuffer, NEW k \in Passes(f, data)
  PROVE  LET w == Written(f, data, k)
         IN  /\ FileShape(w) /\ LeavesRoom(w, kLargeBuffer)
             /\ Content(w) = Content(f) \o data
             /\ w.filename_ = f.filename_ /\ w.count_ = f.count_ /\ w.start_ = f.start_
             /\ w.late = [f.late EXCEPT ![f.filename_] = IF Day = f.start_ THEN 0 ELSE @ + 1]
             /\ Bytes(w.disk[w.filename_]) <= RollSize_ => LeavesRoom(w, 0)
<1> DEFINE all == f.stream \o data
           a == SubSeq(all, 1, k)
           b == SubSeq(all, k + 1, Len(all))
           d == [f.disk EXCEPT ![f.filename_] = @ \o a]
           late == [f.late EXCEPT ![f.filename_] = IF Day = f.start_ THEN 0 ELSE @ + 1]
           w == Written(f, data, k)
<1>0. /\ f \in LogFiles /\ f.stream \in Seq(LogPiece) /\ f.filename_ \in 1..MaxTime
      /\ f.disk \in [1..MaxTime -> Seq(LogPiece)] /\ late \in [1..MaxTime -> Nat]
  <2>1. f \in LogFiles /\ f.filename_ <= time
    BY DEF FileShape
  <2>2. f.stream \in Seq(LogPiece) /\ f.late \in [1..MaxTime -> Nat] /\ f.filename_ \in Nat
        /\ f.disk \in [1..MaxTime -> Seq(LogPiece)]
    BY <2>1 DEF LogFiles
  <2>3. f.filename_ \in 1..MaxTime
    BY <2>1, <2>2, FileConstants
  <2>4. late \in [1..MaxTime -> Nat]
    <3>0. f.late[f.filename_] \in Nat
      BY <2>2, <2>3
    <3>1. 0 \in Nat /\ f.late[f.filename_] + 1 \in Nat
      BY <3>0
    <3>2. \A v \in Nat : [f.late EXCEPT ![f.filename_] = v] \in [1..MaxTime -> Nat]
      BY <2>2
    <3>3. CASE Day = f.start_
      <4>1. late = [f.late EXCEPT ![f.filename_] = 0]
        BY <3>3
      <4> HIDE DEF late
      <4> QED BY <3>1, <3>2, <4>1
    <3>4. CASE Day # f.start_
      <4>1. late = [f.late EXCEPT ![f.filename_] = f.late[f.filename_] + 1]
        BY <3>4
      <4> HIDE DEF late
      <4> QED BY <3>1, <3>2, <4>1
    <3> QED BY <3>3, <3>4
  <2> QED BY <2>1, <2>2, <2>3, <2>4
<1>1. /\ all \in Seq(LogPiece) /\ Len(all) = Len(f.stream) + Len(data) /\ Len(all) \in Nat
      /\ Bytes(all) = Bytes(f.stream) + Bytes(data)
  BY <1>0, ConcatProperties, BytesFacts
<1>2. k \in 0..Len(all) /\ Bytes(b) <= StreamSize
  BY <1>0, <1>1 DEF Passes
<1> HIDE DEF all
<1>3. a \in Seq(LogPiece) /\ b \in Seq(LogPiece) /\ a \o b = all
  <2>1. a \o b = SubSeq(all, 1, Len(all))
    <3>1. 1 \in 1..Len(all) + 1 /\ k \in 1 - 1..Len(all) /\ Len(all) \in k..Len(all)
      BY <1>1, <1>2
    <3> QED BY <1>1, <3>1, ConcatAdjacentSubSeq
  <2>2. a \in Seq(LogPiece) /\ b \in Seq(LogPiece)
    BY <1>1, <1>2
  <2> QED BY <1>1, <2>1, <2>2, SubSeqFull
<1> HIDE DEF a, b
<1>4. /\ d \in [1..MaxTime -> Seq(LogPiece)]
      /\ \A t \in 1..MaxTime : t # f.filename_ => d[t] = f.disk[t]
      /\ Bytes(d[f.filename_]) = Bytes(f.disk[f.filename_]) + Bytes(a)
      /\ FlattenSeq(d) = FlattenSeq(f.disk) \o a
  BY <1>3, DiskGrown
<1>5. w = [f EXCEPT !.disk = d, !.stream = b, !.late = late]
  BY <1>0 DEF Written, all, a, b, LogFiles
<1> HIDE DEF d, late
<1>6. /\ w \in LogFiles /\ w.disk = d /\ w.stream = b /\ w.late = late
      /\ w.filename_ = f.filename_ /\ w.LastRoll_ = f.LastRoll_ /\ w.start_ = f.start_
      /\ w.count_ = f.count_ /\ w.refused = f.refused
  <2> HIDE DEF w
  <2> QED BY <1>0, <1>3, <1>4, <1>5 DEF LogFiles
<1> HIDE DEF w
<1>7. FileShape(w)
  <2>1. \A t \in 1..MaxTime : t > w.filename_ => w.disk[t] = <<>>
    <3> SUFFICES ASSUME NEW t \in 1..MaxTime, t > f.filename_ PROVE d[t] = <<>>
      BY <1>6
    <3>1. t # f.filename_ /\ f.disk[t] = <<>>
      BY <1>0 DEF FileShape
    <3> QED BY <1>4, <3>1
  <2> QED BY <1>0, <1>2, <1>6, <2>1 DEF FileShape
<1>8. /\ Bytes(a) \in Nat /\ Bytes(b) \in Nat /\ Bytes(f.stream) \in Nat /\ Bytes(data) \in Nat
      /\ Bytes(f.disk[f.filename_]) \in Nat
      /\ Bytes(a) + Bytes(b) = Bytes(f.stream) + Bytes(data)
  <2>1. f.disk[f.filename_] \in Seq(LogPiece)
    BY <1>0
  <2> QED BY <1>0, <1>1, <1>3, <2>1, BytesFacts
<1> DEFINE x == Bytes(f.disk[f.filename_])
<1>13. \A p, q, r, u, v \in Nat :
         q + r = u + v => (p + q) + r = (p + u) + v /\ p + u \in Nat /\ p + q \in Nat
  OBVIOUS
<1>9. /\ Total(w) = (x + Bytes(a)) + Bytes(b) /\ Total(f) = x + Bytes(f.stream)
      /\ Total(w) = Total(f) + Bytes(data) /\ Total(f) \in Nat /\ x + Bytes(a) \in Nat
      /\ Bytes(w.disk[w.filename_]) = x + Bytes(a)
  <2>1. Total(w) = Bytes(d[f.filename_]) + Bytes(b) /\ Total(f) = x + Bytes(f.stream)
    BY <1>6 DEF Total
  <2>2. Bytes(d[f.filename_]) = x + Bytes(a) /\ x \in Nat
    BY <1>4, <1>8
  <2>3. Bytes(w.disk[w.filename_]) = x + Bytes(a)
    BY <1>6, <2>2
  <2> HIDE DEF x
  <2> QED BY <1>8, <1>13, <2>1, <2>2, <2>3
<1> HIDE DEF x
<1>10. LeavesRoom(w, kLargeBuffer)
  <2>1. f.filename_ \notin f.refused => Total(w) <= RollSize_ + StreamSize + kLargeBuffer
    <3>1. f.filename_ \notin f.refused => Total(f) <= RollSize_ + StreamSize + 0
      BY DEF LeavesRoom
    <3>2. x \in Nat
      BY <1>8 DEF x
    <3>3. \A r, s, l \in Nat : x + Bytes(f.stream) <= r + s + 0 /\ Bytes(data) <= l =>
            (x + Bytes(f.stream)) + Bytes(data) <= r + s + l
      <4>1. \A p, q, r, s, l \in Nat : p + q <= r + s + 0 => \A e \in Nat : e <= l => (p + q) + e <= r + s + l
        OBVIOUS
      <4> QED BY <1>8, <3>2, <4>1
    <3>4. Bytes(data) <= kLargeBuffer
      OBVIOUS
    <3>5. RollSize_ \in Nat /\ StreamSize \in Nat /\ kLargeBuffer \in Nat
      BY FileConstants
    <3> QED BY <1>9, <3>1, <3>3, <3>4, <3>5, Zenon
  <2>2. \A t \in 1..MaxTime : t # w.filename_ /\ t \notin w.refused =>
          Bytes(w.disk[t]) <= RollSize_ + StreamSize + kLargeBuffer
    BY <1>4, <1>6 DEF LeavesRoom
  <2> QED BY <1>6, <2>1, <2>2 DEF LeavesRoom
<1>11. ASSUME Bytes(w.disk[w.filename_]) <= RollSize_ PROVE LeavesRoom(w, 0)
  <2>1. Total(w) <= RollSize_ + StreamSize + 0
    <3>1. x \in Nat
      BY <1>8 DEF x
    <3>2. \A r, s \in Nat : x + Bytes(a) <= r /\ Bytes(b) <= s => (x + Bytes(a)) + Bytes(b) <= r + s + 0
      <4>1. \A p, q, r, s, e \in Nat : p + q <= r /\ e <= s => (p + q) + e <= r + s + 0
        OBVIOUS
      <4> QED BY <1>8, <3>1, <4>1
    <3>5. RollSize_ \in Nat /\ StreamSize \in Nat
      BY FileConstants
    <3> QED BY <1>2, <1>9, <1>11, <3>2, <3>5, Zenon
  <2> QED BY <1>10, <2>1 DEF LeavesRoom
<1>12. Content(w) = Content(f) \o data
  <2> DEFINE c == FlattenSeq(f.disk)
  <2>1. c \in Seq(LogPiece)
    BY <1>0, DiskFacts
  <2> HIDE DEF c
  <2>2. Content(w) = Cat(Cat(c, a), b)
    BY <1>4, <1>6 DEF Content, Cat, c
  <2>3. Cat(Cat(c, a), b) = Cat(c, Cat(a, b))
    BY <1>3, <2>1, CatAssociative
  <2>4. Cat(a, b) = Cat(f.stream, data)
    BY <1>3 DEF all, Cat
  <2>5. Cat(c, Cat(f.stream, data)) = Cat(Cat(c, f.stream), data)
    BY <1>0, <2>1, CatAssociative
  <2> QED BY <2>2, <2>3, <2>4, <2>5 DEF Content, Cat, c
<1> QED BY <1>6, <1>7, <1>10, <1>11, <1>12 DEF w, late

\* The counters and the time of the last flush matter to no other fact.
LEMMA SameFile ==
  ASSUME NEW f, FileShape(f), NEW more, LeavesRoom(f, more), NEW g \in LogFiles,
         g.filename_ = f.filename_, g.LastRoll_ = f.LastRoll_, g.start_ = f.start_,
         g.stream = f.stream, g.disk = f.disk, g.refused = f.refused
  PROVE  FileShape(g) /\ LeavesRoom(g, more) /\ Content(g) = Content(f)
BY DEF FileShape, LeavesRoom, Total, Content

\* Looking at the clock every CheckEveryN_ appends.
LEMMA CheckedFacts ==
  ASSUME NEW f, FileShape(f), time \in 1..MaxTime, LeavesRoom(f, 0), f.filename_ > 0,
         f.count_ < CheckEveryN_, LateOK(f), f.late[f.filename_] <= f.count_ + 1,
         f.start_ = Day => f.late[f.filename_] = 0
  PROVE  /\ FileOK(Checked(f)) /\ Content(Checked(f)) = Content(f)
         /\ Checked(f).filename_ > 0
<1>0. f \in LogFiles /\ f.count_ \in Nat /\ f.LastFlush_ \in Nat /\ f.filename_ \in Nat
      /\ time \in Nat
  <2>1. f \in LogFiles
    BY DEF FileShape
  <2> QED BY <2>1, FileTypes, FileConstants
<1>1. CASE ~CheckDue(f)
  <2> DEFINE g == [f EXCEPT !.count_ = f.count_ + 1]
  <2>1. Checked(f) = g /\ f.count_ + 1 \in Nat /\ f.count_ + 1 < CheckEveryN_
    BY <1>0, <1>1, FileConstants DEF Checked, CheckDue
  <2>2. FileShape(g) /\ LeavesRoom(g, 0) /\ Content(g) = Content(f)
        /\ g.filename_ = f.filename_ /\ g.count_ = f.count_ + 1 /\ g.late = f.late
    <3>1. /\ g \in LogFiles /\ g.filename_ = f.filename_ /\ g.LastRoll_ = f.LastRoll_
          /\ g.start_ = f.start_ /\ g.stream = f.stream /\ g.disk = f.disk
          /\ g.refused = f.refused
          /\ g.late = f.late /\ g.count_ = f.count_ + 1
      BY <1>0, <2>1 DEF LogFiles
    <3> HIDE DEF g
    <3> QED BY <3>1, SameFile
  <2> HIDE DEF g
  <2> QED BY <2>1, <2>2 DEF FileOK, Noticed, LateOK
<1>2. CASE CheckDue(f) /\ Day # f.start_
  <2> DEFINE g == [f EXCEPT !.count_ = 0]
  <2>1. FileShape(g) /\ LeavesRoom(g, 0)  /\ Content(g) = Content(f)
        /\ g.count_ = 0 /\ g.late = f.late
    <3>1. /\ g \in LogFiles /\ g.filename_ = f.filename_ /\ g.LastRoll_ = f.LastRoll_
          /\ g.start_ = f.start_ /\ g.stream = f.stream /\ g.disk = f.disk
          /\ g.refused = f.refused /\ g.count_ = 0 /\ g.late = f.late
      BY <1>0 DEF LogFiles
    <3> HIDE DEF g
    <3> QED BY <3>1, SameFile
  <2>2. Checked(f) = RollFile(g)
    BY <1>2 DEF Checked
  <2> HIDE DEF g
  <2>3. LeavesRoom(g, kLargeBuffer)
    <3>1. g \in LogFiles
      BY <2>1 DEF FileShape
    <3>2. ASSUME g.filename_ > 0 PROVE Total(g) \in Nat
      <4>1. g.filename_ \in 1..MaxTime
        <5>1. g.filename_ \in Nat /\ g.filename_ <= time
          BY <2>1, <3>1 DEF FileShape, LogFiles
        <5> QED BY <1>0, <3>2, <5>1, FileConstants
      <4>2. Bytes(g.disk[g.filename_]) \in Nat /\ Bytes(g.stream) \in Nat
        BY <3>1, <4>1, FileNumbers
      <4> QED BY <4>2 DEF Total
    <3>3. ASSUME g.filename_ > 0, g.filename_ \notin g.refused
          PROVE  Total(g) <= RollSize_ + StreamSize + kLargeBuffer
      <4>1. Total(g) <= RollSize_ + StreamSize + 0
        BY <2>1, <3>3 DEF LeavesRoom
      <4>2. \A p, q, r, u \in Nat : p <= q + r + 0 => p <= q + r + u
        OBVIOUS
      <4> QED BY <3>2, <3>3, <4>1, <4>2, FileConstants
    <3> QED BY <2>1, <3>3 DEF LeavesRoom
  <2>4. g.count_ < CheckEveryN_ /\ LateOK(g)
    BY <2>1, FileConstants DEF LateOK
  <2> QED BY <2>1, <2>2, <2>3, <2>4, RollFacts DEF FileOK
<1>3. CASE CheckDue(f) /\ Day = f.start_ /\ time - f.LastFlush_ > FlushInterval_
  <2> DEFINE g == flush(f)
             h == [g EXCEPT !.count_ = 0, !.LastFlush_ = time]
  <2>1. FileShape(g) /\ LeavesRoom(g, 0) /\ Content(g) = Content(f)
        /\ g.filename_ = f.filename_ /\ g.late = f.late
    BY FlushFacts, FileConstants
  <2>2. Checked(f) = h
    BY <1>3 DEF Checked
  <2> HIDE DEF g
  <2>3. FileShape(h) /\ LeavesRoom(h, 0) /\ Content(h) = Content(g)
        /\ h.filename_ = g.filename_ /\ h.count_ = 0 /\ h.late = g.late
    <3>1. /\ h \in LogFiles /\ h.filename_ = g.filename_ /\ h.LastRoll_ = g.LastRoll_
          /\ h.start_ = g.start_ /\ h.stream = g.stream /\ h.disk = g.disk
          /\ h.refused = g.refused /\ h.count_ = 0 /\ h.late = g.late
      <4>1. g \in LogFiles
        BY <2>1 DEF FileShape
      <4> QED BY <1>0, <4>1 DEF LogFiles
    <3> HIDE DEF h
    <3> QED BY <2>1, <3>1, SameFile
  <2> HIDE DEF h
  <2>4. h.late[h.filename_] = 0
    BY <1>3, <2>1, <2>3
  <2> QED BY <2>1, <2>2, <2>3, <2>4, FileConstants DEF FileOK, Noticed, LateOK
<1>4. CASE CheckDue(f) /\ Day = f.start_ /\ ~(time - f.LastFlush_ > FlushInterval_)
  <2> DEFINE g == [f EXCEPT !.count_ = 0]
  <2>1. Checked(f) = g
    BY <1>4 DEF Checked
  <2>2. FileShape(g) /\ LeavesRoom(g, 0) /\ Content(g) = Content(f)
        /\ g.filename_ = f.filename_ /\ g.count_ = 0 /\ g.late = f.late
    <3>1. /\ g \in LogFiles /\ g.filename_ = f.filename_ /\ g.LastRoll_ = f.LastRoll_
          /\ g.start_ = f.start_ /\ g.stream = f.stream /\ g.disk = f.disk
          /\ g.refused = f.refused /\ g.count_ = 0 /\ g.late = f.late
      BY <1>0 DEF LogFiles
    <3> HIDE DEF g
    <3> QED BY <3>1, SameFile
  <2> HIDE DEF g
  <2> QED BY <1>4, <2>1, <2>2, FileConstants DEF FileOK, Noticed, LateOK
<1> QED BY <1>1, <1>2, <1>3, <1>4

\* LogFile::append: all of the data is written, and the file is changed before
\* it takes more than it may.
LEMMA AppendedFacts ==
  ASSUME NEW f, FileOK(f), time \in 1..MaxTime, f.filename_ > 0,
         NEW data \in Seq(LogPiece), Bytes(data) <= kLargeBuffer, NEW k \in Passes(f, data)
  PROVE  /\ FileOK(Appended(f, data, k))
         /\ Content(Appended(f, data, k)) = Content(f) \o data
         /\ Appended(f, data, k).filename_ > 0
<1> DEFINE w == Written(f, data, k)
<1>0. FileShape(f) /\ LeavesRoom(f, 0) /\ Noticed(f) /\ f \in LogFiles
  BY DEF FileOK, FileShape
<1>1. /\ FileShape(w) /\ LeavesRoom(w, kLargeBuffer)
      /\ Content(w) = Content(f) \o data
      /\ w.filename_ = f.filename_ /\ w.count_ = f.count_ /\ w.start_ = f.start_
      /\ w.late = [f.late EXCEPT ![f.filename_] = IF Day = f.start_ THEN 0 ELSE @ + 1]
      /\ Bytes(w.disk[w.filename_]) <= RollSize_ => LeavesRoom(w, 0)
  BY <1>0, WrittenFacts
<1>2. Appended(f, data, k) = IF Bytes(w.disk[w.filename_]) > RollSize_ THEN RollFile(w) ELSE Checked(w)
  BY DEF Appended
<1> HIDE DEF w
<1>3. /\ f.late \in [1..MaxTime -> Nat] /\ f.count_ \in Nat /\ w \in LogFiles
      /\ w.filename_ \in Nat /\ w.filename_ <= time /\ f.filename_ \in 1..MaxTime
  <2>1. w \in LogFiles /\ w.filename_ <= time /\ f.filename_ <= time
    BY <1>0, <1>1 DEF FileShape
  <2>2. f.late \in [1..MaxTime -> Nat] /\ f.count_ \in Nat /\ f.filename_ \in Nat
    BY <1>0, FileTypes
  <2>3. f.filename_ \in 1..MaxTime
    BY <2>1, <2>2, FileConstants
  <2> QED BY <2>1, <2>2, <2>3, FileTypes
<1>4. /\ w.count_ < CheckEveryN_ /\ LateOK(w) /\ w.late[w.filename_] <= w.count_ + 1
      /\ w.start_ = Day => w.late[w.filename_] = 0
  <2> DEFINE n == f.filename_
  <2>1. f.late[n] <= f.count_ /\ f.count_ < CheckEveryN_ /\ f.late[n] \in Nat
    BY <1>0, <1>3 DEF Noticed
  <2>2. \A t \in 1..MaxTime : t # n => w.late[t] = f.late[t]
    BY <1>1, <1>3
  <2>3. w.late[n] = IF Day = f.start_ THEN 0 ELSE f.late[n] + 1
    BY <1>1, <1>3
  <2>4. Day # f.start_ => n < time
    <3>1. f.LastRoll_ = n /\ time \in Nat
      BY <1>0, FileConstants DEF FileShape
    <3> QED BY <1>0, <1>3, <3>1, SameDay
  <2>5. w.late[n] <= f.count_ + 1 /\ w.late[n] <= CheckEveryN_ /\ (w.late[n] > 0 => n < time)
    <3>1. \A p, q, c \in Nat : p <= q /\ q < c => p + 1 <= q + 1 /\ p + 1 <= c
      OBVIOUS
    <3>2. CASE Day = f.start_
      <4>1. w.late[n] = 0
        BY <2>3, <3>2
      <4> QED BY <1>3, <4>1, FileConstants
    <3>3. CASE Day # f.start_
      <4>1. w.late[n] = f.late[n] + 1 /\ n < time
        BY <2>3, <2>4, <3>3
      <4>2. f.late[n] + 1 <= f.count_ + 1 /\ f.late[n] + 1 <= CheckEveryN_
        BY <1>3, <2>1, <3>1, FileConstants
      <4> QED BY <4>1, <4>2
    <3> QED BY <3>2, <3>3
  <2>6. LateOK(w)
    <3> HIDE DEF n
    <3> QED BY <1>0, <2>2, <2>5 DEF LateOK, Noticed
  <2> QED BY <1>1, <2>1, <2>3, <2>5, <2>6
<1>5. CASE Bytes(w.disk[w.filename_]) > RollSize_
  BY <1>1, <1>2, <1>4, <1>5, RollFacts DEF FileOK
<1>6. CASE ~(Bytes(w.disk[w.filename_]) > RollSize_)
  <2>1. w.filename_ \in 1..MaxTime
    <3>1. w.filename_ > 0 /\ time \in 1..MaxTime
      BY <1>1
    <3> QED BY <1>3, <3>1, FileConstants
  <2>2. Bytes(w.disk[w.filename_]) \in Nat
    BY <1>3, <2>1, FileNumbers
  <2>3. LeavesRoom(w, 0)
    BY <1>1, <1>6, <2>2, FileConstants
  <2> QED BY <1>1, <1>2, <1>4, <1>6, <2>3, CheckedFacts
<1> QED BY <1>5, <1>6

-----------------------------------------------------------------------------
(* What is in the buffers, and what the backend does with the LogFile.     *)

\* cur_ is what has been put in the buffer.
FilledBuffers == {b \in FixedBuffers : b.cur = Bytes(Pieces(b.data))}

\* What the LogFile gets says what the messages say.
LEMMA PiecesFacts ==
  ASSUME NEW ms \in Seq(Messages \cup {Notice})
  PROVE  /\ Pieces(ms) \in Seq(LogPiece) /\ Len(Pieces(ms)) = Len(ms)
         /\ \A i \in 1..Len(ms) : /\ Pieces(ms)[i].msg = ms[i]
                                  /\ ms[i] # Notice => Pieces(ms)[i].bytes = Length(ms[i])
                                  /\ ms[i] = Notice => Pieces(ms)[i].bytes = 1
<1>0. Len(ms) \in Nat /\ DOMAIN ms = 1..Len(ms) /\ \A i \in 1..Len(ms) : ms[i] \in Messages \cup {Notice}
  OBVIOUS
<1>1. \A m \in Messages : Length(m) \in Nat
  BY LoggerAssumption DEF Messages, Length
<1>2. ASSUME NEW i \in 1..Len(ms)
      PROVE  [msg |-> ms[i], bytes |-> IF ms[i] = Notice THEN 1 ELSE Length(ms[i])] \in LogPiece
  BY <1>0, <1>1 DEF LogPiece
<1> DEFINE ps == [i \in 1..Len(ms) |->
                    [msg |-> ms[i], bytes |-> IF ms[i] = Notice THEN 1 ELSE Length(ms[i])]]
<1>3. ps \in Seq(LogPiece) /\ Len(ps) = Len(ms)
  BY <1>0, <1>2
<1>4. Pieces(ms) = ps
  BY <1>0 DEF Pieces
<1> QED BY <1>3, <1>4

\* The pieces of two sequences are those of the first and those of the second.
LEMMA PiecesConcat ==
  ASSUME NEW a \in Seq(Messages \cup {Notice}), NEW b \in Seq(Messages \cup {Notice})
  PROVE  Pieces(a \o b) = Pieces(a) \o Pieces(b)
<1> DEFINE u == a \o b
           v == Pieces(a) \o Pieces(b)
<1>1. /\ u \in Seq(Messages \cup {Notice}) /\ Len(u) = Len(a) + Len(b)
      /\ \A i \in 1..Len(a) + Len(b) : u[i] = IF i <= Len(a) THEN a[i] ELSE b[i - Len(a)]
  BY ConcatProperties
<1>2. /\ Pieces(a) \in Seq(LogPiece) /\ Len(Pieces(a)) = Len(a)
      /\ Pieces(b) \in Seq(LogPiece) /\ Len(Pieces(b)) = Len(b)
      /\ Pieces(u) \in Seq(LogPiece) /\ Len(Pieces(u)) = Len(u)
  BY <1>1, PiecesFacts
<1>3. /\ v \in Seq(LogPiece) /\ Len(v) = Len(a) + Len(b)
      /\ \A i \in 1..Len(a) + Len(b) :
           v[i] = IF i <= Len(a) THEN Pieces(a)[i] ELSE Pieces(b)[i - Len(a)]
  <2> DEFINE x == Pieces(a)
             y == Pieces(b)
  <2>1. x \in Seq(LogPiece) /\ y \in Seq(LogPiece) /\ Len(x) = Len(a) /\ Len(y) = Len(b)
    BY <1>2
  <2> HIDE DEF x, y
  <2>2. /\ x \o y \in Seq(LogPiece) /\ Len(x \o y) = Len(x) + Len(y)
        /\ \A i \in 1..Len(x) + Len(y) : (x \o y)[i] = IF i <= Len(x) THEN x[i] ELSE y[i - Len(x)]
    BY <2>1, ConcatProperties
  <2>3. v = x \o y
    BY DEF x, y
  <2> HIDE DEF v
  <2>4. \A i \in 1..Len(a) + Len(b) : v[i] = IF i <= Len(a) THEN x[i] ELSE y[i - Len(a)]
    BY <2>1, <2>2, <2>3
  <2>5. v \in Seq(LogPiece) /\ Len(v) = Len(a) + Len(b)
    BY <2>1, <2>2, <2>3
  <2> QED BY <2>4, <2>5 DEF x, y
<1>4. Len(a) \in Nat /\ Len(b) \in Nat /\ DOMAIN a = 1..Len(a) /\ DOMAIN b = 1..Len(b)
      /\ DOMAIN u = 1..Len(u)
  BY <1>1
<1> HIDE DEF u, v
<1>5. ASSUME NEW i \in 1..Len(u) PROVE Pieces(u)[i] = v[i]
  <2>1. CASE i <= Len(a)
    <3>1. i \in 1..Len(a) /\ u[i] = a[i] /\ v[i] = Pieces(a)[i]
      BY <1>1, <1>3, <1>4, <2>1
    <3> QED BY <1>4, <3>1 DEF Pieces
  <2>2. CASE ~(i <= Len(a))
    <3>1. i - Len(a) \in 1..Len(b) /\ u[i] = b[i - Len(a)] /\ v[i] = Pieces(b)[i - Len(a)]
      BY <1>1, <1>3, <1>4, <2>2
    <3> QED BY <1>4, <3>1 DEF Pieces
  <2> QED BY <2>1, <2>2
<1>6. Pieces(u) = v
  BY <1>1, <1>2, <1>3, <1>5, SeqEqual
<1> QED BY <1>6 DEF u, v

\* One line.
LEMMA PiecesSingle ==
  ASSUME NEW m \in Messages \cup {Notice}
  PROVE  /\ <<m>> \in Seq(Messages \cup {Notice})
         /\ Bytes(Pieces(<<m>>)) = IF m = Notice THEN 1 ELSE Length(m)
<1> DEFINE ms == <<m>>
           p == Pieces(ms)
<1>1. ms \in Seq(Messages \cup {Notice}) /\ Len(ms) = 1 /\ ms[1] = m
  OBVIOUS
<1> HIDE DEF ms
<1>2. p \in Seq(LogPiece) /\ Len(p) = 1 /\ p[1].bytes = IF m = Notice THEN 1 ELSE Length(m)
  BY <1>1, PiecesFacts
<1> HIDE DEF p
<1>3. p = <<p[1]>> /\ p[1] \in LogPiece
  <2>1. p[1] \in LogPiece
    <3>1. 1 \in 1..Len(p)
      BY <1>2
    <3> QED BY <1>2, <3>1, ElementOfSeq
  <2>2. <<p[1]>> \in Seq(LogPiece) /\ Len(<<p[1]>>) = 1 /\ <<p[1]>>[1] = p[1]
    BY <2>1
  <2> QED BY <1>2, <2>1, <2>2, SeqEqual
<1>4. Bytes(<<p[1]>>) = p[1].bytes
  BY <1>3, BytesFacts
<1> QED BY <1>1, <1>2, <1>3, <1>4 DEF p, ms

\* Messages are lines.
LEMMA MessagesAreLines ==
  /\ \A ms \in Seq(Messages) : ms \in Seq(Messages \cup {Notice})
  /\ Notice \notin Messages
BY SeqMonotonic, LoggerAssumption DEF Messages

\* An empty buffer, and one that has got a message, are filled.
LEMMA FilledFacts ==
  /\ EmptyBuffer \in FilledBuffers
  /\ \A b \in FilledBuffers, m \in Messages : Put(b, m) \in FilledBuffers
  /\ \A b \in FilledBuffers : /\ b \in FixedBuffers /\ b.data \in Seq(Messages)
                              /\ Pieces(b.data) \in Seq(LogPiece)
                              /\ Bytes(Pieces(b.data)) <= kLargeBuffer
<1>1. EmptyBuffer \in FilledBuffers
  <2>1. Pieces(<<>>) = <<>>
    BY PiecesFacts, EmptySeq DEF Pieces
  <2> QED BY <2>1, EmptyFacts, BytesFacts DEF FilledBuffers, EmptyBuffer
<1>2. ASSUME NEW b \in FilledBuffers
      PROVE  /\ b \in FixedBuffers /\ b.data \in Seq(Messages) /\ b.cur = Bytes(Pieces(b.data))
             /\ b.data \in Seq(Messages \cup {Notice})
             /\ Pieces(b.data) \in Seq(LogPiece)
             /\ Bytes(Pieces(b.data)) <= kLargeBuffer
  <2>1. b \in FixedBuffers /\ b.data \in Seq(Messages) /\ b.cur \in 0..kLargeBuffer
        /\ b.cur = Bytes(Pieces(b.data))
    BY DEF FilledBuffers, FixedBuffers
  <2>2. b.data \in Seq(Messages \cup {Notice})
    BY <2>1, MessagesAreLines
  <2>3. Pieces(b.data) \in Seq(LogPiece)
    BY <2>2, PiecesFacts
  <2> QED BY <2>1, <2>2, <2>3, FileConstants
<1>3. ASSUME NEW b \in FilledBuffers, NEW m \in Messages
      PROVE  Put(b, m) \in FilledBuffers
  <2>1. CASE FreeSize(b) > Length(m)
    <3> DEFINE c == Put(b, m)
    <3>1. c.data = Append(b.data, m) /\ c.cur = b.cur + Length(m)
      BY <2>1 DEF Put
    <3>2. c \in FixedBuffers
      BY <1>2, PutFacts
    <3> HIDE DEF c
    <3>3. c.data = b.data \o <<m>>
      BY <1>2, <3>1, AppendIsConcat
    <3>4. m \in Messages \cup {Notice} /\ m # Notice
      BY MessagesAreLines
    <3>5. Pieces(c.data) = Pieces(b.data) \o Pieces(<<m>>)
      BY <1>2, <3>3, <3>4, PiecesConcat, PiecesSingle
    <3>6. Bytes(Pieces(c.data)) = Bytes(Pieces(b.data)) + Length(m)
      <4>1. <<m>> \in Seq(Messages \cup {Notice}) /\ Bytes(Pieces(<<m>>)) = Length(m)
        BY <3>4, PiecesSingle
      <4>2. Pieces(<<m>>) \in Seq(LogPiece)
        BY <4>1, PiecesFacts
      <4> QED BY <1>2, <3>5, <4>1, <4>2, BytesFacts
    <3> QED BY <1>2, <3>1, <3>2, <3>6 DEF FilledBuffers, c
  <2>2. CASE ~(FreeSize(b) > Length(m))
    BY <2>2 DEF Put
  <2> QED BY <2>1, <2>2
<1> QED BY <1>1, <1>2, <1>3

\* The sequences of messages that Contents joins.
Datas(bufs) == [i \in DOMAIN bufs |-> bufs[i].data]

\* They are sequences of messages.
LEMMA DatasFacts ==
  ASSUME NEW bufs \in Seq(FixedBuffers)
  PROVE  /\ Datas(bufs) \in Seq(Seq(Messages)) /\ Len(Datas(bufs)) = Len(bufs)
         /\ \A i \in 1..Len(bufs) : Datas(bufs)[i] = bufs[i].data
         /\ Contents(bufs) = FlattenSeq(Datas(bufs))
<1>1. Len(bufs) \in Nat /\ DOMAIN bufs = 1..Len(bufs)
  OBVIOUS
<1>2. \A i \in 1..Len(bufs) : bufs[i].data \in Seq(Messages)
  <2>1. \A i \in 1..Len(bufs) : bufs[i] \in FixedBuffers
    OBVIOUS
  <2> QED BY <2>1 DEF FixedBuffers
<1> DEFINE ds == [i \in 1..Len(bufs) |-> bufs[i].data]
<1>3. ds \in Seq(Seq(Messages)) /\ Len(ds) = Len(bufs)
  BY <1>1, <1>2
<1>4. Datas(bufs) = ds
  BY <1>1 DEF Datas
<1> QED BY <1>3, <1>4 DEF Contents, Datas

\* The messages of buffers, one after the other.
LEMMA ContentsFacts ==
  /\ Contents(<<>>) = <<>>
  /\ \A bufs \in Seq(FixedBuffers) : Contents(bufs) \in Seq(Messages)
  /\ \A b \in FixedBuffers : Contents(<<b>>) = b.data
  /\ \A p, q \in Seq(FixedBuffers) : Contents(p \o q) = Cat(Contents(p), Contents(q))
<1>1. Contents(<<>>) = <<>>
  <2>1. Datas(<<>>) = <<>> /\ Contents(<<>>) = FlattenSeq(Datas(<<>>))
    <3>1. <<>> \in Seq(FixedBuffers) /\ Len(<<>>) = 0
      OBVIOUS
    <3>2. Datas(<<>>) \in Seq(Seq(Messages)) /\ Len(Datas(<<>>)) = 0
      BY <3>1, DatasFacts
    <3> QED BY <3>1, <3>2, DatasFacts, EmptySeq
  <2> QED BY <2>1, FlattenFacts
<1>2. ASSUME NEW bufs \in Seq(FixedBuffers) PROVE Contents(bufs) \in Seq(Messages)
  BY DatasFacts, FlattenFacts
<1>3. ASSUME NEW b \in FixedBuffers PROVE Contents(<<b>>) = b.data
  <2> DEFINE bs == <<b>>
  <2>1. bs \in Seq(FixedBuffers) /\ Len(bs) = 1 /\ bs[1] = b /\ 1 \in 1..1
    OBVIOUS
  <2>2. b.data \in Seq(Messages)
    BY DEF FixedBuffers
  <2> HIDE DEF bs
  <2>3. Datas(bs) \in Seq(Seq(Messages)) /\ Len(Datas(bs)) = 1 /\ Datas(bs)[1] = b.data
        /\ Contents(bs) = FlattenSeq(Datas(bs))
    BY <2>1, DatasFacts
  <2>4. Datas(bs) = <<b.data>>
    <3> DEFINE x == Datas(bs)
               y == <<b.data>>
    <3>1. y \in Seq(Seq(Messages)) /\ Len(y) = 1 /\ y[1] = b.data
      BY <2>2
    <3>2. x \in Seq(Seq(Messages)) /\ Len(x) = 1 /\ x[1] = b.data
      BY <2>3
    <3> HIDE DEF x, y
    <3>3. x = y
      BY <3>1, <3>2, SeqEqual
    <3> QED BY <3>3 DEF x, y
  <2> QED BY <2>2, <2>3, <2>4, FlattenFacts DEF bs
<1>4. ASSUME NEW p \in Seq(FixedBuffers), NEW q \in Seq(FixedBuffers)
      PROVE  Contents(p \o q) = Cat(Contents(p), Contents(q))
  <2> DEFINE u == p \o q
             x == Datas(p)
             y == Datas(q)
             z == Datas(u)
  <2>1. /\ u \in Seq(FixedBuffers) /\ Len(u) = Len(p) + Len(q)
        /\ \A i \in 1..Len(p) + Len(q) : u[i] = IF i <= Len(p) THEN p[i] ELSE q[i - Len(p)]
    BY ConcatProperties
  <2> HIDE DEF u
  <2>2. /\ x \in Seq(Seq(Messages)) /\ Len(x) = Len(p) /\ \A i \in 1..Len(p) : x[i] = p[i].data
        /\ y \in Seq(Seq(Messages)) /\ Len(y) = Len(q) /\ \A i \in 1..Len(q) : y[i] = q[i].data
        /\ z \in Seq(Seq(Messages)) /\ Len(z) = Len(u) /\ \A i \in 1..Len(u) : z[i] = u[i].data
    BY <2>1, DatasFacts
  <2> HIDE DEF x, y, z
  <2> DEFINE v == x \o y
  <2>3. /\ v \in Seq(Seq(Messages)) /\ Len(v) = Len(x) + Len(y)
        /\ \A i \in 1..Len(x) + Len(y) : v[i] = IF i <= Len(x) THEN x[i] ELSE y[i - Len(x)]
    <3>1. x \in Seq(Seq(Messages)) /\ y \in Seq(Seq(Messages))
      BY <2>2
    <3> QED BY <3>1, ConcatProperties
  <2> HIDE DEF v
  <2>4. Len(p) \in Nat /\ Len(q) \in Nat
    OBVIOUS
  <2>5. ASSUME NEW i \in 1..Len(z) PROVE z[i] = v[i]
    <3>1. i \in 1..Len(p) + Len(q) /\ i \in 1..Len(u) /\ i \in 1..Len(x) + Len(y)
      BY <2>1, <2>2
    <3>2. CASE i <= Len(p)
      <4>1. i \in 1..Len(p) /\ u[i] = p[i] /\ v[i] = x[i]
        BY <2>1, <2>2, <2>3, <2>4, <3>1, <3>2
      <4> QED BY <2>2, <3>1, <4>1
    <3>3. CASE ~(i <= Len(p))
      <4>1. i - Len(p) \in 1..Len(q) /\ u[i] = q[i - Len(p)] /\ v[i] = y[i - Len(p)]
        <5>1. i - Len(p) \in 1..Len(q)
          BY <2>4, <3>1, <3>3
        <5>2. u[i] = q[i - Len(p)]
          BY <2>1, <3>1, <3>3
        <5>3. v[i] = y[i - Len(x)] /\ Len(x) = Len(p)
          BY <2>2, <2>3, <3>1, <3>3
        <5> QED BY <5>1, <5>2, <5>3
      <4> QED BY <2>2, <3>1, <4>1
    <3> QED BY <3>2, <3>3
  <2>6. Len(z) = Len(v)
    BY <2>1, <2>2, <2>3
  <2>7. z = v
    BY <2>2, <2>3, <2>5, <2>6, SeqEqual
  <2>8. FlattenSeq(v) = FlattenSeq(x) \o FlattenSeq(y)
    BY <2>2, FlattenConcat DEF v
  <2>9. Contents(p) = FlattenSeq(x) /\ Contents(q) = FlattenSeq(y) /\ Contents(u) = FlattenSeq(z)
    BY <2>1, DatasFacts DEF x, y, z
  <2> QED BY <2>7, <2>8, <2>9 DEF Cat, u
<1> QED BY <1>1, <1>2, <1>3, <1>4

-----------------------------------------------------------------------------
(* The types of the rest of the state, and the LogFile along the steps.    *)

\* The thread of a logger that may be started has ended.
OwnerInv ==
  /\ running_ \in BOOLEAN /\ latch_ \in Int
  /\ owner \in {"ready", "starting", "started", "joining"}
  /\ owner = "ready" => lpc = "none"

\* The LogFile is open while the backend runs, and flushed when it ends.
OutputInv ==
  /\ time \in 1..MaxTime /\ FileOK(output)
  /\ lpc \in {"none", "launched"} => output.stream = <<>>
  /\ lpc \notin {"none", "launched"} => output.filename_ > 0

\* A batch exists while it is being written.
WrittenInv ==
  /\ written \in 0..Len(BuffersWrite)
  /\ lpc \notin {"write", "append"} => BuffersWrite = <<>>
  /\ lpc = "write" => written = 0

\* Spare buffers are empty, and every buffer knows how full it is.
FilledInv ==
  /\ CurrentBuffer_ \in Seq(FilledBuffers) /\ buffers_ \in Seq(FilledBuffers)
  /\ BuffersWrite \in Seq(FilledBuffers)
  /\ {NextBuffer_, buffer1, buffer2} \subseteq {<<>>, <<EmptyBuffer>>}

HistoryType == appended \in Seq(Messages) /\ dropped \subseteq Messages

FileInv == OwnerInv /\ OutputInv /\ WrittenInv /\ FilledInv /\ HistoryType

\* While the clock stands still.
LEMMA FileStays ==
  ASSUME time' = time, FileOK(output')
  PROVE  FileOK(output)'
BY DEF FileOK, FileShape, LeavesRoom, Total, Noticed, LateOK

\* And when it ticks.
LEMMA FileTicks ==
  ASSUME time \in 1..MaxTime, FileOK(output), time' = time + 1, output' = output
  PROVE  FileOK(output)'
<1>1. time \in Nat /\ output \in LogFiles /\ output.filename_ \in Nat
  <2>1. output \in LogFiles /\ time \in Nat
    BY FileConstants DEF FileOK, FileShape
  <2> QED BY <2>1, FileTypes
<1>2. FileShape(output)'
  <2>1. output'.filename_ <= time'
    BY <1>1 DEF FileOK, FileShape
  <2> QED BY <2>1 DEF FileOK, FileShape
<1>3. LateOK(output)'
  BY <1>1 DEF FileOK, Noticed, LateOK
<1> QED BY <1>2, <1>3 DEF FileOK, LeavesRoom, Total, Noticed

\* The LogFile that does not exist.
LEMMA NoFileOK == ASSUME time = 1 PROVE FileOK(NoFile)
<1>1. <<>> \in Seq(LogPiece) /\ {} \in SUBSET Nat /\ 0 \in Nat /\ 0 \in Int /\ Bytes(<<>>) = 0
  BY BytesFacts
<1>2. /\ [t \in 1..MaxTime |-> <<>>] \in [1..MaxTime -> Seq(LogPiece)]
      /\ [t \in 1..MaxTime |-> 0] \in [1..MaxTime -> Nat]
  BY <1>1
<1>3. NoFile \in LogFiles
  BY <1>1, <1>2, Zenon DEF NoFile, LogFiles
<1>4. NoFile.filename_ = 0 /\ NoFile.LastRoll_ = 0 /\ NoFile.stream = <<>> /\ NoFile.count_ = 0
      /\ \A t \in 1..MaxTime : NoFile.disk[t] = <<>> /\ NoFile.late[t] = 0
  BY DEF NoFile
<1>5. FileShape(NoFile)
  BY <1>1, <1>3, <1>4, FileConstants DEF FileShape
<1>6. LeavesRoom(NoFile, 0)
  BY <1>1, <1>4, FileConstants DEF LeavesRoom
<1>7. Noticed(NoFile)
  BY <1>4, FileConstants DEF Noticed, LateOK
<1> QED BY <1>5, <1>6, <1>7 DEF FileOK

\* At the start nothing has been written.
LEMMA InitFile == Init => FileInv
<1> SUFFICES ASSUME Init PROVE FileInv
  OBVIOUS
<1>1. OwnerInv /\ HistoryType
  <2>1. OwnerInv
    <3>1. latch_ \in Int
      BY DEF Init
    <3> QED BY <3>1 DEF Init, OwnerInv
  <2>2. HistoryType
    BY DEF Init, HistoryType
  <2> QED BY <2>1, <2>2
<1>2. WrittenInv
  BY DEF Init, WrittenInv
<1>3. OutputInv
  <2>1. FileOK(output) /\ output.stream = <<>>
    BY NoFileOK DEF Init, NoFile
  <2> QED BY <2>1, FileConstants DEF Init, OutputInv
<1>4. FilledInv
  <2>1. <<EmptyBuffer>> \in Seq(FilledBuffers) /\ <<>> \in Seq(FilledBuffers)
    BY FilledFacts
  <2> QED BY <2>1 DEF Init, FilledInv
<1> QED BY <1>1, <1>2, <1>3, <1>4 DEF FileInv

\* What a swap does to the buffers.
LEMMA SwapFilled ==
  ASSUME Inv, FilledInv, WrittenInv, lpc \in {"lock", "wait"}, Swap
  PROVE  FilledInv' /\ WrittenInv' /\ written' = 0 /\ written = 0 /\ BuffersWrite = <<>>
         /\ CurrentBuffer_' = <<EmptyBuffer>>
<1>0. buffer1 # <<>> /\ buffer1 = <<EmptyBuffer>>
  BY DEF Inv, BackendEquipped, FilledInv
<1>1. /\ BuffersWrite' = buffers_ \o CurrentBuffer_ /\ buffers_' = <<>> /\ CurrentBuffer_' = buffer1
      /\ buffer1' = <<>> /\ lpc' = "write" /\ written' = written
  BY DEF Swap
<1>2. {NextBuffer_', buffer2'} \subseteq {<<>>, <<EmptyBuffer>>}
  BY DEF Swap, FilledInv
<1>3. BuffersWrite' \in Seq(FilledBuffers)
  <2>1. buffers_ \in Seq(FilledBuffers) /\ CurrentBuffer_ \in Seq(FilledBuffers)
    BY DEF FilledInv
  <2> QED BY <1>1, <2>1, ConcatProperties
<1>4. <<EmptyBuffer>> \in Seq(FilledBuffers) /\ <<>> \in Seq(FilledBuffers)
  BY FilledFacts
<1>5. FilledInv'
  BY <1>0, <1>1, <1>2, <1>3, <1>4 DEF FilledInv
<1>6. BuffersWrite = <<>> /\ written = 0
  BY DEF WrittenInv
<1>7. Len(BuffersWrite') \in Nat
  BY <1>3
<1>8. WrittenInv'
  BY <1>1, <1>6, <1>7 DEF WrittenInv
<1> QED BY <1>0, <1>1, <1>5, <1>6, <1>8

\* Cutting leaves filled buffers and no more of them.
LEMMA CutFacts ==
  ASSUME NEW T, NEW batch \in Seq(T)
  PROVE  /\ Kept(batch) \in Seq(T) /\ Cut(batch) \in Seq(T)
         /\ Kept(batch) \o Cut(batch) = batch
<1>1. CASE Len(batch) > DropLimit
  <2>1. Len(batch) \in Nat /\ Len(batch) >= 3
    BY <1>1, LoggerAssumption
  <2>2. Kept(batch) = SubSeq(batch, 1, 2) /\ Cut(batch) = SubSeq(batch, 2 + 1, Len(batch))
    BY <1>1 DEF Kept, Cut
  <2>3. SubSeq(batch, 1, 2) \in Seq(T) /\ SubSeq(batch, 2 + 1, Len(batch)) \in Seq(T)
    BY <2>1
  <2>4. SubSeq(batch, 1, 2) \o SubSeq(batch, 2 + 1, Len(batch)) = SubSeq(batch, 1, Len(batch))
    <3>1. 1 \in 1..Len(batch) + 1 /\ 2 \in 1 - 1..Len(batch) /\ Len(batch) \in 2..Len(batch)
      BY <2>1
    <3> QED BY <3>1, ConcatAdjacentSubSeq
  <2> QED BY <2>2, <2>3, <2>4, SubSeqFull
<1>2. CASE ~(Len(batch) > DropLimit)
  BY <1>2, ConcatEmptySeq DEF Kept, Cut
<1> QED BY <1>1, <1>2

\* append: the message goes to a buffer that is filled.
LEMMA AppendFile ==
  ASSUME Inv, FileInv, NEW m \in Messages, append(m)
  PROVE  FileInv'
<1> USE DEF FileInv
<1>0. UNCHANGED <<running_, latch_, owner, lpc, localVars, fileVars, dropped>>
      /\ appended' = Append(appended, m)
  BY DEF append
<1>1. OwnerInv' /\ WrittenInv'
  BY <1>0 DEF OwnerInv, WrittenInv, localVars
<1>2. OutputInv'
  <2>1. FileOK(output)'
    BY <1>0, FileStays DEF fileVars, OutputInv
  <2> QED BY <1>0, <2>1 DEF OutputInv, fileVars
<1>3. HistoryType'
  BY <1>0 DEF HistoryType
<1>4. FilledInv'
  <2>1. CurrentBuffer_ # <<>> /\ CurrentBuffer_ \in Seq(FilledBuffers)
        /\ buffers_ \in Seq(FilledBuffers) /\ BuffersWrite' \in Seq(FilledBuffers)
    BY <1>0 DEF Inv, FilledInv, localVars
  <2>2. Head(CurrentBuffer_) \in FilledBuffers
    BY <2>1, HeadTailProperties
  <2>3. \A b \in FilledBuffers : <<Put(b, m)>> \in Seq(FilledBuffers)
    BY FilledFacts
  <2>4. CASE FreeSize(Head(CurrentBuffer_)) > Length(m)
    <3>1. CurrentBuffer_' = <<Put(Head(CurrentBuffer_), m)>> /\ UNCHANGED <<NextBuffer_, buffers_>>
      BY <2>4 DEF append
    <3> QED BY <1>0, <2>1, <2>2, <2>3, <3>1 DEF FilledInv, localVars
  <2>5. CASE ~(FreeSize(Head(CurrentBuffer_)) > Length(m))
    <3>1. /\ buffers_' = buffers_ \o CurrentBuffer_ /\ NextBuffer_' = <<>>
          /\ CurrentBuffer_' = <<Put(IF NextBuffer_ = <<>> THEN EmptyBuffer ELSE Head(NextBuffer_), m)>>
      BY <2>5 DEF append
    <3>2. (IF NextBuffer_ = <<>> THEN EmptyBuffer ELSE Head(NextBuffer_)) = EmptyBuffer
      BY DEF FilledInv
    <3>3. CurrentBuffer_' \in Seq(FilledBuffers)
      BY <2>3, <3>1, <3>2, FilledFacts
    <3>4. buffers_' \in Seq(FilledBuffers)
      BY <2>1, <3>1, ConcatProperties
    <3> QED BY <1>0, <2>1, <3>1, <3>3, <3>4 DEF FilledInv, localVars
  <2> QED BY <2>4, <2>5
<1> QED BY <1>1, <1>2, <1>3, <1>4

\* StartLog opens a LogFile.
LEMMA StartLogFile ==
  ASSUME FileInv, StartLog
  PROVE  FileInv' /\ Content(output') = Content(output)
<1> USE DEF FileInv
<1>0. /\ lpc = "launched" /\ lpc' = "while" /\ latch_' = latch_ - 1
      /\ buffer1' = <<EmptyBuffer>> /\ buffer2' = <<EmptyBuffer>>
      /\ BuffersWrite' = <<>> /\ written' = 0 /\ output' = Opened(output)
      /\ UNCHANGED <<running_, owner, sharedVars, time, appended, dropped>>
  BY DEF StartLog, historyVars
<1>1. OwnerInv' /\ HistoryType'
  BY <1>0 DEF OwnerInv, HistoryType
<1>2. WrittenInv'
  BY <1>0 DEF WrittenInv
<1>3. FileOK(output') /\ Content(output') = Content(output) /\ output'.filename_ > 0
  BY <1>0, OpenedFacts DEF OutputInv
<1>4. OutputInv'
  BY <1>0, <1>3, FileStays DEF OutputInv
<1>5. FilledInv'
  BY <1>0, EmptySeq DEF FilledInv, sharedVars
<1> QED BY <1>1, <1>2, <1>3, <1>4, <1>5

\* The test of the loop; leaving it flushes.
LEMMA WhileFile ==
  ASSUME FileInv, While
  PROVE  FileInv' /\ Content(output') = Content(output)
<1> USE DEF FileInv
<1>0. /\ lpc = "while" /\ lpc' \in {"lock", "none"} /\ (lpc' = "none" => output' = flush(output))
      /\ (lpc' = "lock" => output' = output)
      /\ UNCHANGED <<running_, latch_, owner, sharedVars, BuffersWrite, written, time, appended, dropped>>
  BY DEF While, historyVars
<1>1. OwnerInv' /\ HistoryType'
  BY <1>0 DEF OwnerInv, HistoryType
<1>2. WrittenInv'
  BY <1>0 DEF WrittenInv
<1>3. FileOK(output') /\ Content(output') = Content(output) /\ output'.filename_ = output.filename_
      /\ (lpc' = "none" => output'.stream = <<>>)
  <2>1. /\ FileOK(flush(output)) /\ Content(flush(output)) = Content(output)
        /\ flush(output).stream = <<>> /\ flush(output).filename_ = output.filename_
    BY FlushFacts, FileConstants DEF OutputInv, FileOK, Noticed, LateOK
  <2> QED BY <1>0, <2>1 DEF OutputInv
<1>4. OutputInv'
  BY <1>0, <1>3, FileStays DEF OutputInv
<1>5. FilledInv'
  <2>1. {buffer1', buffer2'} \subseteq {<<>>, <<EmptyBuffer>>}
    BY DEF While, FilledInv
  <2> QED BY <1>0, <2>1 DEF FilledInv, sharedVars
<1> QED BY <1>1, <1>2, <1>3, <1>4, <1>5

\* What is appended to the LogFile is behind what was written.
LEMMA OutputAppended ==
  ASSUME OutputInv, lpc \in {"write", "append"}, lpc' = "append", time' = time,
         NEW data \in Seq(LogPiece), Bytes(data) <= kLargeBuffer,
         NEW k \in Passes(output, data), output' = Appended(output, data, k)
  PROVE  OutputInv' /\ Content(output') = Content(output) \o data
<1>1. FileOK(output') /\ Content(output') = Content(output) \o data /\ output'.filename_ > 0
  BY AppendedFacts DEF OutputInv
<1> QED BY <1>1, FileStays DEF OutputInv

\* The line that says that messages were cut.
LEMMA NoticeFacts ==
  Pieces(<<Notice>>) \in Seq(LogPiece) /\ Bytes(Pieces(<<Notice>>)) <= kLargeBuffer
<1>1. <<Notice>> \in Seq(Messages \cup {Notice}) /\ Bytes(Pieces(<<Notice>>)) = 1
  BY PiecesSingle
<1>2. Pieces(<<Notice>>) \in Seq(LogPiece)
  BY <1>1, PiecesFacts
<1>3. 1 <= kLargeBuffer
  BY FileConstants
<1> QED BY <1>1, <1>2, <1>3

\* A batch is cut, and a line says so.
LEMMA CutFile ==
  ASSUME Inv, FileInv, CutBatch
  PROVE  /\ FileInv'
         /\ Content(output') = IF Cut(BuffersWrite) = <<>> THEN Content(output)
                               ELSE Content(output) \o Pieces(<<Notice>>)
<1> USE DEF FileInv
<1>0. /\ lpc = "write" /\ lpc' = "append" /\ BuffersWrite' = Kept(BuffersWrite) /\ written' = 0
      /\ dropped' = dropped \cup ToSet(Contents(Cut(BuffersWrite)))
      /\ UNCHANGED <<running_, latch_, owner, sharedVars, buffer1, buffer2, time, appended>>
  BY DEF CutBatch
<1>1. OwnerInv'
  BY <1>0 DEF OwnerInv
<1>2. BuffersWrite \in Seq(FilledBuffers) /\ BuffersWrite \in Seq(FixedBuffers)
  BY DEF FilledInv, Inv, BufferTypes
<1>3. BuffersWrite' \in Seq(FilledBuffers)
  BY <1>0, <1>2, CutFacts
<1>4. FilledInv'
  BY <1>0, <1>3 DEF FilledInv, sharedVars
<1>5. WrittenInv'
  <2>1. Len(BuffersWrite') \in Nat
    BY <1>3
  <2> QED BY <1>0, <2>1 DEF WrittenInv
<1>6. HistoryType'
  <2>1. Contents(Cut(BuffersWrite)) \in Seq(Messages)
    BY <1>2, CutFacts, ContentsFacts
  <2>2. ToSet(Contents(Cut(BuffersWrite))) \subseteq Messages
    BY <2>1 DEF ToSet
  <2> QED BY <1>0, <2>2 DEF HistoryType
<1>7. CASE Cut(BuffersWrite) = <<>>
  <2>1. output' = output
    BY <1>7 DEF CutBatch
  <2>2. OutputInv'
    BY <1>0, <2>1, FileStays DEF OutputInv
  <2> QED BY <1>1, <1>4, <1>5, <1>6, <1>7, <2>1, <2>2
<1>8. CASE Cut(BuffersWrite) # <<>>
  <2>1. PICK k \in Passes(output, Pieces(<<Notice>>)) :
          output' = Appended(output, Pieces(<<Notice>>), k)
    BY <1>8 DEF CutBatch
  <2>2. OutputInv' /\ Content(output') = Content(output) \o Pieces(<<Notice>>)
    BY <1>0, <2>1, NoticeFacts, OutputAppended
  <2> QED BY <1>1, <1>4, <1>5, <1>6, <1>8, <2>2
<1> QED BY <1>7, <1>8

\* The next buffer of the batch is written.
LEMMA WriteFile ==
  ASSUME Inv, FileInv, WriteBuffer
  PROVE  /\ FileInv'
         /\ Content(output') = Content(output) \o Pieces(BuffersWrite[written + 1].data)
<1> USE DEF FileInv
<1>0. /\ lpc = "append" /\ lpc' = "append" /\ written < Len(BuffersWrite) /\ written' = written + 1
      /\ UNCHANGED <<running_, latch_, owner, sharedVars, buffer1, buffer2, BuffersWrite, time,
                     appended, dropped>>
  BY DEF WriteBuffer, historyVars
<1>1. OwnerInv' /\ HistoryType'
  BY <1>0 DEF OwnerInv, HistoryType
<1>2. FilledInv'
  BY <1>0 DEF FilledInv, sharedVars
<1>3. BuffersWrite \in Seq(FilledBuffers) /\ Len(BuffersWrite) \in Nat /\ written \in Nat
  BY DEF FilledInv, WrittenInv
<1>4. WrittenInv'
  BY <1>0, <1>3 DEF WrittenInv
<1>5. written + 1 \in 1..Len(BuffersWrite)
  BY <1>0, <1>3
<1>6. BuffersWrite[written + 1] \in FilledBuffers
  BY <1>3, <1>5
<1> DEFINE data == Pieces(BuffersWrite[written + 1].data)
<1>7. data \in Seq(LogPiece) /\ Bytes(data) <= kLargeBuffer
  BY <1>6, FilledFacts
<1>8. PICK k \in Passes(output, data) : output' = Appended(output, data, k)
  BY DEF WriteBuffer
<1> HIDE DEF data
<1>9. OutputInv' /\ Content(output') = Content(output) \o data
  BY <1>0, <1>7, <1>8, OutputAppended
<1> QED BY <1>1, <1>2, <1>4, <1>9 DEF data

\* Recycling flushes.
LEMMA RecycleFile ==
  ASSUME FileInv, Recycle
  PROVE  FileInv' /\ Content(output') = Content(output)
<1> USE DEF FileInv
<1>0. /\ lpc = "append" /\ lpc' = "while" /\ written = Len(BuffersWrite)
      /\ BuffersWrite' = <<>> /\ written' = 0 /\ output' = flush(output)
      /\ UNCHANGED <<running_, latch_, owner, sharedVars, time, appended, dropped>>
  BY DEF Recycle, historyVars
<1>1. OwnerInv' /\ HistoryType'
  BY <1>0 DEF OwnerInv, HistoryType
<1>2. WrittenInv'
  BY <1>0 DEF WrittenInv
<1>3. FilledInv'
  <2>1. {buffer1', buffer2'} \subseteq {<<>>, <<EmptyBuffer>>}
    BY DEF Recycle, FilledInv, reset
  <2> QED BY <1>0, <2>1, EmptySeq DEF FilledInv, sharedVars
<1>4. /\ FileOK(output') /\ Content(output') = Content(output)
      /\ output'.filename_ = output.filename_
  BY <1>0, FlushFacts, FileConstants DEF OutputInv, FileOK, Noticed, LateOK
<1>5. OutputInv'
  BY <1>0, <1>4, FileStays DEF OutputInv
<1> QED BY <1>1, <1>2, <1>3, <1>4, <1>5

\* The inductive step.
LEMMA NextFile == Inv /\ FileInv /\ [Next]_vars => FileInv'
<1> SUFFICES ASSUME Inv, FileInv, [Next]_vars PROVE FileInv'
  OBVIOUS
<1> USE DEF FileInv
<1>1. ASSUME NEW m \in Messages, append(m) PROVE FileInv'
  BY <1>1, AppendFile
<1>2. CASE start
  <2>0. /\ owner' = "starting" /\ running_' = TRUE /\ lpc' = "launched" /\ owner = "ready"
        /\ UNCHANGED <<latch_, sharedVars, localVars, fileVars, historyVars>>
    BY <1>2 DEF start
  <2>1. OwnerInv' /\ HistoryType' /\ FilledInv'
    BY <2>0 DEF OwnerInv, HistoryType, FilledInv, historyVars, sharedVars, localVars
  <2>2. lpc = "none"
    BY <2>0 DEF OwnerInv
  <2>3. OutputInv'
    BY <2>0, <2>2, FileStays DEF OutputInv, fileVars
  <2>4. WrittenInv'
    BY <2>0, <2>2 DEF WrittenInv, localVars
  <2> QED BY <2>1, <2>3, <2>4
<1>3. CASE Started \/ stop \/ Join
  <2>0. UNCHANGED <<lpc, sharedVars, localVars, fileVars, historyVars>>
    BY <1>3 DEF Started, stop, Join
  <2>1. OwnerInv'
    BY <1>3 DEF OwnerInv, Started, stop, Join
  <2>2. OutputInv'
    BY <2>0, FileStays DEF OutputInv, fileVars
  <2> QED BY <2>0, <2>1, <2>2
          DEF WrittenInv, HistoryType, FilledInv, historyVars, sharedVars, localVars
<1>4. CASE StartLog \/ While \/ CutBatch \/ WriteBuffer \/ Recycle
  BY <1>4, StartLogFile, WhileFile, CutFile, WriteFile, RecycleFile
<1>5. CASE (Lock \/ Wake) /\ Swap
  <2>0. UNCHANGED <<running_, latch_, owner, fileVars, historyVars>>
        /\ lpc \in {"lock", "wait"} /\ lpc' = "write"
    BY <1>5 DEF Lock, Wake, Swap
  <2>1. FilledInv' /\ WrittenInv'
    BY <1>5, <2>0, SwapFilled
  <2>2. OutputInv'
    BY <2>0, FileStays DEF OutputInv, fileVars
  <2> QED BY <2>0, <2>1, <2>2 DEF OwnerInv, HistoryType, historyVars
<1>6. CASE Lock /\ ~Swap
  <2>0. UNCHANGED <<running_, latch_, owner, sharedVars, localVars, fileVars, historyVars>>
        /\ lpc = "lock" /\ lpc' = "wait"
    BY <1>6 DEF Lock
  <2>1. OutputInv'
    BY <2>0, FileStays DEF OutputInv, fileVars
  <2> QED BY <2>0, <2>1
          DEF OwnerInv, WrittenInv, HistoryType, FilledInv, historyVars, sharedVars, localVars
<1>7. CASE Clock
  <2>0. /\ UNCHANGED <<running_, latch_, owner, lpc, sharedVars, localVars, output, historyVars>>
        /\ time' = time + 1 /\ time < MaxTime
    BY <1>7 DEF Clock, Tick
  <2>1. OutputInv'
    <3>1. FileOK(output)'
      BY <2>0, FileTicks DEF OutputInv
    <3>2. time' \in 1..MaxTime
      BY <2>0, FileConstants DEF OutputInv
    <3> QED BY <2>0, <3>1, <3>2 DEF OutputInv
  <2> QED BY <2>0, <2>1
          DEF OwnerInv, WrittenInv, HistoryType, FilledInv, historyVars, sharedVars, localVars
<1>8. CASE UNCHANGED vars
  <2>0. UNCHANGED <<running_, latch_, owner, lpc, sharedVars, localVars, fileVars, historyVars>>
    BY <1>8 DEF vars
  <2>1. OutputInv'
    BY <2>0, FileStays DEF OutputInv, fileVars
  <2> QED BY <2>0, <2>1
          DEF OwnerInv, WrittenInv, HistoryType, FilledInv, historyVars, sharedVars, localVars
<1> QED BY <1>1, <1>2, <1>3, <1>4, <1>5, <1>6, <1>7, <1>8 DEF Next, Backend, Wake

\* So it holds in every reachable state.
LEMMA FileInvariance == SafeSpec => []FileInv
<1>1. Init => FileInv
  BY InitFile
<1>2. Inv /\ FileInv /\ [Next]_vars => FileInv'
  BY NextFile
<1> QED BY <1>1, <1>2, Invariance, PTL DEF SafeSpec

\* Every variable keeps its type; no buffer is filled beyond its capacity and
\* the stream holds back no more than it may.
THEOREM TypeCorrect == SafeSpec => []TypeOK
<1>1. Inv /\ FileInv => TypeOK
  <2> SUFFICES ASSUME Inv, FileInv PROVE TypeOK
    OBVIOUS
  <2>1. /\ output \in LogFiles /\ output.filename_ <= time /\ time \in 1..MaxTime
        /\ Bytes(output.stream) <= StreamSize
    BY DEF FileInv, OutputInv, FileOK, FileShape
  <2>2. output.filename_ \in Nat /\ output.count_ \in Nat
    BY <2>1 DEF LogFiles
  <2>3. output.filename_ \in 0..time
    BY <2>1, <2>2, FileConstants
  <2> QED BY <2>1, <2>2, <2>3
          DEF TypeOK, Inv, BufferTypes, FileInv, OwnerInv, WrittenInv, HistoryType
<1> QED BY <1>1, Invariance, FileInvariance, PTL

\* LogFile::append changes the file in time: before a file has grown by more
\* than a buffer beyond RollSize_ and what the stream held back, unless it was
\* opened in the same second, and after no more than CheckEveryN_ buffers of a
\* new day.
THEOREM AlwaysRolledInTime == SafeSpec => []RolledInTime
<1>1. FileInv => RolledInTime
  <2> SUFFICES ASSUME FileInv PROVE RolledInTime
    OBVIOUS
  <2>0. FileOK(output) /\ FileShape(output) /\ LeavesRoom(output, 0) /\ output \in LogFiles
    BY DEF FileInv, OutputInv, FileOK, FileShape
  <2>2. DayIsNoticed
    BY <2>0 DEF DayIsNoticed, FileOK, Noticed, LateOK
  <2>3. ASSUME NEW t \in 1..MaxTime, t \notin output.refused
        PROVE  ~(Bytes(output.disk[t]) > RollSize_ + StreamSize + kLargeBuffer)
    <3>0. Bytes(output.disk[t]) \in Nat /\ Bytes(output.stream) \in Nat
      BY <2>0, FileNumbers
    <3>1. CASE t # output.filename_
      <4>1. Bytes(output.disk[t]) <= RollSize_ + StreamSize + kLargeBuffer
        BY <2>0, <2>3, <3>1 DEF LeavesRoom
      <4> QED BY <3>0, <4>1, FileConstants
    <3>2. CASE t = output.filename_
      <4>1. Total(output) <= RollSize_ + StreamSize + 0
        BY <2>0, <2>3, <3>2 DEF LeavesRoom
      <4>2. Total(output) = Bytes(output.disk[t]) + Bytes(output.stream)
        BY <3>2 DEF Total
      <4>3. \A p, q, r, u, v \in Nat : p + q <= r + u + 0 => ~(p > r + u + v)
        OBVIOUS
      <4> QED BY <3>0, <4>1, <4>2, <4>3, FileConstants
    <3> QED BY <3>1, <3>2
  <2> QED BY <2>2, <2>3 DEF RolledInTime
<1> QED BY <1>1, FileInvariance, PTL

-----------------------------------------------------------------------------
(* The log: what the steps do to the messages in files and buffers.        *)

Lines == Messages \cup {Notice}

\* What pieces say.
Said(ps) == [i \in DOMAIN ps |-> ps[i].msg]

Unwritten == Contents(SubSeq(BuffersWrite, written + 1, Len(BuffersWrite)))

\* As NothingLost says it of the log.
InOrder(log) ==
  \A i, j \in DOMAIN log :
    i < j /\ log[i] # Notice /\ log[j] # Notice => log[i][1] < log[j][1]

\* All of A was appended before all of B.
Before(A, B) == \A x \in A \ {Notice}, y \in B \ {Notice} : x[1] < y[1]

\* The elements of a concatenation.
LEMMA SetConcat ==
  ASSUME NEW S, NEW a \in Seq(S), NEW b \in Seq(S)
  PROVE  ToSet(Cat(a, b)) = ToSet(a) \cup ToSet(b)
<1> DEFINE u == Cat(a, b)
<1>1. /\ u \in Seq(S) /\ Len(u) = Len(a) + Len(b)
      /\ \A i \in 1..Len(a) + Len(b) : u[i] = IF i <= Len(a) THEN a[i] ELSE b[i - Len(a)]
  BY ConcatProperties DEF Cat
<1>2. Len(a) \in Nat /\ Len(b) \in Nat /\ DOMAIN a = 1..Len(a) /\ DOMAIN b = 1..Len(b)
      /\ DOMAIN u = 1..Len(a) + Len(b)
  BY <1>1
<1> HIDE DEF u
<1>3. ASSUME NEW x \in ToSet(u) PROVE x \in ToSet(a) \cup ToSet(b)
  <2>1. PICK i \in 1..Len(a) + Len(b) : u[i] = x
    BY <1>2 DEF ToSet
  <2>2. CASE i <= Len(a)
    BY <1>1, <1>2, <2>1, <2>2 DEF ToSet
  <2>3. CASE ~(i <= Len(a))
    <3>1. i - Len(a) \in 1..Len(b) /\ x = b[i - Len(a)]
      BY <1>1, <1>2, <2>1, <2>3
    <3> QED BY <1>2, <3>1 DEF ToSet
  <2> QED BY <2>2, <2>3
<1>4. ASSUME NEW x \in ToSet(a) PROVE x \in ToSet(u)
  <2>1. PICK i \in 1..Len(a) : a[i] = x
    BY <1>2 DEF ToSet
  <2>2. i \in 1..Len(a) + Len(b) /\ u[i] = x
    BY <1>1, <1>2, <2>1
  <2> QED BY <1>2, <2>2 DEF ToSet
<1>5. ASSUME NEW x \in ToSet(b) PROVE x \in ToSet(u)
  <2>1. PICK i \in 1..Len(b) : b[i] = x
    BY <1>2 DEF ToSet
  <2>2. i + Len(a) \in 1..Len(a) + Len(b) /\ ~(i + Len(a) <= Len(a)) /\ (i + Len(a)) - Len(a) = i
    BY <1>2
  <2>3. u[i + Len(a)] = x
    BY <1>1, <2>1, <2>2
  <2> QED BY <1>2, <2>2, <2>3 DEF ToSet
<1> QED BY <1>3, <1>4, <1>5 DEF u

\* A concatenation is in order if both parts are, and the first is before the
\* second.
LEMMA OrderConcat ==
  ASSUME NEW a \in Seq(Lines), NEW b \in Seq(Lines)
  PROVE  InOrder(Cat(a, b)) <=> InOrder(a) /\ InOrder(b) /\ Before(ToSet(a), ToSet(b))
<1> DEFINE u == Cat(a, b)
<1>1. /\ u \in Seq(Lines) /\ Len(u) = Len(a) + Len(b)
      /\ \A i \in 1..Len(a) + Len(b) : u[i] = IF i <= Len(a) THEN a[i] ELSE b[i - Len(a)]
  BY ConcatProperties DEF Cat
<1>2. Len(a) \in Nat /\ Len(b) \in Nat /\ DOMAIN a = 1..Len(a) /\ DOMAIN b = 1..Len(b)
      /\ DOMAIN u = 1..Len(a) + Len(b)
  BY <1>1
<1> HIDE DEF u
<1>a. ASSUME NEW i \in 1..Len(a) PROVE i \in DOMAIN u /\ u[i] = a[i]
  BY <1>1, <1>2
<1>b. ASSUME NEW i \in 1..Len(b) PROVE i + Len(a) \in DOMAIN u /\ u[i + Len(a)] = b[i]
  <2>1. i + Len(a) \in 1..Len(a) + Len(b) /\ ~(i + Len(a) <= Len(a)) /\ (i + Len(a)) - Len(a) = i
    BY <1>2
  <2> QED BY <1>1, <1>2, <2>1
<1>3. ASSUME InOrder(u) PROVE InOrder(a) /\ InOrder(b) /\ Before(ToSet(a), ToSet(b))
  <2>1. InOrder(a)
    BY <1>3, <1>2, <1>a DEF InOrder
  <2>2. InOrder(b)
    <3> SUFFICES ASSUME NEW i \in 1..Len(b), NEW j \in 1..Len(b), i < j, b[i] # Notice, b[j] # Notice
                 PROVE  b[i][1] < b[j][1]
      BY <1>2 DEF InOrder
    <3>1. i + Len(a) < j + Len(a)
      BY <1>2
    <3> QED BY <1>3, <1>b, <3>1 DEF InOrder
  <2>3. ASSUME NEW x \in ToSet(a) \ {Notice}, NEW y \in ToSet(b) \ {Notice} PROVE x[1] < y[1]
    <3>1. PICK i \in 1..Len(a) : a[i] = x
      BY <1>2 DEF ToSet
    <3>2. PICK j \in 1..Len(b) : b[j] = y
      BY <1>2 DEF ToSet
    <3>3. i < j + Len(a)
      BY <1>2
    <3>4. u[i] = x /\ u[j + Len(a)] = y /\ i \in DOMAIN u /\ j + Len(a) \in DOMAIN u
      BY <1>a, <1>b, <3>1, <3>2
    <3> QED BY <1>3, <3>3, <3>4 DEF InOrder
  <2> QED BY <2>1, <2>2, <2>3 DEF Before
<1>4. ASSUME InOrder(a), InOrder(b), Before(ToSet(a), ToSet(b)) PROVE InOrder(u)
  <2> SUFFICES ASSUME NEW i \in 1..Len(a) + Len(b), NEW j \in 1..Len(a) + Len(b), i < j,
                      u[i] # Notice, u[j] # Notice
               PROVE  u[i][1] < u[j][1]
    BY <1>2 DEF InOrder
  <2>1. CASE j <= Len(a)
    <3>1. i \in 1..Len(a) /\ j \in 1..Len(a)
      BY <1>2, <2>1
    <3> QED BY <1>2, <1>4, <1>a, <3>1 DEF InOrder
  <2>2. CASE i <= Len(a) /\ ~(j <= Len(a))
    <3>1. i \in 1..Len(a) /\ j - Len(a) \in 1..Len(b) /\ u[j] = b[j - Len(a)]
      BY <1>1, <1>2, <2>2
    <3>2. u[i] \in ToSet(a) /\ u[j] \in ToSet(b)
      BY <1>2, <1>a, <3>1 DEF ToSet
    <3> QED BY <1>4, <3>2 DEF Before
  <2>3. CASE ~(i <= Len(a))
    <3>1. i - Len(a) \in 1..Len(b) /\ j - Len(a) \in 1..Len(b) /\ i - Len(a) < j - Len(a)
          /\ ~(j <= Len(a))
      BY <1>2, <2>3
    <3>2. u[i] = b[i - Len(a)] /\ u[j] = b[j - Len(a)]
      BY <1>1, <2>3, <3>1
    <3> QED BY <1>2, <1>4, <3>1, <3>2 DEF InOrder
  <2> QED BY <1>2, <2>1, <2>2, <2>3
<1> QED BY <1>3, <1>4 DEF u

\* What pieces say, one after the other.
LEMMA SaidFacts ==
  /\ \A p \in Seq(LogPiece) : Said(p) \in Seq(Lines)
  /\ \A p, q \in Seq(LogPiece) : Said(p \o q) = Cat(Said(p), Said(q))
  /\ \A ms \in Seq(Lines) : Said(Pieces(ms)) = ms
<1>1. ASSUME NEW p \in Seq(LogPiece)
      PROVE  Said(p) \in Seq(Lines) /\ Len(Said(p)) = Len(p)
             /\ \A i \in 1..Len(p) : Said(p)[i] = p[i].msg
  <2>1. Len(p) \in Nat /\ DOMAIN p = 1..Len(p)
    OBVIOUS
  <2>2. \A i \in 1..Len(p) : p[i].msg \in Lines
    <3>1. \A i \in 1..Len(p) : p[i] \in LogPiece
      OBVIOUS
    <3> QED BY <3>1 DEF LogPiece, Lines
  <2> DEFINE ds == [i \in 1..Len(p) |-> p[i].msg]
  <2>3. ds \in Seq(Lines) /\ Len(ds) = Len(p)
    BY <2>1, <2>2
  <2>4. Said(p) = ds
    BY <2>1 DEF Said
  <2> QED BY <2>3, <2>4
<1>2. ASSUME NEW p \in Seq(LogPiece), NEW q \in Seq(LogPiece)
      PROVE  Said(p \o q) = Cat(Said(p), Said(q))
  <2> DEFINE u == p \o q
             x == Said(p)
             y == Said(q)
             z == Said(u)
             v == Cat(x, y)
  <2>1. /\ u \in Seq(LogPiece) /\ Len(u) = Len(p) + Len(q)
        /\ \A i \in 1..Len(p) + Len(q) : u[i] = IF i <= Len(p) THEN p[i] ELSE q[i - Len(p)]
    BY ConcatProperties
  <2> HIDE DEF u
  <2>2. /\ x \in Seq(Lines) /\ Len(x) = Len(p) /\ \A i \in 1..Len(p) : x[i] = p[i].msg
        /\ y \in Seq(Lines) /\ Len(y) = Len(q) /\ \A i \in 1..Len(q) : y[i] = q[i].msg
        /\ z \in Seq(Lines) /\ Len(z) = Len(u) /\ \A i \in 1..Len(u) : z[i] = u[i].msg
    BY <1>1, <2>1
  <2> HIDE DEF x, y, z
  <2>3. /\ v \in Seq(Lines) /\ Len(v) = Len(x) + Len(y)
        /\ \A i \in 1..Len(x) + Len(y) : v[i] = IF i <= Len(x) THEN x[i] ELSE y[i - Len(x)]
    <3>1. x \in Seq(Lines) /\ y \in Seq(Lines)
      BY <2>2
    <3> QED BY <3>1, ConcatProperties DEF Cat
  <2> HIDE DEF v
  <2>4. Len(p) \in Nat /\ Len(q) \in Nat
    OBVIOUS
  <2>5. ASSUME NEW i \in 1..Len(z) PROVE z[i] = v[i]
    <3>1. i \in 1..Len(p) + Len(q) /\ i \in 1..Len(u) /\ i \in 1..Len(x) + Len(y)
      BY <2>1, <2>2
    <3>2. CASE i <= Len(p)
      <4>1. i \in 1..Len(p) /\ u[i] = p[i] /\ v[i] = x[i]
        BY <2>1, <2>2, <2>3, <2>4, <3>1, <3>2
      <4> QED BY <2>2, <3>1, <4>1
    <3>3. CASE ~(i <= Len(p))
      <4>1. i - Len(p) \in 1..Len(q)
        BY <2>4, <3>1, <3>3
      <4>2. u[i] = q[i - Len(p)]
        BY <2>1, <3>1, <3>3
      <4>3. v[i] = y[i - Len(x)] /\ Len(x) = Len(p)
        BY <2>2, <2>3, <3>1, <3>3
      <4> QED BY <2>2, <3>1, <4>1, <4>2, <4>3
    <3> QED BY <3>2, <3>3
  <2>6. Len(z) = Len(v)
    BY <2>1, <2>2, <2>3
  <2>7. z = v
    BY <2>2, <2>3, <2>5, <2>6, SeqEqual
  <2> QED BY <2>7 DEF z, v, x, y, u
<1>3. ASSUME NEW ms \in Seq(Lines) PROVE Said(Pieces(ms)) = ms
  <2> DEFINE p == Pieces(ms)
             z == Said(p)
  <2>1. p \in Seq(LogPiece) /\ Len(p) = Len(ms) /\ \A i \in 1..Len(ms) : p[i].msg = ms[i]
    BY PiecesFacts DEF Lines
  <2> HIDE DEF p
  <2>2. z \in Seq(Lines) /\ Len(z) = Len(p) /\ \A i \in 1..Len(p) : z[i] = p[i].msg
    BY <1>1, <2>1
  <2> HIDE DEF z
  <2>3. z = ms
    BY <2>1, <2>2, SeqEqual
  <2> QED BY <2>3 DEF z, p
<1> QED BY <1>1, <1>2, <1>3

\* The log is what the files say, the rest of the batch and the buffers.
LEMMA LogParts ==
  ASSUME Inv, FileInv
  PROVE  /\ Content(output) \in Seq(LogPiece) /\ Said(Content(output)) \in Seq(Lines)
         /\ Unwritten \in Seq(Lines)
         /\ Contents(buffers_) \in Seq(Lines) /\ Contents(CurrentBuffer_) \in Seq(Lines)
         /\ SubSeq(BuffersWrite, written + 1, Len(BuffersWrite)) \in Seq(FixedBuffers)
         /\ Log = Cat(Cat(Cat(Said(Content(output)), Unwritten), Contents(buffers_)),
                      Contents(CurrentBuffer_))
<1>0. /\ output \in LogFiles /\ buffers_ \in Seq(FixedBuffers) /\ BuffersWrite \in Seq(FixedBuffers)
      /\ CurrentBuffer_ \in Seq(FixedBuffers) /\ written \in 0..Len(BuffersWrite)
  BY PtrFacts DEF FileInv, OutputInv, FileOK, FileShape, Inv, BufferTypes, WrittenInv
<1>1. output.disk \in [1..MaxTime -> Seq(LogPiece)] /\ output.stream \in Seq(LogPiece)
  BY <1>0 DEF LogFiles
<1>2. FlattenSeq(output.disk) \in Seq(LogPiece) /\ [t \in 1..MaxTime |-> output.disk[t]] = output.disk
  BY <1>1, DiskFacts
<1>3. AllWritten = Content(output)
  BY <1>2 DEF AllWritten, Content
<1>4. Content(output) \in Seq(LogPiece)
  BY <1>1, <1>2, ConcatProperties DEF Content
<1>5. Said(Content(output)) \in Seq(Lines)
  BY <1>4, SaidFacts
<1>6. SubSeq(BuffersWrite, written + 1, Len(BuffersWrite)) \in Seq(FixedBuffers)
  <2>1. \A i \in written + 1..Len(BuffersWrite) : BuffersWrite[i] \in FixedBuffers
    BY <1>0
  <2> QED BY <1>0, <2>1, SubSeqProperties
<1>7. \A bufs \in Seq(FixedBuffers) : Contents(bufs) \in Seq(Lines)
  BY ContentsFacts, MessagesAreLines DEF Lines
<1>8. Log = Cat(Cat(Cat(Said(AllWritten), Unwritten), Contents(buffers_)), Contents(CurrentBuffer_))
  BY DEF Log, Cat, Said, Unwritten
<1> QED BY <1>0, <1>3, <1>4, <1>5, <1>6, <1>7, <1>8 DEF Unwritten

\* And after a step.
LEMMA LogPartsNext ==
  ASSUME Inv', FileInv'
  PROVE  Log' = Cat(Cat(Cat(Said(Content(output')), Unwritten'), Contents(buffers_')),
                    Contents(CurrentBuffer_'))
<1>1. (Inv /\ FileInv =>
         Log = Cat(Cat(Cat(Said(Content(output)), Unwritten), Contents(buffers_)),
                   Contents(CurrentBuffer_)))'
  BY LogParts, PTL
<1> QED BY <1>1

ShortMessages == \A size \in Sizes : size < kLargeBuffer

\* Appending a message appends it to the log.
LEMMA AppendLog ==
  ASSUME Inv, FileInv, Inv', FileInv', ShortMessages, NEW m \in Messages, append(m)
  PROVE  Log' = Cat(Log, <<m>>)
<1> DEFINE W == Cat(Said(Content(output)), Unwritten)
           B == Contents(buffers_)
           C == Contents(CurrentBuffer_)
<1>0. UNCHANGED <<output, BuffersWrite, written>>
  BY DEF append, localVars, fileVars
<1>1. /\ W \in Seq(Lines) /\ B \in Seq(Lines) /\ C \in Seq(Lines) /\ Log = Cat(Cat(W, B), C)
  BY LogParts, CatFacts
<1>2. Log' = Cat(Cat(W, Contents(buffers_')), Contents(CurrentBuffer_'))
  <2>1. Unwritten' = Unwritten /\ output' = output
    BY <1>0 DEF Unwritten
  <2> QED BY <2>1, LogPartsNext
<1>3. /\ CurrentBuffer_ \in BufferPtrs /\ CurrentBuffer_ # <<>> /\ buffers_ \in Seq(FixedBuffers)
      /\ CurrentBuffer_ \in Seq(FixedBuffers)
  BY PtrFacts DEF Inv, BufferTypes
<1>4. <<m>> \in Seq(Lines)
  BY DEF Lines
<1> HIDE DEF W, B, C
<1>5. CASE FreeSize(Head(CurrentBuffer_)) > Length(m)
  <2> DEFINE b == Head(CurrentBuffer_)
             c == Put(b, m)
  <2>1. b \in FixedBuffers /\ CurrentBuffer_ = <<b>>
    <3>1. b \in FixedBuffers /\ Len(CurrentBuffer_) = 1
      BY <1>3, PtrFacts
    <3> QED BY <1>3, <3>1
  <2>2. CurrentBuffer_' = <<c>> /\ buffers_' = buffers_ /\ c.data = Append(b.data, m)
    BY <1>5 DEF append, Put
  <2>3. c \in FixedBuffers
    BY <2>1, PutFacts
  <2> HIDE DEF b, c
  <2>4. b.data \in Seq(Messages) /\ b.data \in Seq(Lines) /\ c.data = Cat(b.data, <<m>>)
    <3>1. b.data \in Seq(Messages)
      BY <2>1 DEF FixedBuffers
    <3> QED BY <2>2, <3>1, MessagesAreLines, AppendIsConcat DEF Cat, Lines
  <2>5. C = b.data /\ Contents(CurrentBuffer_') = Cat(C, <<m>>)
    BY <2>1, <2>2, <2>3, <2>4, ContentsFacts DEF C
  <2>6. Log' = Cat(Cat(W, B), Cat(C, <<m>>))
    BY <1>2, <2>2, <2>5 DEF B
  <2> DEFINE X == Cat(W, B)
             M == <<m>>
  <2>7. X \in Seq(Lines) /\ M \in Seq(Lines)
    BY <1>1, <1>4, CatFacts
  <2>8. Log = Cat(X, C) /\ Log' = Cat(X, Cat(C, M))
    BY <1>1, <2>6
  <2> HIDE DEF X, M
  <2>9. Cat(Cat(X, C), M) = Cat(X, Cat(C, M))
    BY <1>1, <2>7, CatAssociative
  <2>10. Log' = Cat(Log, M)
    BY <2>8, <2>9
  <2> QED BY <2>10 DEF M
<1>6. CASE ~(FreeSize(Head(CurrentBuffer_)) > Length(m))
  <2>1. /\ buffers_' = buffers_ \o CurrentBuffer_
        /\ CurrentBuffer_' = <<Put(IF NextBuffer_ = <<>> THEN EmptyBuffer ELSE Head(NextBuffer_), m)>>
    BY <1>6 DEF append
  <2>2. (IF NextBuffer_ = <<>> THEN EmptyBuffer ELSE Head(NextBuffer_)) = EmptyBuffer
    BY DEF FileInv, FilledInv
  <2> DEFINE c == Put(EmptyBuffer, m)
  <2>3. FreeSize(EmptyBuffer) > Length(m)
    <3>1. Length(m) \in Sizes /\ Length(m) \in Nat /\ Length(m) < kLargeBuffer
      BY LoggerAssumption DEF Messages, Length, ShortMessages
    <3> QED BY <3>1, FileConstants DEF FreeSize, EmptyBuffer
  <2>4. c.data = <<m>> /\ c \in FixedBuffers
    <3>1. c \in FixedBuffers
      BY PutFacts, EmptyFacts
    <3>2. c.data = Append(EmptyBuffer.data, m) /\ EmptyBuffer.data = <<>>
      BY <2>3 DEF Put, EmptyBuffer
    <3>3. Append(<<>>, m) = <<m>>
      OBVIOUS
    <3> QED BY <3>1, <3>2, <3>3
  <2>5. Contents(CurrentBuffer_') = <<m>>
    BY <2>1, <2>2, <2>4, ContentsFacts
  <2>6. Contents(buffers_') = Cat(B, C)
    BY <1>3, <2>1, ContentsFacts DEF B, C
  <2>7. Log' = Cat(Cat(W, Cat(B, C)), <<m>>)
    BY <1>2, <2>5, <2>6
  <2> QED BY <1>1, <2>7, CatAssociative
<1> QED BY <1>5, <1>6

\* A batch of which nothing has been written, and one that has been.
LEMMA UnwrittenFacts ==
  ASSUME NEW batch \in Seq(FixedBuffers)
  PROVE  /\ Contents(SubSeq(batch, 0 + 1, Len(batch))) = Contents(batch)
         /\ Contents(SubSeq(batch, Len(batch) + 1, Len(batch))) = <<>>
<1>1. SubSeq(batch, 0 + 1, Len(batch)) = batch
  BY SubSeqFull
<1>2. SubSeq(batch, Len(batch) + 1, Len(batch)) = <<>>
  <2>1. Len(batch) \in Int /\ Len(batch) + 1 \in Int /\ Len(batch) < Len(batch) + 1
    BY LenProperties
  <2> QED BY <2>1, SubSeqEmpty
<1> QED BY <1>1, <1>2, ContentsFacts

\* What a swap takes from the buffers it has in the batch.
LEMMA SwapLog ==
  ASSUME Inv, FileInv, Inv', FileInv', lpc \in {"lock", "wait"}, Swap, output' = output
  PROVE  Log' = Log
<1> DEFINE W == Said(Content(output))
           B == Contents(buffers_)
           C == Contents(CurrentBuffer_)
<1>1. /\ W \in Seq(Lines) /\ B \in Seq(Lines) /\ C \in Seq(Lines)
      /\ Log = Cat(Cat(Cat(W, Unwritten), B), C)
  BY LogParts
<1>2. written' = 0 /\ written = 0 /\ BuffersWrite = <<>> /\ CurrentBuffer_' = <<EmptyBuffer>>
  BY SwapFilled DEF FileInv
<1>3. /\ BuffersWrite' = buffers_ \o CurrentBuffer_ /\ buffers_' = <<>>
      /\ buffers_ \in Seq(FixedBuffers) /\ CurrentBuffer_ \in Seq(FixedBuffers)
      /\ BuffersWrite' \in Seq(FixedBuffers)
  <2>1. buffers_ \in Seq(FixedBuffers) /\ CurrentBuffer_ \in Seq(FixedBuffers)
    BY PtrFacts DEF Inv, BufferTypes
  <2> QED BY <2>1, ConcatProperties DEF Swap
<1>4. Unwritten = <<>>
  <2>1. BuffersWrite \in Seq(FixedBuffers) /\ Len(BuffersWrite) = 0
    BY <1>2
  <2>2. Contents(SubSeq(BuffersWrite, 0 + 1, Len(BuffersWrite))) = Contents(BuffersWrite)
    BY <2>1, UnwrittenFacts
  <2> QED BY <1>2, <2>2, ContentsFacts DEF Unwritten
<1>5. Unwritten' = Cat(B, C)
  <2>1. Unwritten' = Contents(SubSeq(BuffersWrite', 0 + 1, Len(BuffersWrite')))
    BY <1>2 DEF Unwritten
  <2> QED BY <1>3, <2>1, UnwrittenFacts, ContentsFacts
<1>6. Contents(buffers_') = <<>> /\ Contents(CurrentBuffer_') = <<>>
  BY <1>2, <1>3, ContentsFacts, EmptyFacts DEF EmptyBuffer
<1>7. Log' = Cat(Cat(Cat(W, Cat(B, C)), <<>>), <<>>)
  BY <1>5, <1>6, LogPartsNext
<1> HIDE DEF W, B, C
<1>8. Cat(B, C) \in Seq(Lines) /\ Cat(W, Cat(B, C)) \in Seq(Lines)
  BY <1>1, CatFacts
<1>9. Log' = Cat(W, Cat(B, C))
  BY <1>7, <1>8, CatFacts
<1>10. Log = Cat(Cat(W, B), C)
  BY <1>1, <1>4, CatFacts
<1> QED BY <1>1, <1>9, <1>10, CatAssociative

\* A buffer that is written moves from the batch to the files.
LEMMA WriteLog ==
  ASSUME Inv, FileInv, Inv', FileInv', WriteBuffer
  PROVE  Log' = Log
<1> DEFINE W == Said(Content(output))
           n == Len(BuffersWrite)
           d == BuffersWrite[written + 1].data
           V == Contents(SubSeq(BuffersWrite, (written + 1) + 1, n))
<1>0. /\ written < n /\ written' = written + 1 /\ BuffersWrite' = BuffersWrite
      /\ UNCHANGED sharedVars
      /\ BuffersWrite \in Seq(FixedBuffers) /\ n \in Nat /\ written \in Nat
  BY DEF WriteBuffer, FileInv, WrittenInv, Inv, BufferTypes
<1>1. /\ Content(output) \in Seq(LogPiece) /\ W \in Seq(Lines)
      /\ Log = Cat(Cat(Cat(W, Unwritten), Contents(buffers_)), Contents(CurrentBuffer_))
  BY LogParts
<1>2. BuffersWrite[written + 1] \in FixedBuffers /\ written + 1 \in 1..n /\ n \in written + 1..n
  <2>1. written + 1 \in 1..n /\ n \in written + 1..n
    BY <1>0
  <2> QED BY <1>0, <2>1, ElementOfSeq
<1>3. d \in Seq(Messages) /\ d \in Seq(Lines)
  <2>1. d \in Seq(Messages)
    BY <1>2 DEF FixedBuffers
  <2> QED BY <2>1, MessagesAreLines DEF Lines
<1>4. SubSeq(BuffersWrite, (written + 1) + 1, n) \in Seq(FixedBuffers)
  <2>1. \A i \in (written + 1) + 1..n : BuffersWrite[i] \in FixedBuffers
    BY <1>0
  <2> QED BY <1>0, <2>1, SubSeqProperties
<1>5. SubSeq(BuffersWrite, written + 1, n)
        = <<BuffersWrite[written + 1]>> \o SubSeq(BuffersWrite, (written + 1) + 1, n)
  BY <1>0, <1>2, SubSeqRecursiveFirst
<1>6. Unwritten = Cat(d, V) /\ V \in Seq(Messages) /\ V \in Seq(Lines)
  <2>1. <<BuffersWrite[written + 1]>> \in Seq(FixedBuffers)
        /\ Contents(<<BuffersWrite[written + 1]>>) = d
    BY <1>2, ContentsFacts
  <2>2. V \in Seq(Messages)
    BY <1>4, ContentsFacts
  <2> QED BY <1>4, <1>5, <2>1, <2>2, ContentsFacts, MessagesAreLines DEF Unwritten, Lines
<1>7. Unwritten' = V
  BY <1>0 DEF Unwritten
<1>8. Said(Content(output')) = Cat(W, d)
  <2>1. Content(output') = Content(output) \o Pieces(d)
    BY WriteFile
  <2>2. Pieces(d) \in Seq(LogPiece) /\ Said(Pieces(d)) = d
    BY <1>3, PiecesFacts, SaidFacts DEF Lines
  <2> QED BY <1>1, <2>1, <2>2, SaidFacts
<1> HIDE DEF W, d, V
<1>9. Log' = Cat(Cat(Cat(Cat(W, d), V), Contents(buffers_)), Contents(CurrentBuffer_))
  BY <1>0, <1>7, <1>8, LogPartsNext DEF sharedVars
<1>10. Cat(Cat(W, d), V) = Cat(W, Cat(d, V))
  BY <1>1, <1>3, <1>6, CatAssociative
<1> QED BY <1>1, <1>6, <1>9, <1>10

\* The steps that write nothing and the end of a batch.
LEMMA OtherLog ==
  ASSUME Inv, FileInv, Inv', FileInv', sharedVars' = sharedVars,
         Content(output') = Content(output),
         Contents(SubSeq(BuffersWrite, written + 1, Len(BuffersWrite)))'
           = Contents(SubSeq(BuffersWrite, written + 1, Len(BuffersWrite)))
  PROVE  Log' = Log
<1>1. Unwritten' = Unwritten
  BY DEF Unwritten
<1>2. Log = Cat(Cat(Cat(Said(Content(output)), Unwritten), Contents(buffers_)),
                Contents(CurrentBuffer_))
  BY LogParts
<1> QED BY <1>1, <1>2, LogPartsNext DEF sharedVars

-----------------------------------------------------------------------------
(* Nothing is lost.                                                        *)

\* Messages are numbered as they are appended.
Numbered == \A i \in 1..Len(appended) : appended[i][1] = i

\* NothingLost, of any log.
Complete(log) ==
  /\ ToSet(log) \ {Notice} = ToSet(appended) \ dropped
  /\ InOrder(log)

LogInv ==
  /\ Numbered
  /\ ShortMessages => dropped \subseteq ToSet(appended) /\ Complete(Log)

\* A sequence of one element.
LEMMA SingleFacts ==
  ASSUME NEW x
  PROVE  ToSet(<<x>>) = {x} /\ InOrder(<<x>>) /\ ToSet(<<>>) = {} /\ InOrder(<<>>)
<1>1. DOMAIN <<x>> = {1} /\ <<x>>[1] = x /\ DOMAIN <<>> = {}
  OBVIOUS
<1> QED BY <1>1 DEF ToSet, InOrder

\* append keeps all of it: the new message comes last.
LEMMA AppendComplete ==
  ASSUME Inv, FileInv, Inv', FileInv', LogInv, NEW m \in Messages, append(m)
  PROVE  LogInv'
<1>0. m[1] = Len(appended) + 1 /\ appended' = Append(appended, m) /\ dropped' = dropped
      /\ appended \in Seq(Messages) /\ Len(appended) \in Nat
  BY DEF append, FileInv, HistoryType
<1>1. /\ appended' \in Seq(Messages) /\ Len(appended') = Len(appended) + 1
      /\ \A i \in 1..Len(appended) : appended'[i] = appended[i]
      /\ appended'[Len(appended) + 1] = m
  BY <1>0, AppendProperties
<1>2. Numbered'
  <2> SUFFICES ASSUME NEW i \in 1..Len(appended) + 1 PROVE appended'[i][1] = i
    BY <1>1 DEF Numbered
  <2>1. CASE i = Len(appended) + 1
    BY <1>0, <1>1, <2>1
  <2>2. CASE i # Len(appended) + 1
    <3>1. i \in 1..Len(appended)
      BY <1>0, <2>2
    <3> QED BY <1>1, <3>1 DEF LogInv, Numbered
  <2> QED BY <2>1, <2>2
<1>3. \A x \in ToSet(appended) : x[1] < m[1] /\ x # m
  <2> SUFFICES ASSUME NEW x \in ToSet(appended) PROVE x[1] < m[1]
    BY <1>0
  <2>1. PICK i \in 1..Len(appended) : appended[i] = x
    BY <1>0 DEF ToSet
  <2>2. x[1] = i
    BY <2>1 DEF LogInv, Numbered
  <2> QED BY <1>0, <2>2
<1>4. ToSet(appended') = ToSet(appended) \cup {m}
  <2> DEFINE M == <<m>>
  <2>1. appended' = Cat(appended, M) /\ M \in Seq(Messages) /\ ToSet(M) = {m}
    BY <1>0, AppendIsConcat, SingleFacts DEF Cat
  <2> HIDE DEF M
  <2>2. ToSet(Cat(appended, M)) = ToSet(appended) \cup ToSet(M)
    BY <1>0, <2>1, SetConcat
  <2> QED BY <2>1, <2>2
<1>5. ASSUME ShortMessages PROVE dropped' \subseteq ToSet(appended') /\ Complete(Log)'
  <2>1. dropped \subseteq ToSet(appended) /\ ToSet(Log) \ {Notice} = ToSet(appended) \ dropped
        /\ InOrder(Log)
    BY <1>5 DEF LogInv, Complete
  <2>2. Log \in Seq(Lines)
    BY LogParts, CatFacts
  <2>3. Log' = Cat(Log, <<m>>) /\ <<m>> \in Seq(Lines) /\ m # Notice
    BY <1>5, AppendLog, MessagesAreLines DEF Lines
  <2>4. ToSet(Log') = ToSet(Log) \cup {m}
    <3> DEFINE M == <<m>>
    <3>1. Log' = Cat(Log, M) /\ M \in Seq(Lines) /\ ToSet(M) = {m}
      BY <2>3, SingleFacts
    <3> HIDE DEF M
    <3>2. ToSet(Cat(Log, M)) = ToSet(Log) \cup ToSet(M)
      BY <2>2, <3>1, SetConcat
    <3> QED BY <3>1, <3>2
  <2>5. ToSet(Log') \ {Notice} = ToSet(appended') \ dropped'
    BY <1>0, <1>3, <1>4, <2>1, <2>3, <2>4
  <2>6. Before(ToSet(Log), ToSet(<<m>>))
    BY <1>3, <2>1, SingleFacts DEF Before
  <2>7. InOrder(Log')
    BY <2>1, <2>2, <2>3, <2>6, OrderConcat, SingleFacts
  <2>8. dropped' \subseteq ToSet(appended')
    BY <1>0, <1>4, <2>1
  <2> QED BY <2>5, <2>7, <2>8 DEF Complete, InOrder
<1> QED BY <1>2, <1>5 DEF LogInv, ShortMessages

\* Three parts in order, and the middle one left out.
LEMMA CutOrder ==
  ASSUME NEW W \in Seq(Lines), NEW N \in Seq(Lines), NEW K \in Seq(Lines), NEW C \in Seq(Messages),
         NEW R \in Seq(Lines), ToSet(N) \subseteq {Notice}, InOrder(N),
         InOrder(Cat(W, Cat(Cat(K, C), R)))
  PROVE  /\ InOrder(Cat(Cat(W, N), Cat(K, R)))
         /\ ToSet(Cat(Cat(W, N), Cat(K, R))) \ {Notice}
              = (ToSet(Cat(W, Cat(Cat(K, C), R))) \ {Notice}) \ ToSet(C)
<1>0. C \in Seq(Lines) /\ ToSet(C) \subseteq Messages
  <2>1. ToSet(C) \subseteq Messages
    BY DEF ToSet
  <2> QED BY <2>1, MessagesAreLines DEF Lines
<1>1. /\ Cat(K, C) \in Seq(Lines) /\ Cat(Cat(K, C), R) \in Seq(Lines)
      /\ Cat(W, N) \in Seq(Lines) /\ Cat(K, R) \in Seq(Lines)
  <2>1. Cat(K, C) \in Seq(Lines) /\ Cat(W, N) \in Seq(Lines) /\ Cat(K, R) \in Seq(Lines)
    BY <1>0, CatFacts
  <2> QED BY <2>1, CatFacts
<1> DEFINE w == ToSet(W)
           k == ToSet(K)
           c == ToSet(C)
           r == ToSet(R)
<1>2. /\ ToSet(Cat(K, C)) = k \cup c /\ ToSet(Cat(Cat(K, C), R)) = (k \cup c) \cup r
      /\ ToSet(Cat(W, Cat(Cat(K, C), R))) = w \cup ((k \cup c) \cup r)
      /\ ToSet(Cat(W, N)) = w \cup ToSet(N) /\ ToSet(Cat(K, R)) = k \cup r
      /\ ToSet(Cat(Cat(W, N), Cat(K, R))) = (w \cup ToSet(N)) \cup (k \cup r)
  BY <1>0, <1>1, SetConcat
<1>3. InOrder(W) /\ InOrder(Cat(Cat(K, C), R)) /\ Before(w, (k \cup c) \cup r)
  BY <1>1, <1>2, OrderConcat
<1>4. InOrder(Cat(K, C)) /\ InOrder(R) /\ Before(k \cup c, r)
  BY <1>1, <1>2, <1>3, OrderConcat
<1>5. InOrder(K) /\ InOrder(C) /\ Before(k, c)
  BY <1>0, <1>4, OrderConcat
<1> HIDE DEF w, k, c, r
<1>6. InOrder(Cat(W, N))
  <2>1. Before(w, ToSet(N))
    BY DEF Before
  <2> QED BY <1>3, <2>1, OrderConcat DEF w
<1>7. InOrder(Cat(K, R))
  <2>1. Before(k, r)
    BY <1>4 DEF Before
  <2> QED BY <1>4, <1>5, <2>1, OrderConcat DEF k, r
<1>8. InOrder(Cat(Cat(W, N), Cat(K, R)))
  <2>1. Before(w \cup ToSet(N), k \cup r)
    BY <1>3 DEF Before
  <2> QED BY <1>1, <1>2, <1>6, <1>7, <2>1, OrderConcat
<1>9. ASSUME NEW x \in c, x \in w \cup k \cup r PROVE FALSE
  <2>1. x \in Messages /\ x # Notice
    BY <1>0, MessagesAreLines DEF c
  <2>2. x[1] \in Nat
    BY <2>1, LoggerAssumption DEF Messages
  <2>3. x[1] < x[1]
    BY <1>3, <1>4, <1>5, <1>9, <2>1 DEF Before
  <2> QED BY <2>2, <2>3
<1>10. ToSet(Cat(Cat(W, N), Cat(K, R))) \ {Notice}
         = (ToSet(Cat(W, Cat(Cat(K, C), R))) \ {Notice}) \ c
  <2>1. Notice \notin c
    BY <1>0, MessagesAreLines DEF c
  <2> QED BY <1>2, <1>9, <2>1
<1> QED BY <1>8, <1>10 DEF c

\* What is cut from a batch is the messages that the log loses, and no others.
LEMMA CutComplete ==
  ASSUME Inv, FileInv, Inv', FileInv', LogInv, CutBatch
  PROVE  LogInv'
<1> DEFINE W == Said(Content(output))
           B == Contents(buffers_)
           D == Contents(CurrentBuffer_)
           R == Cat(B, D)
           K == Contents(Kept(BuffersWrite))
           C == Contents(Cut(BuffersWrite))
           N == IF Cut(BuffersWrite) = <<>> THEN <<>> ELSE <<Notice>>
<1>0. /\ lpc = "write" /\ BuffersWrite' = Kept(BuffersWrite) /\ written' = 0 /\ written = 0
      /\ dropped' = dropped \cup ToSet(C) /\ appended' = appended
      /\ UNCHANGED sharedVars /\ BuffersWrite \in Seq(FixedBuffers)
  BY DEF CutBatch, FileInv, WrittenInv, Inv, BufferTypes
<1>1. /\ Content(output) \in Seq(LogPiece) /\ W \in Seq(Lines)
      /\ B \in Seq(Lines) /\ D \in Seq(Lines) /\ R \in Seq(Lines)
      /\ Log = Cat(Cat(Cat(W, Unwritten), B), D)
  BY LogParts, CatFacts
<1>2. /\ Kept(BuffersWrite) \in Seq(FixedBuffers) /\ Cut(BuffersWrite) \in Seq(FixedBuffers)
      /\ Kept(BuffersWrite) \o Cut(BuffersWrite) = BuffersWrite
  BY <1>0, CutFacts
<1>3. K \in Seq(Messages) /\ K \in Seq(Lines) /\ C \in Seq(Messages) /\ C \in Seq(Lines)
  BY <1>2, ContentsFacts, MessagesAreLines DEF Lines
<1>4. Unwritten = Cat(K, C)
  <2>1. Unwritten = Contents(BuffersWrite)
    BY <1>0, UnwrittenFacts DEF Unwritten
  <2> QED BY <1>2, <2>1, ContentsFacts
<1>5. Unwritten' = K
  <2>1. Unwritten' = Contents(SubSeq(BuffersWrite', 0 + 1, Len(BuffersWrite')))
    BY <1>0 DEF Unwritten
  <2> QED BY <1>0, <1>2, <2>1, UnwrittenFacts
<1>6. N \in Seq(Lines) /\ ToSet(N) \subseteq {Notice} /\ InOrder(N)
  <2>1. /\ ToSet(<<Notice>>) = {Notice} /\ InOrder(<<Notice>>)
        /\ ToSet(<<>>) = {} /\ InOrder(<<>>)
    BY SingleFacts
  <2>2. <<Notice>> \in Seq(Lines) /\ <<>> \in Seq(Lines)
    BY DEF Lines
  <2>3. N = <<>> \/ N = <<Notice>>
    OBVIOUS
  <2> HIDE DEF N
  <2> QED BY <2>1, <2>2, <2>3
<1>7. Said(Content(output')) = Cat(W, N)
  <2>1. CASE Cut(BuffersWrite) = <<>>
    <3>1. Content(output') = Content(output)
      BY <2>1, CutFile
    <3> QED BY <1>1, <2>1, <3>1, CatFacts
  <2>2. CASE Cut(BuffersWrite) # <<>>
    <3>1. Content(output') = Content(output) \o Pieces(<<Notice>>) /\ N = <<Notice>>
      BY <2>2, CutFile
    <3>2. Pieces(<<Notice>>) \in Seq(LogPiece) /\ Said(Pieces(<<Notice>>)) = <<Notice>>
      <4>1. <<Notice>> \in Seq(Lines)
        BY DEF Lines
      <4> QED BY <4>1, NoticeFacts, SaidFacts
    <3> QED BY <1>1, <3>1, <3>2, SaidFacts
  <2> QED BY <2>1, <2>2
<1>8. Log' = Cat(Cat(Cat(Cat(W, N), K), B), D)
  BY <1>0, <1>5, <1>7, LogPartsNext DEF sharedVars
<1> HIDE DEF W, B, D, K, C, N
<1>9. \A x, y \in Seq(Lines) : Cat(Cat(Cat(x, y), B), D) = Cat(x, Cat(y, R))
  <2> SUFFICES ASSUME NEW x \in Seq(Lines), NEW y \in Seq(Lines)
               PROVE  Cat(Cat(Cat(x, y), B), D) = Cat(x, Cat(y, R))
    OBVIOUS
  <2>1. Cat(x, y) \in Seq(Lines)
    BY CatFacts
  <2>2. Cat(Cat(Cat(x, y), B), D) = Cat(Cat(x, y), R)
    BY <1>1, <2>1, CatAssociative
  <2> HIDE DEF R
  <2>3. Cat(Cat(x, y), R) = Cat(x, Cat(y, R))
    BY <1>1, CatAssociative
  <2> QED BY <2>2, <2>3
<1> HIDE DEF R
<1>10. Cat(K, C) \in Seq(Lines) /\ Cat(W, N) \in Seq(Lines)
  BY <1>1, <1>3, <1>6, CatFacts
<1>11. Log = Cat(W, Cat(Cat(K, C), R)) /\ Log' = Cat(Cat(W, N), Cat(K, R))
  BY <1>1, <1>3, <1>4, <1>8, <1>9, <1>10
<1>12. ASSUME ShortMessages PROVE dropped' \subseteq ToSet(appended') /\ Complete(Log)'
  <2>1. dropped \subseteq ToSet(appended) /\ ToSet(Log) \ {Notice} = ToSet(appended) \ dropped
        /\ InOrder(Log)
    BY <1>12 DEF LogInv, Complete
  <2>2. InOrder(Log') /\ ToSet(Log') \ {Notice} = (ToSet(Log) \ {Notice}) \ ToSet(C)
    BY <1>1, <1>3, <1>6, <1>11, <2>1, CutOrder
  <2>3. ToSet(C) \subseteq ToSet(Log) \ {Notice}
    <3>1. ToSet(Cat(K, C)) = ToSet(K) \cup ToSet(C)
      BY <1>3, SetConcat
    <3>2. ToSet(Cat(Cat(K, C), R)) = ToSet(Cat(K, C)) \cup ToSet(R) /\ Cat(Cat(K, C), R) \in Seq(Lines)
      BY <1>1, <1>10, SetConcat, CatFacts
    <3>3. ToSet(Log) = ToSet(W) \cup ToSet(Cat(Cat(K, C), R))
      BY <1>1, <1>11, <3>2, SetConcat
    <3>4. ToSet(C) \subseteq Messages
      BY <1>3 DEF ToSet
    <3> QED BY <3>1, <3>2, <3>3, <3>4, MessagesAreLines
  <2>4. dropped' \subseteq ToSet(appended')
    BY <1>0, <2>1, <2>3
  <2>5. ToSet(Log') \ {Notice} = ToSet(appended') \ dropped'
    BY <1>0, <2>1, <2>2
  <2> QED BY <2>2, <2>4, <2>5 DEF Complete, InOrder
<1>13. Numbered'
  BY <1>0 DEF LogInv, Numbered
<1> QED BY <1>12, <1>13 DEF LogInv, ShortMessages

\* Where the log stays as it is.
LEMMA SameLog ==
  ASSUME LogInv, Log' = Log, UNCHANGED <<appended, dropped>>
  PROVE  LogInv'
<1>1. Complete(Log) => Complete(Log)'
  BY DEF Complete, InOrder
<1> QED BY <1>1 DEF LogInv, Numbered, ShortMessages

\* The inductive step.
LEMMA NextLog == Inv /\ FileInv /\ Inv' /\ FileInv' /\ LogInv /\ [Next]_vars => LogInv'
<1> SUFFICES ASSUME Inv, FileInv, Inv', FileInv', LogInv, [Next]_vars PROVE LogInv'
  OBVIOUS
<1>1. ASSUME NEW m \in Messages, append(m) PROVE LogInv'
  BY <1>1, AppendComplete
<1>2. CASE start \/ Started \/ stop \/ Join \/ Clock \/ UNCHANGED vars
  <2>1. UNCHANGED <<sharedVars, localVars, output, historyVars>>
    BY <1>2 DEF start, Started, stop, Join, Clock, vars, fileVars
  <2>2. Log' = Log
    BY <2>1, OtherLog DEF localVars
  <2> QED BY <2>1, <2>2, SameLog DEF historyVars
<1>3. CASE StartLog
  <2>1. BuffersWrite = <<>> /\ written = 0
    BY <1>3 DEF StartLog, FileInv, WrittenInv
  <2>2. BuffersWrite' = <<>> /\ written' = 0 /\ UNCHANGED <<sharedVars, historyVars>>
    BY <1>3 DEF StartLog
  <2>3. Content(output') = Content(output)
    BY <1>3, StartLogFile
  <2>4. Log' = Log
    BY <2>1, <2>2, <2>3, OtherLog
  <2> QED BY <2>2, <2>4, SameLog DEF historyVars
<1>4. CASE While
  <2>1. UNCHANGED <<sharedVars, BuffersWrite, written, historyVars>>
    BY <1>4 DEF While
  <2>2. Content(output') = Content(output)
    BY <1>4, WhileFile
  <2>3. Log' = Log
    BY <2>1, <2>2, OtherLog
  <2> QED BY <2>1, <2>3, SameLog DEF historyVars
<1>5. CASE (Lock \/ Wake) /\ Swap
  <2>1. UNCHANGED <<output, historyVars>> /\ lpc \in {"lock", "wait"}
    BY <1>5 DEF Lock, Wake, fileVars
  <2>2. Log' = Log
    BY <1>5, <2>1, SwapLog
  <2> QED BY <2>1, <2>2, SameLog DEF historyVars
<1>6. CASE Lock /\ ~Swap
  <2>1. UNCHANGED <<sharedVars, localVars, output, historyVars>>
    BY <1>6 DEF Lock, fileVars
  <2>2. Log' = Log
    BY <2>1, OtherLog DEF localVars
  <2> QED BY <2>1, <2>2, SameLog DEF historyVars
<1>7. CASE CutBatch
  BY <1>7, CutComplete
<1>8. CASE WriteBuffer
  <2>1. UNCHANGED historyVars
    BY <1>8 DEF WriteBuffer
  <2> QED BY <1>8, <2>1, WriteLog, SameLog DEF historyVars
<1>9. CASE Recycle
  <2>1. /\ written = Len(BuffersWrite) /\ BuffersWrite' = <<>> /\ written' = 0
        /\ UNCHANGED <<sharedVars, historyVars>> /\ BuffersWrite \in Seq(FixedBuffers)
    BY <1>9 DEF Recycle, Inv, BufferTypes
  <2>2. Content(output') = Content(output)
    BY <1>9, RecycleFile
  <2>3. Contents(SubSeq(BuffersWrite, written + 1, Len(BuffersWrite))) = <<>>
    BY <2>1, UnwrittenFacts
  <2>4. Contents(SubSeq(BuffersWrite, written + 1, Len(BuffersWrite)))' = <<>>
    <3>1. SubSeq(<<>>, 0 + 1, Len(<<>>)) = <<>>
      OBVIOUS
    <3> QED BY <2>1, <3>1, ContentsFacts
  <2>5. Log' = Log
    BY <2>1, <2>2, <2>3, <2>4, OtherLog
  <2> QED BY <2>1, <2>5, SameLog DEF historyVars
<1> QED BY <1>1, <1>2, <1>3, <1>4, <1>5, <1>6, <1>7, <1>8, <1>9 DEF Next, Backend, Wake

\* Nothing has been appended yet.
LEMMA InitLog == Init => LogInv
<1> SUFFICES ASSUME Init PROVE LogInv
  OBVIOUS
<1>0. Inv /\ FileInv
  BY InitInv, InitFile
<1>1. appended = <<>> /\ dropped = {} /\ Numbered
  BY DEF Init, Numbered
<1>2. Log = <<>>
  <2>1. Contents(buffers_) = <<>> /\ Contents(CurrentBuffer_) = <<>>
    BY ContentsFacts, EmptyFacts DEF Init, EmptyBuffer
  <2>2. Unwritten = <<>>
    <3>1. SubSeq(<<>>, 0 + 1, Len(<<>>)) = <<>>
      OBVIOUS
    <3> QED BY <3>1, ContentsFacts DEF Init, Unwritten
  <2>3. Content(output) = <<>>
    <3> DEFINE d == output.disk
    <3>1. d = [t \in 1..MaxTime |-> <<>>] /\ output.stream = <<>>
      BY DEF Init, NoFile
    <3>2. FlattenSeq(d) = <<>>
      <4>1. d \in [1..MaxTime -> Seq(LogPiece)]
        BY <3>1
      <4>2. d \in Seq(Seq(LogPiece)) /\ Len(d) = MaxTime
        BY <4>1, DiskFacts
      <4>3. \A t \in 1..MaxTime : d[t] = <<>>
        BY <3>1
      <4> HIDE DEF d
      <4> DEFINE g == [n \in 0..MaxTime |-> <<>>]
      <4>4. Joins(g, d, LogPiece)
        <5>1. g \in [0..Len(d) -> Seq(LogPiece)] /\ g[0] = <<>>
          BY <4>2, FileConstants
        <5>2. ASSUME NEW n \in 1..Len(d) PROVE g[n] = Cat(g[n - 1], d[n])
          <6>1. g[n] = <<>> /\ g[n - 1] = <<>> /\ d[n] = <<>>
            BY <4>2, <4>3, FileConstants
          <6>2. Cat(<<>>, <<>>) = <<>>
            BY DEF Cat
          <6> QED BY <6>1, <6>2
        <5> QED BY <5>1, <5>2 DEF Joins
      <4>5. g[Len(d)] = <<>>
        BY <4>2, FileConstants
      <4> HIDE DEF g
      <4> QED BY <4>2, <4>4, <4>5, FlattenIs
    <3>3. <<>> \o <<>> = <<>>
      OBVIOUS
    <3> QED BY <3>1, <3>2, <3>3 DEF Content
  <2>4. Said(<<>>) = <<>>
    BY DEF Said
  <2>5. Cat(Cat(Cat(<<>>, <<>>), <<>>), <<>>) = <<>>
    BY DEF Cat
  <2> QED BY <1>0, <2>1, <2>2, <2>3, <2>4, <2>5, LogParts
<1>3. Complete(Log)
  <2>1. ToSet(<<>>) = {} /\ InOrder(<<>>)
    BY SingleFacts
  <2> QED BY <1>1, <1>2, <2>1 DEF Complete
<1> QED BY <1>1, <1>3 DEF LogInv

\* Every message that was not cut from a batch is in the files or in a buffer,
\* in the order of the calls of append, whatever the threads, the clock and
\* the owner do.
THEOREM NothingEverLost == SafeSpec => []NothingLost
<1>1. Init => LogInv
  BY InitLog
<1>2. Inv /\ FileInv /\ Inv' /\ FileInv' /\ LogInv /\ [Next]_vars => LogInv'
  BY NextLog
<1>3. TypeOK /\ LogInv => NothingLost
  BY DEF LogInv, NothingLost, Complete, InOrder, ShortMessages
<1> QED BY <1>1, <1>2, <1>3, Invariance, FileInvariance, TypeCorrect, PTL DEF SafeSpec

-----------------------------------------------------------------------------
(* The formatting of a line, which LogStream defines by recursion.         *)

\* The values of a loop that begins with a and makes st[k][s] of s in its k-th
\* of n passes.
IsRun(g, S, a, n, st) ==
  g \in [0..n -> S] /\ g[0] = a /\ \A k \in 1..n : g[k] = st[k][g[k - 1]]

\* A loop that n times makes a value of the last one has a run: st says what
\* its k-th pass makes.
LEMMA LoopRuns ==
  ASSUME NEW S, NEW a \in S, NEW n \in Nat, NEW st \in [1..n -> [S -> S]]
  PROVE  \E g : IsRun(g, S, a, n, st)
<1> DEFINE Good(m) == \E g \in [0..m -> S] :
                        g[0] = a /\ \A k \in 1..m : g[k] = st[k][g[k - 1]]
           T == {m \in 0..n : ~Good(m)}
<1>1. Good(0)
  <2> DEFINE z == [m \in 0..0 |-> a]
  <2>1. z \in [0..0 -> S] /\ z[0] = a /\ \A k \in 1..0 : z[k] = st[k][z[k - 1]]
    OBVIOUS
  <2> HIDE DEF z
  <2> QED BY <2>1
<1>2. ASSUME NEW m \in 1..n, Good(m - 1) PROVE Good(m)
  <2>1. PICK g \in [0..m - 1 -> S] :
          g[0] = a /\ \A k \in 1..m - 1 : g[k] = st[k][g[k - 1]]
    BY <1>2
  <2> DEFINE h == [k \in 0..m |-> IF k = m THEN st[m][g[m - 1]] ELSE g[k]]
  <2>2. m \in Nat /\ m - 1 \in 0..m - 1
    OBVIOUS
  <2>3. g[m - 1] \in S
    BY <2>1, <2>2
  <2>4. st[m][g[m - 1]] \in S
    BY <2>3
  <2>5. h \in [0..m -> S]
    <3>1. ASSUME NEW k \in 0..m, k # m PROVE g[k] \in S
      <4>1. k \in 0..m - 1
        BY <2>2, <3>1
      <4> QED BY <2>1, <4>1
    <3> QED BY <2>4, <3>1
  <2>6. h[0] = a
    BY <1>2, <2>1
  <2>7. ASSUME NEW k \in 1..m PROVE h[k] = st[k][h[k - 1]]
    <3>1. m - 1 \in 0..m /\ m - 1 # m /\ h[m - 1] = g[m - 1]
      BY <2>2
    <3>2. CASE k = m
      BY <3>1, <3>2
    <3>3. CASE k # m
      <4>1. k \in 1..m - 1 /\ k \in 0..m /\ k - 1 \in 0..m /\ k - 1 # m
        BY <2>2, <3>3
      <4>2. h[k] = g[k] /\ h[k - 1] = g[k - 1]
        BY <3>3, <4>1
      <4> QED BY <2>1, <4>1, <4>2
    <3> QED BY <3>2, <3>3
  <2> HIDE DEF h
  <2> QED BY <2>5, <2>6, <2>7
<1> HIDE DEF Good
<1>3. T = {}
  <2> SUFFICES ASSUME T # {} PROVE FALSE
    OBVIOUS
  <2>1. T \in SUBSET Nat
    OBVIOUS
  <2>2. PICK m \in T : \A k \in T : m <= k
    <3> HIDE DEF T
    <3> QED BY <2>1, LeastNat
  <2>3. m \in 1..n /\ m - 1 \in 0..n
    BY <1>1, <2>2
  <2>4. Good(m - 1)
    BY <2>2, <2>3
  <2> QED BY <1>2, <2>2, <2>3, <2>4
<1>4. Good(n)
  BY <1>3
<1> QED BY <1>4 DEF Good, IsRun

\* An operand asks for more room than it takes.
Operands == {o \in [size : Nat, room : Nat] : o.size < o.room}

\* What operator<< makes of the buffer.
Streams(ops, k, s) ==
  IF Fits(s.cur, ops[k])
  THEN [cur |-> s.cur + ops[k].size, kept |-> s.kept \cup {k}]
  ELSE s

\* Operands that fit leave the last byte of the buffer free, and the last
\* operand of a line is in it, or there was not the room that it asks for.
LEMMA StreamedFacts ==
  ASSUME NEW ops \in Seq(Operands), ops # <<>>
  PROVE  /\ Streamed(ops).cur \in 0..kSmallBuffer - 1
         /\ \/ Len(ops) \in Streamed(ops).kept
            \/ kSmallBuffer - Streamed(ops).cur < ops[Len(ops)].room
<1> DEFINE N == Len(ops)
           S == [cur : 0..kSmallBuffer - 1, kept : SUBSET (1..N)]
           a == [cur |-> 0, kept |-> {}]
           st == [k \in 1..N |-> [s \in S |-> Streams(ops, k, s)]]
           Is(f) == f = [n \in 0..N |->
                          IF n = 0 THEN [cur |-> 0, kept |-> {}]
                          ELSE IF Fits(f[n - 1].cur, ops[n])
                               THEN [cur |-> f[n - 1].cur + ops[n].size, kept |-> f[n - 1].kept \cup {n}]
                               ELSE f[n - 1]]
           f == CHOOSE f : Is(f)
           T == {n \in 0..N : f[n] \notin S}
<1>0. N \in Nat /\ N > 0 /\ kSmallBuffer \in Nat \ {0} /\ \A k \in 1..N : ops[k] \in Operands
  BY StreamAssumption, EmptySeq
<1>1. a \in S
  BY <1>0
<1>2. ASSUME NEW k \in 1..N, NEW s \in S PROVE Streams(ops, k, s) \in S
  <2>1. ops[k].size \in Nat /\ ops[k].room \in Nat /\ ops[k].size < ops[k].room
    BY <1>0 DEF Operands
  <2>2. s.cur \in 0..kSmallBuffer - 1 /\ s.kept \in SUBSET (1..N)
    OBVIOUS
  <2>3. CASE Fits(s.cur, ops[k])
    <3>1. s.cur + ops[k].size \in 0..kSmallBuffer - 1
      BY <1>0, <2>1, <2>2, <2>3 DEF Fits
    <3> QED BY <2>2, <2>3, <3>1 DEF Streams
  <2>4. CASE ~Fits(s.cur, ops[k])
    BY <2>4 DEF Streams
  <2> QED BY <2>3, <2>4
<1>3. st \in [1..N -> [S -> S]]
  <2> HIDE DEF S
  <2> QED BY <1>2
<1>4. \E g : Is(g)
  <2>0. N \in Nat
    BY <1>0
  <2>00. PICK g : IsRun(g, S, a, N, st)
    <3> HIDE DEF S, a, st, N
    <3> QED BY <1>1, <1>3, <2>0, LoopRuns
  <2>1. g \in [0..N -> S] /\ g[0] = a /\ \A k \in 1..N : g[k] = st[k][g[k - 1]]
    <3> HIDE DEF S, a, st, N
    <3> QED BY <2>00 DEF IsRun
  <2>2. \A k \in 1..N : k - 1 \in 0..N /\ g[k - 1] \in S
    <3> HIDE DEF S
    <3> QED BY <1>0, <2>1
  <2>3. \A k \in 1..N : g[k] = Streams(ops, k, g[k - 1])
    <3>1. ASSUME NEW k \in 1..N PROVE st[k][g[k - 1]] = Streams(ops, k, g[k - 1])
      <4>1. g[k - 1] \in S
        BY <2>2
      <4> HIDE DEF S, N
      <4> QED BY <4>1
    <3> QED BY <2>1, <3>1
  <2>4. g = [n \in 0..N |-> g[n]]
    <3> HIDE DEF S
    <3> QED BY <2>1
  <2>5. \A n \in 0..N : n # 0 => n \in 1..N
    BY <1>0
  <2>6. Is(g)
    <3> HIDE DEF S, st, N
    <3> QED BY <2>1, <2>3, <2>4, <2>5 DEF Streams
  <2> QED BY <2>6
<1>5. Is(f)
  <2> HIDE DEF Is
  <2> QED BY <1>4
<1>6. Streamed(ops) = f[N]
  BY DEF Streamed
<1> HIDE DEF f
<1>7. f[0] = a /\ \A n \in 1..N : f[n] = Streams(ops, n, f[n - 1])
  <2>1. 0 \in 0..N /\ \A n \in 1..N : n \in 0..N /\ n # 0
    BY <1>0
  <2>2. \A n \in 0..N : f[n] = IF n = 0 THEN a ELSE Streams(ops, n, f[n - 1])
    <3> HIDE DEF N
    <3> QED BY <1>5 DEF Streams
  <2> QED BY <2>1, <2>2
<1>8. T = {}
  <2> SUFFICES ASSUME T # {} PROVE FALSE
    OBVIOUS
  <2>1. T \in SUBSET Nat
    OBVIOUS
  <2>2. PICK m \in T : \A k \in T : m <= k
    <3> HIDE DEF T
    <3> QED BY <2>1, LeastNat
  <2>3. m # 0
    <3> HIDE DEF S, a
    <3> QED BY <1>1, <1>7, <2>2
  <2>4. m \in 1..N /\ m - 1 \in 0..N
    BY <1>0, <2>2, <2>3
  <2>5. f[m - 1] \in S
    <3>1. m - 1 \notin T
      <4>1. m \in Nat
        BY <2>1, <2>2
      <4> HIDE DEF T
      <4> QED BY <2>2, <4>1
    <3> QED BY <2>4, <3>1
  <2> HIDE DEF S
  <2> QED BY <1>2, <1>7, <2>2, <2>4, <2>5
<1>9. f[N] \in S /\ f[N - 1] \in S /\ f[N] = Streams(ops, N, f[N - 1]) /\ ops[N] \in Operands
  <2>1. N \in 0..N /\ N - 1 \in 0..N /\ N \in 1..N
    BY <1>0
  <2> HIDE DEF S
  <2> QED BY <1>0, <1>7, <1>8, <2>1
<1>10. CASE Fits(f[N - 1].cur, ops[N])
  <2>1. N \in f[N].kept
    BY <1>9, <1>10 DEF Streams
  <2> QED BY <1>6, <1>9, <2>1
<1>11. CASE ~Fits(f[N - 1].cur, ops[N])
  <2>1. f[N] = f[N - 1]
    BY <1>9, <1>11 DEF Streams
  <2>2. kSmallBuffer - f[N].cur < ops[N].room
    BY <1>0, <1>9, <1>11, <2>1 DEF Fits, Operands
  <2> QED BY <1>6, <1>9, <2>2
<1> QED BY <1>10, <1>11

-----------------------------------------------------------------------------
(* The digits of a number.                                                 *)

\* f has, for each number up to n, the remainders that convert meets on it.
IsDigits(f, n, sign) ==
  /\ f \in [0..n -> Seq(Int)]
  /\ \A i \in 0..n : f[i] = <<sign * (i % 10)>> \o (IF i < 10 THEN <<>> ELSE f[i \div 10])

\* A number's last digit and the number before it.
LEMMA TenFacts ==
  ASSUME NEW i \in Nat
  PROVE  /\ i % 10 \in 0..9 /\ i \div 10 \in Nat /\ i = 10 * (i \div 10) + (i % 10)
         /\ i >= 10 => i \div 10 < i /\ i \div 10 >= 1
         /\ i < 10 => i % 10 = i
<1>1. i % 10 \in 0..9
  OBVIOUS
<1>2. i \div 10 \in Int
  OBVIOUS
<1>3. i = 10 * (i \div 10) + (i % 10)
  OBVIOUS
<1> QED BY <1>1, <1>2, <1>3

\* The remainders of a number are made of those of a smaller one.
LEMMA DigitsExist ==
  ASSUME NEW n \in Nat, NEW sign \in Int
  PROVE  \E f : IsDigits(f, n, sign)
<1> DEFINE Good(m) == \E f : IsDigits(f, m, sign)
           T == {m \in Nat : ~Good(m)}
<1>1. Good(0)
  <2> DEFINE z == [i \in 0..0 |-> <<sign * 0>>]
  <2>1. z \in [0..0 -> Seq(Int)]
    OBVIOUS
  <2>2. 0 % 10 = 0 /\ 0 < 10
    BY TenFacts
  <2>3. <<sign * 0>> \in Seq(Int) /\ <<sign * 0>> \o <<>> = <<sign * 0>>
    BY ConcatEmptySeq
  <2>4. \A i \in 0..0 : i = 0
    OBVIOUS
  <2>5. IsDigits(z, 0, sign)
    BY <2>1, <2>2, <2>3, <2>4 DEF IsDigits
  <2> QED BY <2>5
<1>2. ASSUME NEW m \in Nat, m > 0, Good(m - 1) PROVE Good(m)
  <2>1. PICK f : IsDigits(f, m - 1, sign)
    BY <1>2
  <2>2. f \in [0..m - 1 -> Seq(Int)]
        /\ \A i \in 0..m - 1 : f[i] = <<sign * (i % 10)>> \o (IF i < 10 THEN <<>> ELSE f[i \div 10])
    BY <2>1 DEF IsDigits
  <2> DEFINE last == <<sign * (m % 10)>> \o (IF m < 10 THEN <<>> ELSE f[m \div 10])
             h == [i \in 0..m |-> IF i = m THEN last ELSE f[i]]
  <2>3. ASSUME NEW i \in 0..m, i >= 10 PROVE i \div 10 \in 0..m - 1
    BY <1>2, <2>3, TenFacts
  <2>4. last \in Seq(Int)
    <3>1. sign * (m % 10) \in Int
      BY TenFacts
    <3>2. m >= 10 => f[m \div 10] \in Seq(Int)
      BY <2>2, <2>3
    <3>3. (IF m < 10 THEN <<>> ELSE f[m \div 10]) \in Seq(Int)
      BY <3>2
    <3> QED BY <3>1, <3>3
  <2> HIDE DEF last
  <2>5. \A i \in 0..m : i # m => i \in 0..m - 1
    OBVIOUS
  <2>6. h \in [0..m -> Seq(Int)]
    BY <2>2, <2>4, <2>5
  <2>7. ASSUME NEW i \in 0..m
        PROVE  h[i] = <<sign * (i % 10)>> \o (IF i < 10 THEN <<>> ELSE h[i \div 10])
    <3>1. i >= 10 => h[i \div 10] = f[i \div 10]
      <4> SUFFICES ASSUME i >= 10 PROVE h[i \div 10] = f[i \div 10]
        OBVIOUS
      <4>1. i \div 10 \in 0..m - 1 /\ i \div 10 \in 0..m /\ i \div 10 # m
        BY <2>3
      <4> QED BY <4>1
    <3>2. h[i] = IF i = m THEN last ELSE f[i]
      OBVIOUS
    <3> HIDE DEF h
    <3>3. CASE i = m
      <4>1. (IF i < 10 THEN <<>> ELSE h[i \div 10]) = (IF m < 10 THEN <<>> ELSE f[m \div 10])
        BY <3>1, <3>3
      <4> QED BY <3>2, <3>3, <4>1 DEF last
    <3>4. CASE i # m
      <4>1. (IF i < 10 THEN <<>> ELSE h[i \div 10]) = (IF i < 10 THEN <<>> ELSE f[i \div 10])
        BY <3>1
      <4> QED BY <2>2, <2>5, <3>2, <3>4, <4>1
    <3> QED BY <3>3, <3>4
  <2> HIDE DEF h
  <2>8. IsDigits(h, m, sign)
    BY <2>6, <2>7 DEF IsDigits
  <2> QED BY <2>8
<1> HIDE DEF Good
<1>3. T = {}
  <2> SUFFICES ASSUME T # {} PROVE FALSE
    OBVIOUS
  <2>1. T \in SUBSET Nat
    OBVIOUS
  <2>2. PICK m \in T : \A k \in T : m <= k
    <3> HIDE DEF T
    <3> QED BY <2>1, LeastNat
  <2>3. m \in Nat /\ m > 0 /\ m - 1 \in Nat
    BY <1>1, <2>2
  <2>4. Good(m - 1)
    BY <2>2, <2>3
  <2> QED BY <1>2, <2>2, <2>3, <2>4
<1> QED BY <1>3 DEF Good

\* Two such functions agree where both are defined.
LEMMA DigitsUnique ==
  ASSUME NEW n \in Nat, NEW m \in Nat, NEW sign \in Int, NEW f, NEW g,
         IsDigits(f, n, sign), IsDigits(g, m, sign)
  PROVE  \A i \in Nat : i <= n /\ i <= m => f[i] = g[i]
<1> DEFINE T == {i \in Nat : i <= n /\ i <= m /\ f[i] # g[i]}
<1> SUFFICES ASSUME T # {} PROVE FALSE
  OBVIOUS
<1>1. T \in SUBSET Nat
  OBVIOUS
<1>2. PICK i \in T : \A k \in T : i <= k
  <2> HIDE DEF T
  <2> QED BY <1>1, LeastNat
<1>3. i \in Nat /\ i \in 0..n /\ i \in 0..m /\ f[i] # g[i]
  BY <1>2
<1>4. i >= 10 => f[i \div 10] = g[i \div 10]
  <2> SUFFICES ASSUME i >= 10 PROVE f[i \div 10] = g[i \div 10]
    OBVIOUS
  <2>1. i \div 10 \in Nat /\ i \div 10 < i
    BY <1>3, TenFacts
  <2>2. i \div 10 \notin T
    <3> HIDE DEF T
    <3> QED BY <1>2, <1>3, <2>1
  <2> QED BY <1>3, <2>1, <2>2
<1> DEFINE fr == IF i < 10 THEN <<>> ELSE f[i \div 10]
           gr == IF i < 10 THEN <<>> ELSE g[i \div 10]
<1>5. fr = gr
  BY <1>3, <1>4
<1>6. f[i] = <<sign * (i % 10)>> \o fr /\ g[i] = <<sign * (i % 10)>> \o gr
  BY <1>3 DEF IsDigits
<1> HIDE DEF fr, gr
<1> QED BY <1>3, <1>5, <1>6

\* A number as the loop of convert sees it.
Sign(v) == IF v < 0 THEN -1 ELSE 1
Size(v) == IF v < 0 THEN -v ELSE v

\* The loop of convert meets these remainders.
LEMMA RemaindersIs ==
  ASSUME NEW v \in Int, NEW f, IsDigits(f, Size(v), Sign(v))
  PROVE  Remainders(v) = f[Size(v)]
<1> DEFINE n == Size(v)
           sign == Sign(v)
           Is(g) == g = [i \in 0..n |-> <<sign * (i % 10)>> \o (IF i < 10 THEN <<>> ELSE g[i \div 10])]
           g == CHOOSE g : Is(g)
           T == {i \in 0..n : g[i] # f[i]}
<1>0. n \in Nat
  BY DEF Size
<1>1. Is(f)
  <2> HIDE DEF n, sign
  <2>1. f \in [0..n -> Seq(Int)]
        /\ \A i \in 0..n : f[i] = <<sign * (i % 10)>> \o (IF i < 10 THEN <<>> ELSE f[i \div 10])
    BY DEF IsDigits, n, sign
  <2>2. f = [i \in 0..n |-> f[i]]
    BY <2>1
  <2> QED BY <2>1, <2>2
<1>2. Is(g)
  <2> HIDE DEF Is
  <2> QED BY <1>1
<1>3. Remainders(v) = g[n]
  BY DEF Remainders, Size, Sign
<1> HIDE DEF g
<1>4. \A i \in 0..n : g[i] = <<sign * (i % 10)>> \o (IF i < 10 THEN <<>> ELSE g[i \div 10])
  <2> HIDE DEF n, sign
  <2> QED BY <1>2
<1>5. T = {}
  <2> SUFFICES ASSUME T # {} PROVE FALSE
    OBVIOUS
  <2>1. T \in SUBSET Nat
    OBVIOUS
  <2>2. PICK i \in T : \A k \in T : i <= k
    <3> HIDE DEF T
    <3> QED BY <2>1, LeastNat
  <2>3. i \in Nat /\ i \in 0..n /\ g[i] # f[i]
    BY <2>2
  <2>4. i >= 10 => f[i \div 10] = g[i \div 10]
    <3> SUFFICES ASSUME i >= 10 PROVE f[i \div 10] = g[i \div 10]
      OBVIOUS
    <3>1. i \div 10 \in Nat /\ i \div 10 < i
      BY <2>3, TenFacts
    <3>2. i \div 10 \notin T
      <4> HIDE DEF T
      <4> QED BY <2>2, <2>3, <3>1
    <3>3. i \div 10 \in 0..n
      BY <1>0, <2>3, <3>1
    <3> QED BY <3>2, <3>3
  <2> DEFINE fr == IF i < 10 THEN <<>> ELSE f[i \div 10]
             gr == IF i < 10 THEN <<>> ELSE g[i \div 10]
  <2>5. fr = gr
    BY <2>3, <2>4
  <2> HIDE DEF n, sign
  <2>6. f[i] = <<sign * (i % 10)>> \o fr
    BY <2>3 DEF IsDigits, n, sign
  <2>7. g[i] = <<sign * (i % 10)>> \o gr
    BY <1>4, <2>3
  <2> HIDE DEF fr, gr
  <2> QED BY <2>3, <2>5, <2>6, <2>7
<1>6. n \in 0..n
  BY <1>0
<1> QED BY <1>3, <1>5, <1>6

\* convert goes on with the number before the last digit.
LEMMA RemaindersFacts ==
  ASSUME NEW v \in Int
  PROVE  /\ Remainders(v) \in Seq(Int)
         /\ Remainders(v) = <<Sign(v) * (Size(v) % 10)>>
                              \o (IF Size(v) < 10 THEN <<>> ELSE Remainders(Sign(v) * (Size(v) \div 10)))
<1> DEFINE n == Size(v)
           w == Sign(v) * (n \div 10)
<1>0. n \in Nat /\ Sign(v) \in Int
  BY DEF Size, Sign
<1>1. PICK f : IsDigits(f, n, Sign(v))
  <2> HIDE DEF n
  <2> QED BY <1>0, DigitsExist
<1>2. n \in 0..n /\ Remainders(v) = f[n]
  BY <1>0, <1>1, RemaindersIs
<1>3. ASSUME n >= 10 PROVE Remainders(w) = f[n \div 10]
  <2>1. n \div 10 \in Nat /\ n \div 10 < n /\ n \div 10 >= 1
    BY <1>0, <1>3, TenFacts
  <2>2. w \in Int /\ Sign(w) = Sign(v) /\ Size(w) = n \div 10
    <3> HIDE DEF n
    <3> QED BY <2>1 DEF Sign, Size
  <2>3. PICK g : IsDigits(g, n \div 10, Sign(v))
    <3> HIDE DEF n
    <3> QED BY <1>0, <2>1, DigitsExist
  <2>4. Remainders(w) = g[n \div 10]
    <3> HIDE DEF n, w
    <3>1. IsDigits(g, Size(w), Sign(w))
      BY <2>2, <2>3
    <3> QED BY <2>2, <3>1, RemaindersIs
  <2>5. f[n \div 10] = g[n \div 10]
    <3> HIDE DEF n, w
    <3> QED BY <1>0, <1>1, <2>1, <2>3, DigitsUnique
  <2> QED BY <2>4, <2>5
<1>4. f[n] \in Seq(Int) /\ f[n] = <<Sign(v) * (n % 10)>> \o (IF n < 10 THEN <<>> ELSE f[n \div 10])
  <2> HIDE DEF n
  <2> QED BY <1>1, <1>2 DEF IsDigits
<1>5. (IF n < 10 THEN <<>> ELSE f[n \div 10]) = (IF n < 10 THEN <<>> ELSE Remainders(w))
  <2> HIDE DEF n, w
  <2> QED BY <1>0, <1>3
<1> HIDE DEF n, w
<1> QED BY <1>2, <1>4, <1>5 DEF n, w

\* g reads the digits c from the left.
IsValue(g, c) ==
  /\ g \in [0..Len(c) -> Int] /\ g[0] = 0
  /\ \A k \in 1..Len(c) : g[k] = 10 * g[k - 1] + c[k]

\* a and b begin with the same n characters.
Agree(a, b, n) == \A k \in 1..n : a[k] = b[k]

\* A digit is written before the others and comes to stand behind them.
LEMMA ConsFacts ==
  ASSUME NEW d \in Int, NEW r \in Seq(Int), NEW s, s = <<d>> \o r
  PROVE  /\ s \in Seq(Int) /\ Len(s) = Len(r) + 1 /\ Len(r) \in Nat /\ s[1] = d
         /\ \A k \in 1..Len(r) : s[k + 1] = r[k]
         /\ Reverse(s) \in Seq(Int) /\ Len(Reverse(s)) = Len(s)
         /\ Reverse(r) \in Seq(Int) /\ Len(Reverse(r)) = Len(r)
         /\ Agree(Reverse(s), Reverse(r), Len(r))
         /\ Reverse(s)[Len(s)] = d
<1>1. s \in Seq(Int) /\ Len(s) = Len(r) + 1 /\ Len(r) \in Nat /\ s[1] = d
  OBVIOUS
<1>2. ASSUME NEW k \in 1..Len(r) PROVE s[k + 1] = r[k]
  OBVIOUS
<1>3. ASSUME NEW q \in Seq(Int) PROVE Reverse(q) \in Seq(Int) /\ Len(Reverse(q)) = Len(q)
                                      /\ \A k \in 1..Len(q) : Reverse(q)[k] = q[(Len(q) - k) + 1]
  <2>1. Reverse(q) = [k \in 1..Len(q) |-> q[(Len(q) - k) + 1]]
    BY DEF Reverse
  <2>2. Len(q) \in Nat /\ \A k \in 1..Len(q) : q[(Len(q) - k) + 1] \in Int
    OBVIOUS
  <2> QED BY <2>1, <2>2
<1>4. ASSUME NEW k \in 1..Len(r) PROVE Reverse(s)[k] = Reverse(r)[k]
  <2>1. k \in 1..Len(s) /\ (Len(r) - k) + 1 \in 1..Len(r) /\ (Len(s) - k) + 1 = ((Len(r) - k) + 1) + 1
    BY <1>1
  <2>2. Reverse(s)[k] = s[((Len(r) - k) + 1) + 1]
    BY <1>1, <1>3, <2>1
  <2>3. s[((Len(r) - k) + 1) + 1] = r[(Len(r) - k) + 1]
    BY <1>2, <2>1
  <2> QED BY <1>3, <2>2, <2>3
<1>5. Reverse(s)[Len(s)] = d
  <2>1. Len(s) \in 1..Len(s) /\ (Len(s) - Len(s)) + 1 = 1
    BY <1>1
  <2> QED BY <1>1, <1>3, <2>1
<1>6. Reverse(s) \in Seq(Int) /\ Len(Reverse(s)) = Len(s)
  BY <1>1, <1>3
<1>7. Reverse(r) \in Seq(Int) /\ Len(Reverse(r)) = Len(r)
  BY <1>3
<1> QED BY <1>1, <1>2, <1>4, <1>5, <1>6, <1>7 DEF Agree

\* The digits of v, and the remainders of -v, which are their negatives.
Digits(v) ==
  LET r == Remainders(v)
  IN  /\ Len(r) \in Nat \ {0} /\ \A k \in 1..Len(r) : r[k] \in 0..9
      /\ r[Len(r)] = 0 => v = 0
      /\ \E g : IsValue(g, Reverse(r)) /\ g[Len(r)] = v
      /\ Len(Remainders(-v)) = Len(r)
      /\ \A k \in 1..Len(r) : Remainders(-v)[k] = -r[k]

\* A number below ten is its own digit: the loop of convert is passed once.
LEMMA OneDigit == ASSUME NEW v \in 0..9 PROVE Digits(v)
<1> DEFINE r == Remainders(v)
           q == Remainders(-v)
<1>1. v \in Int /\ -v \in Int /\ Size(v) = v /\ Sign(v) = 1 /\ Size(-v) = v /\ v % 10 = v
  BY TenFacts DEF Size, Sign
<1>2. r = <<v>> \o <<>> /\ r = <<v>>
  <2>1. r = <<1 * (v % 10)>> \o (IF v < 10 THEN <<>> ELSE Remainders(Sign(v) * (Size(v) \div 10)))
    BY <1>1, RemaindersFacts
  <2>2. v < 10 /\ 1 * (v % 10) = v
    BY <1>1
  <2>3. r = <<v>> \o <<>>
    BY <2>1, <2>2
  <2> QED BY <2>3
<1>3. q = <<-v>>
  <2>1. q = <<Sign(-v) * (v % 10)>> \o (IF v < 10 THEN <<>> ELSE Remainders(Sign(-v) * (Size(-v) \div 10)))
    BY <1>1, RemaindersFacts
  <2>2. v < 10 /\ Sign(-v) * (v % 10) = -v
    BY <1>1 DEF Sign
  <2>3. q = <<-v>> \o <<>>
    BY <2>1, <2>2
  <2> QED BY <2>3
<1> HIDE DEF r, q
<1> DEFINE g == [k \in 0..1 |-> IF k = 0 THEN 0 ELSE v]
<1>4. Len(r) = 1 /\ r[1] = v /\ Len(q) = 1 /\ q[1] = -v
  BY <1>2, <1>3
<1>5. Len(Reverse(r)) = 1 /\ Reverse(r)[1] = v
  <2>1. Reverse(r) = [k \in 1..1 |-> r[(1 - k) + 1]]
    BY <1>4 DEF Reverse
  <2>2. \A k \in 1..1 : r[(1 - k) + 1] \in Int
    BY <1>1, <1>4
  <2>3. Reverse(r) \in Seq(Int) /\ Len(Reverse(r)) = 1
    BY <2>1, <2>2
  <2> QED BY <1>4, <2>1, <2>3
<1>6. IsValue(g, Reverse(r)) /\ g[Len(r)] = v
  BY <1>4, <1>5 DEF IsValue
<1> HIDE DEF g
<1> QED BY <1>4, <1>6 DEF Digits, r, q

\* If convert gets the number before the last digit right, then also this one:
\* it takes one pass more.
LEMMA MoreDigits == ASSUME NEW v \in Nat, v >= 10, Digits(v \div 10) PROVE Digits(v)
<1> DEFINE w == v \div 10
           d == v % 10
           r == Remainders(v)
           q == Remainders(-v)
           rw == Remainders(w)
           qw == Remainders(-w)
<1>1. w \in Nat /\ w >= 1 /\ d \in 0..9 /\ v = 10 * w + d
  BY TenFacts
<1>2. Size(v) = v /\ Sign(v) = 1 /\ Size(-v) = v /\ Sign(-v) = -1
  BY DEF Size, Sign
<1>3. r = <<d>> \o rw
  <2>1. r = <<Sign(v) * (Size(v) % 10)>>
              \o (IF Size(v) < 10 THEN <<>> ELSE Remainders(Sign(v) * (Size(v) \div 10)))
    BY RemaindersFacts
  <2>2. r = <<Sign(v) * (v % 10)>> \o (IF v < 10 THEN <<>> ELSE Remainders(Sign(v) * w))
    BY <1>2, <2>1
  <2>3. ~(v < 10) /\ Sign(v) * (v % 10) = d /\ Sign(v) * w = w
    <3> HIDE DEF w
    <3> QED BY <1>1, <1>2
  <2> HIDE DEF r, w, d
  <2> QED BY <2>2, <2>3
<1>4. q = <<-d>> \o qw
  <2>1. q = <<Sign(-v) * (Size(-v) % 10)>>
              \o (IF Size(-v) < 10 THEN <<>> ELSE Remainders(Sign(-v) * (Size(-v) \div 10)))
    BY RemaindersFacts
  <2>2. q = <<Sign(-v) * (v % 10)>> \o (IF v < 10 THEN <<>> ELSE Remainders(Sign(-v) * w))
    BY <1>2, <2>1
  <2>3. ~(v < 10) /\ Sign(-v) * (v % 10) = -d /\ Sign(-v) * w = -w
    <3> HIDE DEF w
    <3> QED BY <1>1, <1>2
  <2> HIDE DEF q, w, d
  <2> QED BY <2>2, <2>3
<1>5. /\ Len(rw) \in Nat \ {0} /\ \A k \in 1..Len(rw) : rw[k] \in 0..9
      /\ rw[Len(rw)] = 0 => w = 0
      /\ \E g : IsValue(g, Reverse(rw)) /\ g[Len(rw)] = w
      /\ Len(qw) = Len(rw)
      /\ \A k \in 1..Len(rw) : qw[k] = -rw[k]
  BY DEF Digits
<1>6. rw \in Seq(Int) /\ qw \in Seq(Int)
  <2>1. w \in Int /\ -w \in Int
    <3> HIDE DEF w
    <3> QED BY <1>1
  <2> HIDE DEF w
  <2> QED BY <2>1, RemaindersFacts
<1> DEFINE n == Len(rw)
           c == Reverse(r)
           cw == Reverse(rw)
<1>7. d \in Int /\ -d \in Int /\ v \in Int
  BY <1>1
<1> HIDE DEF w, d, r, q, rw, qw
<1>8. /\ Len(r) = n + 1 /\ r[1] = d /\ \A k \in 1..n : r[k + 1] = rw[k]
      /\ Len(c) = n + 1 /\ Len(cw) = n /\ c[n + 1] = d /\ \A k \in 1..n : c[k] = cw[k]
      /\ cw \in Seq(Int)
  <2>1. rw \in Seq(Int) /\ d \in Int
    BY <1>6, <1>7
  <2> HIDE DEF n, c, cw
  <2>2. Len(r) = Len(rw) + 1 /\ r[1] = d /\ \A k \in 1..Len(rw) : r[k + 1] = rw[k]
    BY <1>3, <2>1, ConsFacts
  <2>3. Len(Reverse(r)) = Len(r) /\ Reverse(r)[Len(r)] = d
    BY <1>3, <2>1, ConsFacts
  <2>4. Reverse(rw) \in Seq(Int) /\ Len(Reverse(rw)) = Len(rw)
    BY <1>3, <2>1, ConsFacts
  <2>5. Agree(Reverse(r), Reverse(rw), Len(rw))
    BY <1>3, <2>1, ConsFacts
  <2> QED BY <2>2, <2>3, <2>4, <2>5 DEF n, c, cw, Agree
<1>9. Len(q) = n + 1 /\ q[1] = -d /\ \A k \in 1..n : q[k + 1] = qw[k]
  BY <1>4, <1>5, <1>6, <1>7, ConsFacts
<1> HIDE DEF n, c, cw
<1>10. n \in Nat \ {0} /\ \A k \in 1..n + 1 : k = 1 \/ (k - 1 \in 1..n /\ k = (k - 1) + 1)
  BY <1>5 DEF n
<1>11. ASSUME NEW k \in 1..n + 1 PROVE r[k] \in 0..9 /\ q[k] = -r[k]
  <2>1. CASE k = 1
    BY <1>1, <1>8, <1>9, <2>1
  <2>2. CASE k - 1 \in 1..n /\ k = (k - 1) + 1
    <3>1. r[k] = rw[k - 1] /\ q[k] = qw[k - 1]
      BY <1>8, <1>9, <2>2
    <3> QED BY <1>5, <2>2, <3>1 DEF n
  <2> QED BY <1>10, <2>1, <2>2
<1>12. r[n + 1] # 0
  <2>1. n \in 1..n
    BY <1>10
  <2>2. r[n + 1] = rw[n]
    BY <1>8, <2>1
  <2> QED BY <1>1, <1>5, <2>2 DEF n
<1>13. PICK gw : IsValue(gw, cw) /\ gw[n] = w
  BY <1>5 DEF cw, n
<1>14. gw \in [0..n -> Int] /\ gw[0] = 0 /\ \A k \in 1..n : gw[k] = 10 * gw[k - 1] + cw[k]
  BY <1>8, <1>13 DEF IsValue
<1> DEFINE g == [k \in 0..n + 1 |-> IF k = n + 1 THEN v ELSE gw[k]]
<1>15. IsValue(g, c) /\ g[n + 1] = v
  <2>1. g \in [0..n + 1 -> Int]
    <3>1. \A k \in 0..n + 1 : k # n + 1 => k \in 0..n
      BY <1>10
    <3> QED BY <1>7, <1>14, <3>1
  <2>2. g[0] = 0 /\ g[n + 1] = v
    BY <1>10, <1>14
  <2>3. ASSUME NEW k \in 1..n + 1 PROVE g[k] = 10 * g[k - 1] + c[k]
    <3>1. CASE k = n + 1
      <4>1. k - 1 = n /\ n \in 0..n + 1 /\ n # n + 1
        BY <1>10, <3>1
      <4>2. g[k - 1] = w
        BY <1>13, <4>1
      <4> QED BY <1>1, <1>8, <2>2, <3>1, <4>2
    <3>2. CASE k # n + 1
      <4>1. k \in 1..n /\ k \in 0..n + 1 /\ k - 1 \in 0..n + 1 /\ k - 1 # n + 1
        BY <1>10, <3>2
      <4>2. g[k] = gw[k] /\ g[k - 1] = gw[k - 1]
        BY <3>2, <4>1
      <4> HIDE DEF g
      <4> QED BY <1>8, <1>14, <4>1, <4>2
    <3> QED BY <3>1, <3>2
  <2> HIDE DEF g
  <2> QED BY <1>8, <2>1, <2>2, <2>3 DEF IsValue
<1> HIDE DEF g
<1>16. Len(r) = n + 1 /\ Len(r) \in Nat \ {0} /\ Len(q) = n + 1
  BY <1>8, <1>9, <1>10
<1>17. \E h : IsValue(h, Reverse(r)) /\ h[Len(r)] = v
  BY <1>15, <1>16 DEF c
<1> QED BY <1>11, <1>12, <1>16, <1>17 DEF Digits, r, q

\* convert gets the digits of every number right: there is no least one for
\* which it does not.
LEMMA AllDigits == \A v \in Nat : Digits(v)
<1> DEFINE T == {v \in Nat : ~Digits(v)}
<1> SUFFICES ASSUME T # {} PROVE FALSE
  OBVIOUS
<1>1. T \in SUBSET Nat
  OBVIOUS
<1>2. PICK v \in T : \A k \in T : v <= k
  <2> HIDE DEF T
  <2> QED BY <1>1, LeastNat
<1>3. v \in Nat /\ ~Digits(v) /\ v >= 10
  <2>1. v \in Nat /\ ~Digits(v)
    BY <1>2
  <2> QED BY <2>1, OneDigit
<1>4. v \div 10 \in Nat /\ v \div 10 < v
  BY <1>3, TenFacts
<1>5. v \div 10 \notin T
  <2> HIDE DEF T
  <2> QED BY <1>2, <1>3, <1>4
<1> QED BY <1>3, <1>4, <1>5, MoreDigits

\* The end of a line that is put together from two parts.
LEMMA ConcatEnd ==
  ASSUME NEW a \in Seq(Operands), NEW b \in Seq(Operands), Len(b) > 0, NEW s, s = a \o b
  PROVE  /\ s \in Seq(Operands) /\ Len(s) = Len(a) + Len(b)
         /\ s[Len(s)] = b[Len(b)]
<1>1. Len(a) \in Nat /\ Len(b) \in Nat
  OBVIOUS
<1>2. s \in Seq(Operands) /\ Len(s) = Len(a) + Len(b)
  OBVIOUS
<1>3. Len(s) \in Len(a) + 1..Len(a) + Len(b) /\ Len(s) - Len(a) = Len(b)
  BY <1>1, <1>2
<1> QED BY <1>2, <1>3

\* A sequence from its end.
LEMMA ReverseFacts ==
  ASSUME NEW S, NEW q \in Seq(S)
  PROVE  /\ Reverse(q) \in Seq(S) /\ Len(Reverse(q)) = Len(q) /\ Len(q) \in Nat
         /\ \A k \in 1..Len(q) : Reverse(q)[k] = q[(Len(q) - k) + 1]
<1>1. Reverse(q) = [k \in 1..Len(q) |-> q[(Len(q) - k) + 1]]
  BY DEF Reverse
<1>2. Len(q) \in Nat /\ \A k \in 1..Len(q) : q[(Len(q) - k) + 1] \in S
  OBVIOUS
<1> QED BY <1>1, <1>2

\* A number that is not negative is written with its digits.
LEMMA ConvertPlain == ASSUME NEW v \in Nat PROVE convert(v) = Reverse(Remainders(v))
<1> DEFINE r == Remainders(v)
           chars == [k \in DOMAIN r |-> CharOf(r[k])]
<1>1. r \in Seq(Int) /\ \A k \in 1..Len(r) : r[k] \in 0..9
  <2>1. v \in Int /\ Digits(v)
    BY AllDigits
  <2>2. r \in Seq(Int)
    BY <2>1, RemaindersFacts
  <2> QED BY <2>1, <2>2 DEF Digits
<1>2. chars = r
  <2> HIDE DEF r
  <2>1. r = [k \in 1..Len(r) |-> r[k]] /\ DOMAIN r = 1..Len(r)
    BY <1>1
  <2>2. \A k \in 1..Len(r) : CharOf(r[k]) = r[k]
    <3>1. \A t \in 0..9 : CharOf(t) = t
      BY DEF CharOf
    <3> QED BY <1>1, <3>1
  <2> QED BY <2>1, <2>2
<1>3. convert(v) = Reverse(chars)
  BY DEF convert, Loop
<1> QED BY <1>2, <1>3

\* Of a negative number the digits that are not 0 come from before the array.
LEMMA ConvertMinus ==
  ASSUME NEW n \in Nat, n > 0
  PROVE  /\ convert(-n)[1] = Minus /\ Len(convert(-n)) = Len(convert(n)) + 1
         /\ Len(convert(n)) \in Nat
         /\ \A k \in 2..Len(convert(-n)) :
              convert(-n)[k] = IF convert(n)[k - 1] = 0 THEN 0 ELSE Outside
<1> DEFINE r == Remainders(n)
           q == Remainders(-n)
           chars == [k \in DOMAIN q |-> CharOf(q[k])]
           all == Append(chars, Minus)
           N == Len(r)
<1>1. -n \in Int /\ n \in Int /\ -n < 0
  OBVIOUS
<1>2. /\ r \in Seq(Int) /\ q \in Seq(Int) /\ Len(q) = N /\ N \in Nat
      /\ \A k \in 1..N : r[k] \in 0..9 /\ q[k] = -r[k]
  BY <1>1, RemaindersFacts, AllDigits DEF Digits
<1>3. convert(-n) = Reverse(all) /\ convert(n) = Reverse(r)
  BY <1>1, ConvertPlain DEF convert, Loop
<1> HIDE DEF r, q
<1>4. DOMAIN q = 1..N
  BY <1>2
<1>5. chars \in Seq(Int) /\ Len(chars) = N
  BY <1>2, <1>4 DEF CharOf, Outside
<1>6. ASSUME NEW k \in 1..N PROVE chars[k] = IF r[k] = 0 THEN 0 ELSE Outside
  <2>1. chars[k] = CharOf(q[k]) /\ q[k] = -r[k] /\ r[k] \in 0..9
    BY <1>2, <1>4
  <2>2. \A t \in 0..9 : CharOf(-t) = IF t = 0 THEN 0 ELSE Outside
    BY DEF CharOf
  <2> QED BY <2>1, <2>2
<1> HIDE DEF chars
<1>7. /\ all \in Seq(Int) /\ Len(all) = N + 1 /\ all[N + 1] = Minus
      /\ \A k \in 1..N : all[k] = chars[k]
  BY <1>2, <1>5 DEF Minus
<1> HIDE DEF all
<1>8. /\ Len(Reverse(all)) = N + 1
      /\ \A k \in 1..N + 1 : Reverse(all)[k] = all[((N + 1) - k) + 1]
  BY <1>7, ReverseFacts
<1>9. Len(Reverse(r)) = N /\ \A k \in 1..N : Reverse(r)[k] = r[(N - k) + 1]
  BY <1>2, ReverseFacts
<1> HIDE DEF N
<1>10. Reverse(all)[1] = Minus
  <2>1. 1 \in 1..N + 1 /\ ((N + 1) - 1) + 1 = N + 1
    BY <1>2
  <2> QED BY <1>7, <1>8, <2>1
<1>11. ASSUME NEW k \in 2..N + 1
       PROVE  Reverse(all)[k] = IF Reverse(r)[k - 1] = 0 THEN 0 ELSE Outside
  <2>1. k \in 1..N + 1 /\ k - 1 \in 1..N /\ ((N + 1) - k) + 1 = (N - (k - 1)) + 1
        /\ (N - (k - 1)) + 1 \in 1..N
    BY <1>2
  <2>2. Reverse(all)[k] = chars[(N - (k - 1)) + 1]
    BY <1>7, <1>8, <2>1
  <2>3. Reverse(r)[k - 1] = r[(N - (k - 1)) + 1]
    BY <1>9, <2>1
  <2> QED BY <1>6, <2>1, <2>2, <2>3
<1> QED BY <1>2, <1>3, <1>8, <1>9, <1>10, <1>11

\* What IntegersFormatted reads is what the digits say.
LEMMA ValueIs ==
  ASSUME NEW c \in Seq(Int), NEW g, IsValue(g, c)
  PROVE  LET value[k \in 0..Len(c)] == IF k = 0 THEN 0 ELSE 10 * value[k - 1] + c[k]
         IN  value[Len(c)] = g[Len(c)]
<1> DEFINE Is(f) == f = [k \in 0..Len(c) |-> IF k = 0 THEN 0 ELSE 10 * f[k - 1] + c[k]]
           f == CHOOSE f : Is(f)
           T == {k \in 0..Len(c) : f[k] # g[k]}
<1>0. Len(c) \in Nat
  OBVIOUS
<1>1. Is(g)
  <2>1. \A k \in 0..Len(c) : g[k] = IF k = 0 THEN 0 ELSE 10 * g[k - 1] + c[k]
    BY <1>0 DEF IsValue
  <2>2. g = [k \in 0..Len(c) |-> g[k]]
    BY DEF IsValue
  <2> QED BY <2>1, <2>2
<1>2. Is(f)
  <2> HIDE DEF Is
  <2> QED BY <1>1
<1> SUFFICES f[Len(c)] = g[Len(c)]
  OBVIOUS
<1> HIDE DEF f
<1>3. \A k \in 0..Len(c) : f[k] = IF k = 0 THEN 0 ELSE 10 * f[k - 1] + c[k]
  BY <1>2
<1>4. T = {}
  <2> SUFFICES ASSUME T # {} PROVE FALSE
    OBVIOUS
  <2>1. T \in SUBSET Nat
    OBVIOUS
  <2>2. PICK m \in T : \A k \in T : m <= k
    <3> HIDE DEF T
    <3> QED BY <2>1, LeastNat
  <2>3. m # 0
    BY <1>3, <2>2 DEF IsValue
  <2>4. m \in 1..Len(c) /\ m - 1 \in 0..Len(c) /\ m \in Nat
    BY <1>0, <2>2, <2>3
  <2>5. f[m - 1] = g[m - 1]
    BY <2>2, <2>4
  <2>6. f[m] = 10 * f[m - 1] + c[m] /\ g[m] = 10 * g[m - 1] + c[m]
    BY <1>3, <2>3, <2>4 DEF IsValue
  <2> QED BY <2>2, <2>5, <2>6
<1> QED BY <1>0, <1>4

\* A number of one or of two digits takes as many bytes.
LEMMA ShortNumbers == Len(convert(7)) = 1 /\ Len(convert(99)) = 2
<1>1. ASSUME NEW d \in 0..9 PROVE Len(Remainders(d)) = 1
  <2>1. d \in Int /\ Size(d) = d /\ d < 10 /\ Sign(d) * (d % 10) \in Int
    BY TenFacts DEF Size, Sign
  <2>2. Remainders(d) = <<Sign(d) * (d % 10)>> \o <<>>
    BY <2>1, RemaindersFacts
  <2> QED BY <2>2
<1>2. ASSUME NEW v \in Nat, v >= 10, v \div 10 \in 0..9 PROVE Len(Remainders(v)) = 2
  <2> DEFINE d == v % 10
             w == v \div 10
  <2>1. v \in Int /\ Size(v) = v /\ Sign(v) = 1 /\ ~(v < 10) /\ d \in Int
    BY <1>2, TenFacts DEF Size, Sign
  <2>2. Sign(v) * d = d /\ Sign(v) * w = w /\ w \in 0..9 /\ w \in Int
    <3> HIDE DEF d
    <3> QED BY <1>2, <2>1
  <2>3. Remainders(v) = <<Sign(v) * (v % 10)>>
          \o (IF v < 10 THEN <<>> ELSE Remainders(Sign(v) * (v \div 10)))
    BY <2>1, RemaindersFacts
  <2> HIDE DEF d, w
  <2>4. Remainders(v) = <<d>> \o Remainders(w)
    BY <2>1, <2>2, <2>3 DEF d, w
  <2> DEFINE s == Remainders(v)
             r == Remainders(w)
  <2>5. r \in Seq(Int) /\ Len(r) = 1 /\ s = <<d>> \o r
    BY <1>1, <2>2, <2>4, RemaindersFacts
  <2> HIDE DEF s, r
  <2>6. Len(s) = Len(r) + 1
    <3>1. d \in Int
      BY <2>1
    <3>2. ASSUME NEW dd \in Int, NEW rr \in Seq(Int), NEW ss, ss = <<dd>> \o rr PROVE Len(ss) = Len(rr) + 1
      BY <3>2
    <3> QED BY <2>5, <3>1, <3>2
  <2> QED BY <2>5, <2>6 DEF s
<1>3. ASSUME NEW v \in Nat PROVE Len(convert(v)) = Len(Remainders(v))
  <2>1. v \in Int
    OBVIOUS
  <2>2. Remainders(v) \in Seq(Int)
    BY <2>1, RemaindersFacts
  <2> QED BY <2>2, ConvertPlain, ReverseFacts
<1>4. ASSUME NEW v, v = 99 PROVE Len(convert(v)) = 2
  <2>1. v \in Nat /\ v >= 10 /\ v \div 10 \in 0..9
    BY <1>4
  <2> QED BY <1>2, <1>3, <2>1
<1>5. ASSUME NEW v, v = 7 PROVE Len(convert(v)) = 1
  <2>1. v \in Nat /\ v \in 0..9
    BY <1>5
  <2> QED BY <1>1, <1>3, <2>1
<1> QED BY <1>4, <1>5

-----------------------------------------------------------------------------

\* A thread formats nothing but its input.
LEMMA InputsKept == StreamSpec => [](input \in Inputs)
<1>1. InputInit => input \in Inputs
  BY DEF InputInit
<1>2. input \in Inputs /\ [Formatted]_input => (input \in Inputs)'
  BY DEF Inputs, Formatted
<1> QED BY <1>1, <1>2, PTL DEF StreamSpec

\* convert writes the digits of every number, and of a negative one the sign,
\* the zeros and for each other digit a character from before the array.
THEOREM AlwaysFormatted == StreamSpec => []IntegersFormatted
<1>1. ASSUME input \in Inputs PROVE IntegersFormatted
  <2> SUFFICES ASSUME input.kind = "integer" PROVE IntegersFormatted
    BY DEF IntegersFormatted
  <2> DEFINE v == input.v
             c == convert(v)
  <2>1. v \in Int
    BY <1>1, StreamAssumption DEF Inputs, Nothing
  <2>2. CASE v >= 0
    <3> DEFINE r == Remainders(v)
    <3>1. v \in Nat
      BY <2>1, <2>2
    <3> HIDE DEF v
    <3>2. Digits(v) /\ r \in Seq(Int) /\ c = Reverse(r)
      <4>1. Digits(v)
        BY <3>1, AllDigits
      <4>2. r \in Seq(Int)
        BY <2>1, RemaindersFacts
      <4>3. c = Reverse(r)
        BY <3>1, ConvertPlain
      <4> QED BY <4>1, <4>2, <4>3
    <3>3. /\ Len(r) \in Nat \ {0} /\ \A k \in 1..Len(r) : r[k] \in 0..9
          /\ r[Len(r)] = 0 => v = 0
          /\ \E g : IsValue(g, Reverse(r)) /\ g[Len(r)] = v
      BY <3>2 DEF Digits
    <3> HIDE DEF r, c
    <3>4. /\ c \in Seq(Int) /\ Len(c) = Len(r)
          /\ \A k \in 1..Len(r) : c[k] = r[(Len(r) - k) + 1]
      BY <3>2, ReverseFacts
    <3>5. \A k \in 1..Len(r) : (Len(r) - k) + 1 \in 1..Len(r)
      BY <3>3
    <3>6. DOMAIN c = 1..Len(r) /\ \A k \in DOMAIN c : c[k] \in 0..9
      <4>1. DOMAIN c = 1..Len(r)
        BY <3>4
      <4>2. ASSUME NEW k \in 1..Len(r) PROVE c[k] \in 0..9
        BY <3>3, <3>4, <3>5
      <4> QED BY <4>1, <4>2
    <3>7. c # <<>> /\ (c[1] = 0 => v = 0)
      <4>1. 1 \in 1..Len(r) /\ (Len(r) - 1) + 1 = Len(r)
        BY <3>3
      <4> QED BY <3>3, <3>4, <4>1
    <3>8. PICK g : IsValue(g, c) /\ g[Len(c)] = v
      BY <3>2, <3>3, <3>4
    <3>9. LET value[k \in 0..Len(c)] == IF k = 0 THEN 0 ELSE 10 * value[k - 1] + c[k]
          IN  value[Len(c)] = v
      BY <3>4, <3>8, ValueIs
    <3> QED BY <2>2, <3>6, <3>7, <3>9 DEF IntegersFormatted, v, c
  <2>3. CASE v < 0
    <3> DEFINE n == -v
    <3>1. n \in Nat /\ n > 0 /\ -n = v /\ ~(v >= 0)
      BY <2>1, <2>3
    <3>2. /\ convert(-n)[1] = Minus /\ Len(convert(-n)) = Len(convert(n)) + 1
          /\ \A k \in 2..Len(convert(-n)) :
               convert(-n)[k] = IF convert(n)[k - 1] = 0 THEN 0 ELSE Outside
      <4> HIDE DEF n
      <4> QED BY <3>1, ConvertMinus
    <3>3. /\ c[1] = Minus /\ Len(c) = Len(convert(n)) + 1
          /\ \A k \in 2..Len(c) : c[k] = IF convert(n)[k - 1] = 0 THEN 0 ELSE Outside
      <4> HIDE DEF n, v
      <4> QED BY <3>1, <3>2
    <3> QED BY <3>1, <3>3 DEF IntegersFormatted
  <2> QED BY <2>1, <2>2, <2>3
<1> QED BY <1>1, InputsKept, PTL

\* Whatever is streamed, a line stays within its buffer and lacks its line feed
\* only if it fills the buffer.
THEOREM AlwaysLineEnds == StreamSpec => []LineEnds
<1>1. ASSUME input \in Inputs PROVE LineEnds
  <2> SUFFICES ASSUME input.kind = "line" PROVE LineEnds
    BY DEF LineEnds
  <2> DEFINE user == input.user
             behind == <<Text(3), Text(NameSize), Text(1), Integer(99), Text(1)>>
             line == Line(user)
  <2>1. user \in UserOperands
    BY <1>1 DEF Inputs, Nothing
  <2>2. kSmallBuffer \in Nat /\ kMaxNumericSize \in Nat /\ kMaxNumericSize >= 2
        /\ PrefixSize \in Nat /\ NameSize \in Nat /\ MaxText \in Nat
    BY StreamAssumption
  <2>3. \A n \in Nat : Text(n) \in Operands
    BY DEF Text, Operands
  <2>4. Integer(7) \in Operands /\ Integer(99) \in Operands
    <3>1. \A n \in {1, 2} : [size |-> n, room |-> kMaxNumericSize + 1] \in Operands
      BY <2>2 DEF Operands
    <3> QED BY <3>1, ShortNumbers DEF Integer
  <2>5. Double(kMaxNumericSize - 1) \in Operands
    BY <2>2 DEF Double, Operands
  <2>6. user \in Seq(Operands)
    <3>1. CASE \E n \in 0..MaxText : user = <<Text(n)>>
      <4>1. PICK n \in 0..MaxText : user = <<Text(n)>>
        BY <3>1
      <4>2. Text(n) \in Operands
        BY <2>2, <2>3
      <4> HIDE DEF user
      <4> QED BY <4>1, <4>2
    <3>2. CASE \E n \in 0..MaxText, k \in 0..3, o \in {Integer(7), Double(kMaxNumericSize - 1)} :
                 user = <<Text(n), o, Text(k)>>
      <4>1. PICK n \in 0..MaxText, k \in 0..3, o \in {Integer(7), Double(kMaxNumericSize - 1)} :
              user = <<Text(n), o, Text(k)>>
        BY <3>2
      <4>2. Text(n) \in Operands /\ Text(k) \in Operands /\ o \in Operands
        BY <2>2, <2>3, <2>4, <2>5
      <4> HIDE DEF user
      <4> QED BY <4>1, <4>2
    <3> QED BY <2>1, <3>1, <3>2 DEF UserOperands
  <2> HIDE DEF user
  <2>7. behind \in Seq(Operands) /\ Len(behind) = 5 /\ behind[5] = Text(1)
    <3>1. Text(3) \in Operands /\ Text(NameSize) \in Operands /\ Text(1) \in Operands
      BY <2>2, <2>3
    <3> QED BY <2>4, <3>1
  <2>8. <<Text(PrefixSize)>> \in Seq(Operands)
    BY <2>2, <2>3
  <2>9. line = (<<Text(PrefixSize)>> \o user) \o behind
    BY DEF Line
  <2> HIDE DEF behind, line
  <2>10. /\ line \in Seq(Operands) /\ Len(line) \in Nat /\ Len(line) >= 5
         /\ line[Len(line)] = Text(1)
    <3> DEFINE front == <<Text(PrefixSize)>> \o user
    <3>1. front \in Seq(Operands)
      BY <2>6, <2>8
    <3> HIDE DEF front
    <3>2. line = front \o behind
      BY <2>9 DEF front
    <3>3. Len(front) \in Nat /\ Len(behind) > 0
      BY <2>7, <3>1
    <3>4. line \in Seq(Operands) /\ Len(line) = Len(front) + Len(behind)
      BY <2>7, <3>1, <3>2, <3>3, ConcatEnd
    <3>5. line[Len(line)] = behind[Len(behind)]
      BY <2>7, <3>1, <3>2, <3>3, ConcatEnd
    <3> QED BY <2>7, <3>3, <3>4, <3>5
  <2>11. line # <<>>
    BY <2>10
  <2>12. /\ Streamed(line).cur \in 0..kSmallBuffer - 1
         /\ \/ Len(line) \in Streamed(line).kept
            \/ kSmallBuffer - Streamed(line).cur < 2
    <3>1. Text(1).room = 2
      BY DEF Text
    <3> QED BY <2>10, <2>11, <3>1, StreamedFacts
  <2> QED BY <2>2, <2>12 DEF LineEnds, line, user
<1> QED BY <1>1, InputsKept, PTL

=============================================================================
