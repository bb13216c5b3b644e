----------------------------- MODULE AsyncLogger -----------------------------
(***************************************************************************)
(* The AsyncLogger (src/src/base/AsyncLogger.cpp): threads append messages *)
(* to a large buffer under mutex_, and one backend thread swaps the full   *)
(* buffers out, writes them to the LogFile and hands two of them back, so  *)
(* that in the steady state no buffer is allocated.  The owner starts and  *)
(* stops the backend, and may do so again, as far as latch_ lets start()   *)
(* return.                                                                 *)
(*                                                                         *)
(* A BufferPtr is a sequence of at most one buffer: <<>> is the null       *)
(* pointer, and a move leaves it behind.                                   *)
(***************************************************************************)
EXTENDS LogFile

CONSTANTS
  MaxMessages,      \* bound on the number of messages
  Sizes,            \* their possible numbers of bytes
  kLargeBuffer,     \* capacity of a buffer
  DropLimit,        \* 25: a longer batch is cut
  Notice            \* the line that replaces what was cut

ASSUME LoggerAssumption ==
  /\ MaxMessages \in Nat
  /\ Sizes \subseteq Nat
  /\ kLargeBuffer \in Nat \ {0}
  /\ DropLimit \in Nat /\ DropLimit >= 2
  /\ Notice \notin (1..MaxMessages) \X Sizes

\* Messages are numbered as they are appended.
Messages == (1..MaxMessages) \X Sizes
Length(m) == m[2]

VARIABLES
  running_, latch_,
  owner,            \* "ready", "starting", "started", "joining"
  lpc,              \* where the backend thread is; "none": no thread
  CurrentBuffer_, NextBuffer_, buffers_,
  buffer1, buffer2, BuffersWrite,
  written,          \* how many buffers of BuffersWrite are in the LogFile
  appended,         \* history: the messages appended, in order
  dropped           \* history: the messages cut from a batch

sharedVars == <<CurrentBuffer_, NextBuffer_, buffers_>>
localVars == <<buffer1, buffer2, BuffersWrite, written>>
fileVars == <<time, output>>
historyVars == <<appended, dropped>>
vars == <<running_, latch_, owner, lpc, sharedVars, localVars, fileVars, historyVars>>

-----------------------------------------------------------------------------
(* FixedBuffer.                                                            *)

\* The messages it holds and the offset of cur_.
EmptyBuffer == [data |-> <<>>, cur |-> 0]

FreeSize(b) == kLargeBuffer - b.cur

\* FixedBuffer::append: what does not fit is left out.
Put(b, m) ==
  IF FreeSize(b) > Length(m)
  THEN [data |-> Append(b.data, m), cur |-> b.cur + Length(m)]
  ELSE b

\* Mutant: a recycled buffer keeps its messages.
ResetNothing(b) == b

reset(b) == EmptyBuffer

\* The messages of a sequence of buffers, in order.
Contents(bufs) == FlattenSeq([i \in DOMAIN bufs |-> bufs[i].data])

-----------------------------------------------------------------------------

\* The constructor.
Init ==
  /\ running_ = FALSE /\ latch_ = 1
  /\ owner = "ready" /\ lpc = "none"
  /\ CurrentBuffer_ = <<EmptyBuffer>> /\ NextBuffer_ = <<EmptyBuffer>>
  /\ buffers_ = <<>>
  /\ buffer1 = <<>> /\ buffer2 = <<>> /\ BuffersWrite = <<>>
  /\ written = 0 /\ time = 1 /\ output = NoFile
  /\ appended = <<>> /\ dropped = {}

\* Any thread, under mutex_.  The notification is implied: the wait of the
\* backend may end at any time.
append(m) ==
  /\ m[1] = Len(appended) + 1
  /\ IF FreeSize(Head(CurrentBuffer_)) > Length(m)
     THEN /\ CurrentBuffer_' = <<Put(Head(CurrentBuffer_), m)>>
          /\ UNCHANGED <<NextBuffer_, buffers_>>
     ELSE /\ buffers_' = buffers_ \o CurrentBuffer_
          /\ CurrentBuffer_' =
               <<Put(IF NextBuffer_ = <<>> THEN EmptyBuffer ELSE Head(NextBuffer_), m)>>
          /\ NextBuffer_' = <<>>
  /\ appended' = Append(appended, m)
  /\ UNCHANGED <<running_, latch_, owner, lpc, localVars, fileVars, dropped>>

-----------------------------------------------------------------------------
(* The owner.                                                              *)

start ==
  /\ owner = "ready"
  /\ owner' = "starting"
  /\ running_' = TRUE
  /\ lpc' = "launched"
  /\ UNCHANGED <<latch_, sharedVars, localVars, fileVars, historyVars>>

\* latch_.wait() returns when it finds the counter at 0.  When start() is called
\* again it is there already and may return at once; but the new thread counts
\* down below 0, for which std::latch is not made, and from then on it waits for
\* ever.
Started ==
  /\ owner = "starting"
  /\ latch_ = 0
  /\ owner' = "started"
  /\ UNCHANGED <<running_, latch_, lpc, sharedVars, localVars, fileVars, historyVars>>

\* Mutant: the backend is notified and running_ stays set.
StopOnlyNotifying ==
  /\ owner = "started"
  /\ owner' = "joining"
  /\ UNCHANGED <<running_, latch_, lpc, sharedVars, localVars, fileVars, historyVars>>

\* Also by the destructor.
stop ==
  /\ owner = "started"
  /\ owner' = "joining"
  /\ running_' = FALSE
  /\ UNCHANGED <<latch_, lpc, sharedVars, localVars, fileVars, historyVars>>

Join ==
  /\ owner = "joining"
  /\ lpc = "none"
  /\ owner' = "ready"
  /\ UNCHANGED <<running_, latch_, lpc, sharedVars, localVars, fileVars, historyVars>>

-----------------------------------------------------------------------------
(* StartLog: the backend thread.                                           *)

StartLog ==
  /\ lpc = "launched"
  /\ lpc' = "while"
  /\ latch_' = latch_ - 1
  /\ buffer1' = <<EmptyBuffer>> /\ buffer2' = <<EmptyBuffer>>
  /\ BuffersWrite' = <<>> /\ written' = 0
  /\ output' = Opened(output)
  /\ UNCHANGED <<running_, owner, sharedVars, time, historyVars>>

\* Leaving the loop ends the thread; its buffers go with it, and the LogFile.
While ==
  /\ lpc = "while"
  /\ IF running_
     THEN lpc' = "lock" /\ UNCHANGED <<buffer1, buffer2, output>>
     ELSE /\ lpc' = "none"
          /\ buffer1' = <<>> /\ buffer2' = <<>>
          /\ output' = flush(output)
  /\ UNCHANGED <<running_, latch_, owner, sharedVars, BuffersWrite, written, time, historyVars>>

\* Under mutex_: everything appended so far becomes the batch.
Swap ==
  /\ BuffersWrite' = buffers_ \o CurrentBuffer_
  /\ buffers_' = <<>>
  /\ CurrentBuffer_' = buffer1
  /\ buffer1' = <<>>
  /\ IF NextBuffer_ = <<>>
     THEN NextBuffer_' = buffer2 /\ buffer2' = <<>>
     ELSE UNCHANGED <<NextBuffer_, buffer2>>
  /\ UNCHANGED written
  /\ lpc' = "write"

\* Mutant: as long as no buffer is full the loop goes round without a swap.
LockOnlyFull ==
  /\ lpc = "lock"
  /\ IF buffers_ = <<>>
     THEN lpc' = "while" /\ UNCHANGED <<sharedVars, localVars>>
     ELSE Swap
  /\ UNCHANGED <<running_, latch_, owner, fileVars, historyVars>>

\* cond_.wait_for releases mutex_.
Lock ==
  /\ lpc = "lock"
  /\ IF buffers_ = <<>>
     THEN lpc' = "wait" /\ UNCHANGED <<sharedVars, localVars>>
     ELSE Swap
  /\ UNCHANGED <<running_, latch_, owner, fileVars, historyVars>>

\* The wait ends: notified, by time, or for no reason.
Wake ==
  /\ lpc = "wait"
  /\ Swap
  /\ UNCHANGED <<running_, latch_, owner, fileVars, historyVars>>

\* Mutant: one buffer too many is cut.
KeptOne(batch) == IF Len(batch) > DropLimit THEN SubSeq(batch, 1, 1) ELSE batch

\* A batch that is too long is cut down to its first two buffers.
Kept(batch) == IF Len(batch) > DropLimit THEN SubSeq(batch, 1, 2) ELSE batch

Cut(batch) == IF Len(batch) > DropLimit THEN SubSeq(batch, 3, Len(batch)) ELSE <<>>

\* What the LogFile gets of a sequence of messages.
Pieces(ms) ==
  [i \in DOMAIN ms |-> [msg |-> ms[i], bytes |-> IF ms[i] = Notice THEN 1 ELSE Length(ms[i])]]

CutBatch ==
  /\ lpc = "write"
  /\ lpc' = "append"
  /\ BuffersWrite' = Kept(BuffersWrite) /\ written' = 0
  /\ IF Cut(BuffersWrite) = <<>>
     THEN UNCHANGED output
     ELSE \E k \in Passes(output, Pieces(<<Notice>>)) :
            output' = Appended(output, Pieces(<<Notice>>), k)
  /\ dropped' = dropped \cup ToSet(Contents(Cut(BuffersWrite)))
  /\ UNCHANGED <<running_, latch_, owner, sharedVars, buffer1, buffer2, time, appended>>

WriteBuffer ==
  /\ lpc = "append" /\ written < Len(BuffersWrite)
  /\ LET data == Pieces(BuffersWrite[written + 1].data)
     IN  \E k \in Passes(output, data) : output' = Appended(output, data, k)
  /\ written' = written + 1
  /\ UNCHANGED <<running_, latch_, owner, lpc, sharedVars, buffer1, buffer2, BuffersWrite,
                 time, historyVars>>

\* Of the first two buffers of the batch the last becomes buffer1 and the one
\* before it buffer2, if that is missing.
Recycle ==
  /\ lpc = "append" /\ written = Len(BuffersWrite)
  /\ LET two == IF Len(BuffersWrite) > 2 THEN SubSeq(BuffersWrite, 1, 2) ELSE BuffersWrite
     IN  /\ buffer1' = <<reset(two[Len(two)])>>
         /\ buffer2' = IF buffer2 = <<>> THEN <<reset(two[Len(two) - 1])>> ELSE buffer2
  /\ BuffersWrite' = <<>> /\ written' = 0
  /\ output' = flush(output)
  /\ lpc' = "while"
  /\ UNCHANGED <<running_, latch_, owner, sharedVars, time, historyVars>>

-----------------------------------------------------------------------------

Clock ==
  /\ Tick
  /\ UNCHANGED <<running_, latch_, owner, lpc, sharedVars, localVars, output, historyVars>>

Backend == StartLog \/ While \/ Lock \/ Wake \/ CutBatch \/ WriteBuffer \/ Recycle

Next ==
  \/ \E m \in Messages : append(m)
  \/ start \/ Started \/ stop \/ Join
  \/ Backend
  \/ Clock

\* The backend thread runs, and its wait ends after Flushinterval_ seconds.
\* Calls of the owner that wait go on when they can.
Fairness == WF_vars(Backend) /\ WF_vars(Started) /\ WF_vars(Join)

SafeSpec == Init /\ [][Next]_vars
Spec == SafeSpec /\ Fairness

-----------------------------------------------------------------------------
(* Properties.                                                             *)

FixedBuffers == [data : Seq(Messages), cur : 0..kLargeBuffer]
BufferPtrs == {ptr \in Seq(FixedBuffers) : Len(ptr) <= 1}

\* Type invariant; no buffer is filled beyond its capacity.
TypeOK ==
  /\ running_ \in BOOLEAN /\ latch_ \in Int
  /\ owner \in {"ready", "starting", "started", "joining"}
  /\ lpc \in {"none", "launched", "while", "lock", "wait", "write", "append"}
  /\ CurrentBuffer_ \in BufferPtrs /\ NextBuffer_ \in BufferPtrs
  /\ buffer1 \in BufferPtrs /\ buffer2 \in BufferPtrs
  /\ buffers_ \in Seq(FixedBuffers) /\ BuffersWrite \in Seq(FixedBuffers)
  /\ written \in 0..Len(BuffersWrite)
  /\ time \in 1..MaxTime
  /\ output.filename_ \in 0..time /\ output.count_ \in Nat
  /\ Bytes(output.stream) <= StreamSize
  /\ appended \in Seq(Messages)
  /\ dropped \subseteq Messages

\* No null pointer is used and no empty vector popped: append always finds a
\* current buffer, and a batch always has the buffers that the backend takes
\* back, also after it has been cut.
BuffersSuffice ==
  /\ CurrentBuffer_ # <<>>
  /\ lpc = "append" => Len(BuffersWrite) >= (IF buffer2 = <<>> THEN 2 ELSE 1)

\* The messages in the files, then those of the batch that are not yet there,
\* and those in the buffers.
Log ==
  LET all == AllWritten IN
  [i \in DOMAIN all |-> all[i].msg]
    \o Contents(SubSeq(BuffersWrite, written + 1, Len(BuffersWrite)))
    \o Contents(buffers_) \o Contents(CurrentBuffer_)

\* Every message is in a file, in the batch or in a buffer, once, and in the
\* order in which it was appended, unless it was cut from a batch: swapping,
\* recycling, a restart and changing the file lose, repeat and reorder
\* nothing, and the files in the order of their names hold the log.  Messages
\* are shorter than a buffer, as those of a LogStream are.
NothingLost ==
  TypeOK /\ ((\A size \in Sizes : size < kLargeBuffer) =>
    LET log == Log IN
    /\ ToSet(log) \ {Notice} = ToSet(appended) \ dropped
    /\ \A i, j \in DOMAIN log :
         i < j /\ log[i] # Notice /\ log[j] # Notice => log[i][1] < log[j][1])

\* After midnight no more than CheckEveryN_ buffers go to the file of the day
\* before, the one included after which the new day is noticed.
DayIsNoticed == \A t \in 1..MaxTime : output.late[t] <= CheckEveryN_

\* A file is changed in time: it grows beyond RollSize_ by no more than a
\* buffer and what the stream held back, unless it was to be changed in the
\* second it was opened in, and a new day is noticed.
RolledInTime ==
  /\ \A t \in 1..MaxTime :
       Bytes(output.disk[t]) > RollSize_ + StreamSize + kLargeBuffer => t \in output.refused
  /\ DayIsNoticed

\* While the logger is running a message does not stay in memory for ever,
\* however few follow it: it gets to the disk.
MessagesReachFile ==
  \A n \in 1..MaxMessages :
    Len(appended) >= n /\ running_ ~>
      \/ n \in DOMAIN appended
         /\ appended[n] \in {piece.msg : piece \in OnDisk} \cup dropped
      \/ ~running_

\* stop() returns, also when its notification finds no one waiting.
StopReturns == owner = "joining" ~> owner = "ready"
=============================================================================
