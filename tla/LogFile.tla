------------------------------- MODULE LogFile -------------------------------
(***************************************************************************)
(* The LogFile (src/src/base/LogFile.cpp): an output stream whose file is  *)
(* changed when it has grown too large and when a new day has begun.  Its  *)
(* operations are operators from a LogFile to the LogFile after the call;  *)
(* AsyncLogger.tla is the program that uses them, from one thread.         *)
(*                                                                         *)
(* A file is named after the second it was opened in.  The stream keeps    *)
(* back up to StreamSize bytes, which the size of the file on disk does    *)
(* not include.                                                            *)
(***************************************************************************)
EXTENDS Integers, Sequences, SequencesExt

CONSTANTS
  RollSize_, FlushInterval_, CheckEveryN_, kRollPerSeconds_,
  StreamSize,       \* what std::ofstream may hold back, in bytes
  MaxTime           \* bound on the clock, in seconds

ASSUME LogFileAssumption ==
  /\ {RollSize_, FlushInterval_, StreamSize} \subseteq Nat
  /\ {CheckEveryN_, kRollPerSeconds_, MaxTime} \subseteq Nat \ {0}

VARIABLES
  time,             \* ::time(NULL)
  output            \* the members of the LogFile, and the files on disk

\* A written piece is what it says and its number of bytes.
Bytes(s) ==
  LET sum[n \in 0..Len(s)] == IF n = 0 THEN 0 ELSE sum[n - 1] + s[n].bytes
  IN  sum[Len(s)]

\* late and refused are history: how many times each file was written to after
\* the day it was opened on, and which files had grown too large in the very
\* second they were opened in.
NoFile ==
  [filename_ |-> 0, start_ |-> 0, LastRoll_ |-> 0, LastFlush_ |-> 0, count_ |-> 0,
   stream |-> <<>>, disk |-> [t \in 1..MaxTime |-> <<>>],
   late |-> [t \in 1..MaxTime |-> 0], refused |-> {}]

Day == (time \div kRollPerSeconds_) * kRollPerSeconds_

flush(f) ==
  IF f.stream = <<>> THEN f
  ELSE [f EXCEPT !.disk[f.filename_] = @ \o f.stream, !.stream = <<>>]

\* In the second in which the file was opened it stays.  close() flushes, and a
\* file that exists is appended to.  Opening is taken to succeed: without a file
\* file_size in append() would throw.
RollFile(f) ==
  IF time > f.LastRoll_
  THEN [flush(f) EXCEPT !.filename_ = time, !.LastRoll_ = time, !.LastFlush_ = time,
                        !.start_ = Day]
  ELSE [f EXCEPT !.refused = @ \cup {f.filename_}]

\* The constructor; disk is what earlier ones have left.
Opened(f) == RollFile([NoFile EXCEPT !.disk = f.disk, !.late = f.late,
                                        !.refused = f.refused])

\* file_.write: the stream passes the first k pieces on.
Passes(f, data) ==
  {k \in 0..(Len(f.stream) + Len(data)) :
     Bytes(SubSeq(f.stream \o data, k + 1, Len(f.stream) + Len(data))) <= StreamSize}

Written(f, data, k) ==
  LET all == f.stream \o data
  IN  [f EXCEPT !.disk[f.filename_] = @ \o SubSeq(all, 1, k),
                !.stream = SubSeq(all, k + 1, Len(all)),
                !.late[f.filename_] = IF Day = f.start_ THEN 0 ELSE @ + 1]

CheckDue(f) == f.count_ + 1 >= CheckEveryN_

\* Every CheckEveryN_ appends it looks at the clock.
Checked(f) ==
  IF ~CheckDue(f) THEN [f EXCEPT !.count_ = @ + 1]
  ELSE IF Day # f.start_ THEN RollFile([f EXCEPT !.count_ = 0])
  ELSE IF time - f.LastFlush_ > FlushInterval_
       THEN [flush(f) EXCEPT !.count_ = 0, !.LastFlush_ = time]
       ELSE [f EXCEPT !.count_ = 0]

\* Mutant: the size is not looked at.
AppendedUnsized(f, data, k) == Checked(Written(f, data, k))

Appended(f, data, k) ==
  LET w == Written(f, data, k)
  IN  IF Bytes(w.disk[w.filename_]) > RollSize_ THEN RollFile(w) ELSE Checked(w)

Tick ==
  /\ time < MaxTime
  /\ time' = time + 1

-----------------------------------------------------------------------------

\* What was written, by the names of the files and then in the stream.
AllWritten == FlattenSeq([t \in 1..MaxTime |-> output.disk[t]]) \o output.stream
OnDisk == UNION {Range(output.disk[t]) : t \in 1..MaxTime}
=============================================================================
