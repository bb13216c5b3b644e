------------------------------- MODULE Buffer -------------------------------
(***************************************************************************)
(* The Buffer (src/src/net/Buffer.cpp) between a socket and its user: a    *)
(* vector of bytes with two indices.  Its operations are operators from a  *)
(* buffer to the buffer after the call, so that nested calls nest here as  *)
(* they do in the code.                                                    *)
(*                                                                         *)
(* Once the write index lies beyond the vector the next access is          *)
(* undefined behaviour, and the model stops.                               *)
(***************************************************************************)
EXTENDS Integers, Sequences

CONSTANTS
  kCheapPrepend,
  InitialSize,
  ExtraBytes,       \* sizeof(extrabuf), the second block of readv
  Bytes,
  MaxLen,           \* bound on the length of one append or read
  ContentLimit      \* the owner never asks the buffer to hold more

ASSUME BufferAssumption ==
  /\ kCheapPrepend \in Nat
  /\ InitialSize \in Nat \ {0}
  /\ ExtraBytes \in Nat
  /\ 0 \in Bytes
  /\ MaxLen \in Nat
  /\ ContentLimit \in Nat

\* The members of a Buffer.
BufferRecords == [buffer_ : Seq(Bytes), ReaderIndex_ : Nat, WriterIndex_ : Nat]

VARIABLES
  buf,              \* the members of the Buffer
  content           \* history: the bytes appended and not yet retrieved

bufferVars == <<buf, content>>

\* std::vector's constructor and resize fill with zero.
Zeros(n) == [i \in 1..n |-> 0]

Resize(s, n) == [i \in 1..n |-> IF i <= Len(s) THEN s[i] ELSE 0]

\* std::copy of data to index at; what falls outside is not in the vector.
Copy(s, at, data) ==
  [i \in 1..Len(s) |-> IF i - at \in 1..Len(data) THEN data[i - at] ELSE s[i]]

\* The sequences of bytes that one call can bring.
Data == UNION {[1..n -> Bytes] : n \in 0..MaxLen}

-----------------------------------------------------------------------------

ReadableBytes(b) == b.WriterIndex_ - b.ReaderIndex_
WriteableBytes(b) == Len(b.buffer_) - b.WriterIndex_
PrependBytes(b) == b.ReaderIndex_

\* The bytes between peek() and BeginWrite().
Readable(b) == [i \in 1..ReadableBytes(b) |-> b.buffer_[b.ReaderIndex_ + i]]

NewBuffer ==
  [buffer_ |-> Zeros(kCheapPrepend + InitialSize),
   ReaderIndex_ |-> kCheapPrepend,
   WriterIndex_ |-> kCheapPrepend]

\* Mutant: only the write index goes back.
RetrieveAllWriterOnly(b) == [b EXCEPT !.WriterIndex_ = kCheapPrepend]

RetrieveAll(b) ==
  [b EXCEPT !.ReaderIndex_ = kCheapPrepend, !.WriterIndex_ = kCheapPrepend]

retrieve(b, len) ==
  IF len < ReadableBytes(b)
  THEN [b EXCEPT !.ReaderIndex_ = @ + len]
  ELSE RetrieveAll(b)

\* Mutant: the indices are moved and the bytes are not.
MakeSpaceBytesKept(b, len) ==
  IF WriteableBytes(b) + PrependBytes(b) < len + kCheapPrepend
  THEN [b EXCEPT !.buffer_ = Resize(@, WriteableBytes(b) + len)]
  ELSE [b EXCEPT !.ReaderIndex_ = kCheapPrepend,
                 !.WriterIndex_ = kCheapPrepend + ReadableBytes(b)]

\* The vector is resized to WriteableBytes() + len, or the readable bytes move
\* down to the prepend area.
MakeSpace(b, len) ==
  IF WriteableBytes(b) + PrependBytes(b) < len + kCheapPrepend
  THEN [b EXCEPT !.buffer_ = Resize(@, WriteableBytes(b) + len)]
  ELSE [b EXCEPT !.buffer_ = Copy(@, kCheapPrepend, Readable(b)),
                 !.ReaderIndex_ = kCheapPrepend,
                 !.WriterIndex_ = kCheapPrepend + ReadableBytes(b)]

EnsureWriteableBytes(b, len) ==
  IF WriteableBytes(b) < len THEN MakeSpace(b, len) ELSE b

\* std::copy to BeginWrite() and the new write index.
Written(b, data) ==
  [b EXCEPT !.buffer_ = Copy(@, b.WriterIndex_, data),
            !.WriterIndex_ = @ + Len(data)]

append(b, data) == Written(EnsureWriteableBytes(b, Len(data)), data)

\* readv fills the writable bytes and then extrabuf, which is appended.
ReadFromFd(b, data) ==
  LET writeable == WriteableBytes(b)
  IN  IF Len(data) <= writeable
      THEN Written(b, data)
      ELSE append(Written(b, SubSeq(data, 1, writeable)),
                  SubSeq(data, writeable + 1, Len(data)))

\* What one readv can return.
ReadLimit(b) ==
  WriteableBytes(b) + (IF WriteableBytes(b) < ExtraBytes THEN ExtraBytes ELSE 0)

-----------------------------------------------------------------------------

Overrun(b) == b.WriterIndex_ > Len(b.buffer_)

BufferInit == buf = NewBuffer /\ content = <<>>

Append_(data) ==
  /\ buf' = append(buf, data)
  /\ content' = content \o data

ReadFd(data) ==
  /\ Len(data) <= ReadLimit(buf)
  /\ buf' = ReadFromFd(buf, data)
  /\ content' = content \o data

\* retrieve, RetrieveUntil, RetrieveToString and RetrieveAllToString; only
\* retrieve may be given more than there is.
Retrieve(len) ==
  /\ buf' = retrieve(buf, len)
  /\ content' = IF len < Len(content)
                THEN [i \in 1..(Len(content) - len) |-> content[len + i]]
                ELSE <<>>

BufferNext ==
  /\ ~Overrun(buf)
  /\ \/ \E data \in Data :
          /\ Len(content) + Len(data) <= ContentLimit
          /\ Append_(data) \/ ReadFd(data)
     \/ \E len \in 0..(MaxLen + 1) : Retrieve(len)

BufferSpec == BufferInit /\ [][BufferNext]_bufferVars

-----------------------------------------------------------------------------
(* Properties.                                                             *)

\* Type invariant: every byte of the vector has a value, the indices are
\* natural numbers.
BufferTypeOK ==
  /\ buf \in BufferRecords
  /\ content \in Seq(Bytes)

\* The order of the indices drawn in Buffer.h, with the prepend area kept.
IndexOrder ==
  /\ kCheapPrepend <= buf.ReaderIndex_
  /\ buf.ReaderIndex_ <= buf.WriterIndex_
  /\ buf.WriterIndex_ <= Len(buf.buffer_)

\* As long as no call has overrun the vector, the readable bytes are exactly
\* the bytes appended and not yet retrieved, in order: no move, resize or
\* split read loses, repeats or reorders one.
FifoContents == ~Overrun(buf) => Readable(buf) = content
=============================================================================
