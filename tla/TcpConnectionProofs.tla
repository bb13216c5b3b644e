------------------------- MODULE TcpConnectionProofs -------------------------
(***************************************************************************)
(* What a TcpConnection does to the stream, to its channel and to its      *)
(* user, for any number of threads, messages and bytes, any size of the    *)
(* send buffer and any high-water mark.                                    *)
(***************************************************************************)
EXTENDS TcpConnection, SequenceTheorems, TLAPS

\* A call that has not begun has no message, and a send() has one.
CallInv ==
  /\ \A t \in Threads :
       /\ call[t].at = "none" => call[t] = Idle
       /\ call[t].at = "sending" => call[t].msg \in Messages
  /\ \A k \in DOMAIN functors :
       functors[k].op = "SendInLoop" => functors[k].msg \in Messages

\* Until ConnectEstablished has been called nobody knows of the connection,
\* and only ConnectDestoryed may be queued behind it.
NewInv ==
  reports = <<>> =>
    /\ state_ = "kConnecting" /\ channel_ = NewChannel /\ OutputBuffer_ = <<>>
    /\ ~inUser /\ todo = <<>>
    /\ functors # <<>> /\ functors[1].op = "ConnectEstablished"
    /\ \A k \in 2..Len(functors) : functors[k].op = "ConnectDestoryed"
    /\ \A t \in Threads : call[t] = Idle

\* Afterwards it is not established again, and it is kConnected only until
\* its end is reported.
UpInv ==
  /\ reports # <<>> =>
       /\ state_ # "kConnecting"
       /\ \A k \in DOMAIN functors : functors[k].op # "ConnectEstablished"
  /\ state_ = "kConnected" => reports = <<"up">>

\* The read callback is called first, and not any more once the end has been
\* reported: POLLIN is not asked for again, though POLLOUT may be.
ReadInv ==
  /\ \A k \in 2..Len(todo) : todo[k] # "ReadCallback_"
  /\ reports \notin {<<>>, <<"up">>} =>
       /\ "POLLIN" \notin channel_.events_
       /\ \A k \in DOMAIN todo : todo[k] # "ReadCallback_"

LifeInv == CallInv /\ NewInv /\ UpInv /\ ReadInv /\ ReportedOnce

\* POLLOUT is asked for only while bytes are buffered.
NoSpinInv == isWriting(channel_) => OutputBuffer_ # <<>>

\* Either everything is written or buffered, or the socket is broken, the
\* buffer was empty by then, and what came later is dropped.
StreamInv ==
  \/ wire \o OutputBuffer_ = accepted
  \/ Broken /\ OutputBuffer_ = <<>> /\ IsPrefix(wire, accepted)

Inv == TypeOK /\ LifeInv /\ NoSpinInv /\ WriteInterest /\ StreamInv

Functors == [op : FunctorOps, msg : Messages \cup {Nothing}, by : Threads \cup {LoopThread}]

-----------------------------------------------------------------------------
(* The operators.                                                          *)

\* Writing a part of some bytes and keeping the rest keeps their order.
LEMMA SplitStream ==
  ASSUME NEW S, NEW w \in Seq(S), NEW d \in Seq(S), NEW n \in 0..Len(d)
  PROVE  /\ SubSeq(d, 1, n) \in Seq(S) /\ SubSeq(d, n + 1, Len(d)) \in Seq(S)
         /\ (w \o SubSeq(d, 1, n)) \o SubSeq(d, n + 1, Len(d)) = w \o d
<1> DEFINE a == SubSeq(d, 1, n)
           b == SubSeq(d, n + 1, Len(d))
<1>1. a \in Seq(S) /\ b \in Seq(S)
  OBVIOUS
<1>2. a \o b = d
  <2>1. Len(d) \in Nat /\ Len(a) = n /\ Len(b) = Len(d) - n
    OBVIOUS
  <2>2. /\ \A k \in 1..n : a[k] = d[k]
        /\ \A k \in 1..(Len(d) - n) : b[k] = d[n + k]
    OBVIOUS
  <2> HIDE DEF a, b
  <2>3. a \o b \in Seq(S) /\ Len(a \o b) = Len(d)
    BY <1>1, <2>1
  <2>4. ASSUME NEW k \in 1..Len(d)
        PROVE  (a \o b)[k] = d[k]
    <3>1. CASE k <= n
      <4>1. k \in 1..Len(a)
        BY <2>1, <3>1
      <4>2. (a \o b)[k] = a[k]
        BY <1>1, <4>1
      <4> QED BY <4>1, <4>2, <2>1, <2>2
    <3>2. CASE k > n
      <4>1. k - n \in 1..(Len(d) - n) /\ n + (k - n) = k
        BY <2>1, <3>2
      <4>2. b[k - n] = d[k]
        BY <4>1, <2>2
      <4>3. (a \o b)[k] = b[k - Len(a)]
        BY <1>1, <2>1, <3>2
      <4> QED BY <4>2, <4>3, <2>1
    <3> QED BY <2>1, <3>1, <3>2
  <2> QED BY <2>3, <2>4, SeqEqual
<1> HIDE DEF a, b
<1>3. (w \o a) \o b = w \o (a \o b)
  BY <1>1, ConcatAssociative
<1> QED BY <1>1, <1>2, <1>3 DEF a, b

\* The bytes of a message are bytes.
LEMMA BytesType ==
  ASSUME NEW m \in Messages
  PROVE  Bytes(m) \in Seq(AllBytes) /\ Len(Bytes(m)) = Length[m] /\ Length[m] \in Nat
<1>1. Length[m] \in Nat
  BY ConnectionAssumption
<1>2. \A k \in 1..Length[m] : <<m, k>> \in AllBytes
  BY DEF AllBytes
<1> QED BY <1>1, <1>2 DEF Bytes

\* A prefix of a sequence is one of every continuation of it.
LEMMA PrefixConcat ==
  ASSUME NEW S, NEW s \in Seq(S), NEW t \in Seq(S), NEW u \in Seq(S), IsPrefix(s, t)
  PROVE  IsPrefix(s, t \o u)
<1>1. Len(s) <= Len(t) /\ \A k \in 1..Len(s) : s[k] = t[k]
  <2>1. \A k \in 1..Len(s) : SubSeq(s, 1, Len(s))[k] = s[k] /\ SubSeq(t, 1, Len(s))[k] = t[k]
    BY DEF IsPrefix
  <2> QED BY <2>1 DEF IsPrefix
<1>2. SubSeq(s, 1, Len(s)) \in Seq(S) /\ SubSeq(t \o u, 1, Len(s)) \in Seq(S)
  BY <1>1
<1>3. SubSeq(s, 1, Len(s)) = SubSeq(t \o u, 1, Len(s))
  BY <1>1, <1>2
<1> QED BY <1>1, <1>3 DEF IsPrefix

\* A sequence is a prefix of itself.
LEMMA PrefixSelf ==
  ASSUME NEW S, NEW s \in Seq(S)
  PROVE  IsPrefix(s, s)
BY DEF IsPrefix

\* The second element of a sequence.
LEMMA AppendPair == ASSUME NEW a, NEW b PROVE Append(<<a>>, b) = <<a, b>>
<1> DEFINE S == {a, b}
           s == Append(<<a>>, b)
           t == <<a, b>>
<1>1. <<a>> \in Seq(S) /\ t \in Seq(S) /\ Len(t) = 2 /\ t[1] = a /\ t[2] = b
  OBVIOUS
<1>2. s \in Seq(S) /\ Len(s) = 2 /\ s[1] = a /\ s[2] = b
  BY <1>1, AppendProperties
<1> HIDE DEF s, t
<1>3. \A k \in 1..Len(s) : s[k] = t[k]
  BY <1>1, <1>2
<1> QED BY <1>1, <1>2, <1>3, SeqEqual DEF s, t

\* The operations of a channel, by what they do to its mask.
LEMMA ChannelFacts ==
  ASSUME NEW ch \in ChannelRecords
  PROVE  /\ Updated(EnableWriting(ch)) \in ChannelRecords
         /\ Updated(EnableWriting(ch)).events_ = ch.events_ \cup {"POLLOUT"}
         /\ Updated(DisableWriting(ch)) \in ChannelRecords
         /\ Updated(DisableWriting(ch)).events_ = ch.events_ \ {"POLLOUT"}
         /\ Updated(EnableReading(ch)) \in ChannelRecords
         /\ Updated(EnableReading(ch)).events_ = ch.events_ \cup {"POLLIN"}
         /\ Updated(DisableAll(ch)) \in ChannelRecords
         /\ Updated(DisableAll(ch)).events_ = {}
         /\ Removed(ch) \in ChannelRecords
         /\ Removed(ch).events_ = ch.events_
<1>1. ASSUME NEW c \in ChannelRecords
      PROVE  Updated(c) \in ChannelRecords /\ Updated(c).events_ = c.events_
  BY <1>1 DEF Updated, ChannelRecords, States
<1>2. EnableWriting(ch) \in ChannelRecords /\ EnableWriting(ch).events_ = ch.events_ \cup {"POLLOUT"}
  BY DEF EnableWriting, ChannelRecords, InterestEvents, ReadEvents
<1>3. DisableWriting(ch) \in ChannelRecords /\ DisableWriting(ch).events_ = ch.events_ \ {"POLLOUT"}
  BY DEF DisableWriting, ChannelRecords, InterestEvents, ReadEvents
<1>4. EnableReading(ch) \in ChannelRecords /\ EnableReading(ch).events_ = ch.events_ \cup {"POLLIN"}
  BY DEF EnableReading, ChannelRecords, InterestEvents, ReadEvents
<1>5. DisableAll(ch) \in ChannelRecords /\ DisableAll(ch).events_ = {}
  BY DEF DisableAll, ChannelRecords, InterestEvents, ReadEvents
<1>6. Removed(ch) \in ChannelRecords /\ Removed(ch).events_ = ch.events_
  BY DEF Removed, ChannelRecords, States
<1> QED BY <1>1, <1>2, <1>3, <1>4, <1>5, <1>6

\* The callbacks of a channel without close and error callbacks: reading
\* comes first, and only if POLLIN is among the events.
LEMMA GuardFacts ==
  ASSUME NEW revents
  PROVE  LET h == HandleEventWithGuard(revents, {"ReadCallback_", "WriteCallback_"})
         IN  /\ h \in Seq({"ReadCallback_", "WriteCallback_"})
             /\ \A k \in 2..Len(h) : h[k] # "ReadCallback_"
             /\ "POLLIN" \notin revents => \A k \in DOMAIN h : h[k] # "ReadCallback_"
<1> DEFINE CB == {"ReadCallback_", "WriteCallback_"}
           r == IF "POLLIN" \in revents THEN <<"ReadCallback_">> ELSE <<>>
           w == IF "POLLOUT" \in revents THEN <<"WriteCallback_">> ELSE <<>>
           h == HandleEventWithGuard(revents, CB)
<1>1. h = <<>> \o <<>> \o r \o w
  BY DEF HandleEventWithGuard, ReadEvents
<1>2. r \in Seq(CB) /\ Len(r) \in {0, 1} /\ ("POLLIN" \notin revents => Len(r) = 0)
  <2>1. CASE "POLLIN" \in revents
    <3>1. r = <<"ReadCallback_">>
      BY <2>1
    <3> HIDE DEF r
    <3> QED BY <3>1, <2>1
  <2>2. CASE "POLLIN" \notin revents
    <3>1. r = <<>>
      BY <2>2
    <3> QED BY <3>1
  <2> QED BY <2>1, <2>2
<1>3. w \in Seq(CB) /\ Len(w) \in {0, 1} /\ \A k \in 1..Len(w) : w[k] # "ReadCallback_"
  <2>1. CASE "POLLOUT" \in revents
    <3>1. w = <<"WriteCallback_">>
      BY <2>1
    <3> HIDE DEF w
    <3> QED BY <3>1
  <2>2. CASE "POLLOUT" \notin revents
    <3>1. w = <<>>
      BY <2>2
    <3> HIDE DEF w
    <3> QED BY <3>1
  <2> QED BY <2>1, <2>2
<1> HIDE DEF CB, r, w, h
<1>4. h = r \o w
  BY <1>1, <1>2
<1>5. /\ h \in Seq(CB) /\ Len(h) = Len(r) + Len(w)
      /\ \A k \in 1..Len(h) : k > Len(r) => h[k] = w[k - Len(r)]
  BY <1>2, <1>3, <1>4
<1>6. \A k \in 1..Len(h) : k > Len(r) => h[k] # "ReadCallback_"
  BY <1>2, <1>3, <1>5
<1>7. \A k \in 2..Len(h) : h[k] # "ReadCallback_"
  <2>1. Len(h) \in Nat /\ Len(r) \in 0..1
    BY <1>2, <1>5
  <2>2. \A k \in 2..Len(h) : k \in 1..Len(h) /\ k > Len(r)
    BY <2>1
  <2> QED BY <2>2, <1>6
<1>8. "POLLIN" \notin revents => \A k \in DOMAIN h : h[k] # "ReadCallback_"
  BY <1>2, <1>5, <1>6
<1> QED BY <1>5, <1>7, <1>8 DEF h, CB

\* The functors that the loop and the server queue are functors.
LEMMA PlainType ==
  ASSUME NEW op \in FunctorOps
  PROVE  Plain(op) \in Functors /\ Plain(op).op = op
BY DEF Plain, Functor, Functors

\* The first functor and the rest of the queue.
LEMMA QueueFacts ==
  ASSUME functors \in Seq(Functors), functors # <<>>
  PROVE  /\ Head(functors) = functors[1] /\ functors[1] \in Functors
         /\ Len(functors) \in Nat \ {0}
         /\ Tail(functors) \in Seq(Functors)
         /\ Len(Tail(functors)) = Len(functors) - 1
         /\ \A k \in 1..(Len(functors) - 1) : Tail(functors)[k] = functors[k + 1]
OBVIOUS

-----------------------------------------------------------------------------
(* What SendInLoop does, whoever calls it.                                 *)

\* A part of the message, perhaps empty, goes to the kernel, and unless the
\* write failed for good the rest goes behind what was buffered; POLLOUT is
\* asked for if something was buffered; callbacks of the user are queued.
LEMMA SendInLoopFacts ==
  ASSUME TypeOK, NoSpinInv, WriteInterest, StreamInv,
         NEW m \in Messages, NEW queue \in Seq(Functors), SendInLoop(m, queue),
         UNCHANGED <<wrShut, peer, reports>>
  PROVE  /\ {wire', OutputBuffer_', accepted'} \subseteq Seq(AllBytes)
         /\ inflight' \in 0..SndBuf /\ sockErr' \in BOOLEAN
         /\ channel_' \in ChannelRecords
         /\ "POLLIN" \in channel_'.events_ => "POLLIN" \in channel_.events_
         /\ functors' \in Seq(Functors) /\ Len(queue) <= Len(functors')
         /\ \A k \in 1..Len(queue) : functors'[k] = queue[k]
         /\ \A k \in (Len(queue) + 1)..Len(functors') :
              functors'[k].op \in {"WriteCompleteCallback_", "HighWaterMarkCallback_"}
         /\ NoSpinInv' /\ WriteInterest' /\ StreamInv'
<1> DEFINE data == Bytes(m)
           nwrite == IF WritesAtOnce /\ ~Broken THEN Taken(Len(data)) ELSE 0
           err == WritesAtOnce /\ Broken
           remain == SubSeq(data, nwrite + 1, Len(data))
           buffering == ~err /\ remain # <<>>
           complete == WritesAtOnce /\ ~err /\ remain = <<>>
           high == /\ buffering
                   /\ Len(OutputBuffer_) + Len(remain) >= HighWaterMark_
                   /\ Len(OutputBuffer_) < HighWaterMark_
           q1 == IF complete THEN <<Plain("WriteCompleteCallback_")>> ELSE <<>>
           q2 == IF high THEN <<Plain("HighWaterMarkCallback_")>> ELSE <<>>
<1>1. /\ IF WritesAtOnce THEN Write(data) ELSE UNCHANGED <<wire, inflight, sockErr>>
      /\ IF buffering THEN Buffered(remain) ELSE UNCHANGED <<OutputBuffer_, channel_>>
      /\ functors' = queue \o q1 \o q2
      /\ accepted' = accepted \o data
  BY DEF SendInLoop
<1>2. /\ wire \in Seq(AllBytes) /\ OutputBuffer_ \in Seq(AllBytes)
      /\ accepted \in Seq(AllBytes) /\ channel_ \in ChannelRecords
      /\ inflight \in 0..SndBuf /\ sockErr \in BOOLEAN /\ SndBuf \in Nat
  BY ConnectionAssumption DEF TypeOK
<1>3. data \in Seq(AllBytes) /\ Len(data) \in Nat
  BY BytesType
<1>4. Taken(Len(data)) \in 0..Len(data) /\ inflight + Taken(Len(data)) \in 0..SndBuf
  BY <1>2, <1>3 DEF Taken
<1>5. nwrite \in 0..Len(data)
  BY <1>3, <1>4
<1> HIDE DEF data
<1>6. /\ SubSeq(data, 1, nwrite) \in Seq(AllBytes) /\ remain \in Seq(AllBytes)
      /\ (wire \o SubSeq(data, 1, nwrite)) \o remain = wire \o data
      /\ nwrite = 0 => remain = data
  <2>1. nwrite = 0 => remain = data
    BY <1>3, SubSeqFull
  <2> HIDE DEF nwrite
  <2>2. wire \in Seq(AllBytes) /\ data \in Seq(AllBytes) /\ nwrite \in 0..Len(data)
    BY <1>2, <1>3, <1>5
  <2> QED BY <2>1, <2>2, SplitStream, Zenon
<1>7. accepted' \in Seq(AllBytes)
  BY <1>1, <1>2, <1>3
<1>8. wire' \in Seq(AllBytes) /\ inflight' \in 0..SndBuf /\ sockErr' \in BOOLEAN
  <2>1. CASE WritesAtOnce /\ ~Broken
    <3>1. nwrite = Taken(Len(data))
      BY <2>1
    <3>2. wire' = wire \o SubSeq(data, 1, nwrite)
      BY <1>1, <2>1, <3>1 DEF Write
    <3>3. inflight' = inflight + Taken(Len(data)) /\ sockErr' = sockErr
      BY <1>1, <2>1 DEF Write
    <3> HIDE DEF nwrite
    <3> QED BY <3>2, <3>3, <1>2, <1>4, <1>6
  <2>2. CASE WritesAtOnce /\ Broken
    BY <1>1, <1>2, <2>2 DEF Write
  <2>3. CASE ~WritesAtOnce
    BY <1>1, <1>2, <2>3
  <2> QED BY <2>1, <2>2, <2>3
<1>9. (Broken <=> Broken')
  BY DEF Broken
<1>10. functors' \in Seq(Functors) /\ Len(queue) <= Len(functors')
         /\ (\A k \in 1..Len(queue) : functors'[k] = queue[k])
         /\ \A k \in (Len(queue) + 1)..Len(functors') :
              functors'[k].op \in {"WriteCompleteCallback_", "HighWaterMarkCallback_"}
  <2> DEFINE Ops == {"WriteCompleteCallback_", "HighWaterMarkCallback_"}
             Fs == {f \in Functors : f.op \in Ops}
             added == q1 \o q2
  <2>1. \A op \in Ops : Plain(op) \in Fs
    BY PlainType DEF FunctorOps
  <2>2. q1 \in Seq(Fs) /\ q2 \in Seq(Fs)
    <3>1. Plain("WriteCompleteCallback_") \in Fs /\ Plain("HighWaterMarkCallback_") \in Fs
      BY <2>1
    <3> HIDE DEF Fs, complete, high
    <3> QED BY <3>1
  <2> HIDE DEF q1, q2
  <2>3. added \in Seq(Fs) /\ q1 \in Seq(Functors) /\ q2 \in Seq(Functors)
    BY <2>2
  <2>4. functors' = queue \o added
    <3>1. (queue \o q1) \o q2 = queue \o (q1 \o q2)
      <4>1. q1 \in Seq(Functors) /\ q2 \in Seq(Functors)
        BY <2>3
      <4> QED BY <4>1, ConcatAssociative
    <3> QED BY <1>1, <3>1
  <2>5. Len(added) \in Nat /\ Len(queue) \in Nat /\ \A k \in 1..Len(added) : added[k] \in Fs
    BY <2>3
  <2>6. added \in Seq(Functors)
    BY <2>3, <2>2
  <2> HIDE DEF added
  <2>7. functors' \in Seq(Functors) /\ Len(functors') = Len(queue) + Len(added)
    BY <2>4, <2>6
  <2>8. \A k \in 1..Len(functors') :
           functors'[k] = IF k <= Len(queue) THEN queue[k] ELSE added[k - Len(queue)]
    BY <2>4, <2>6, <2>7, ConcatProperties
  <2>9. ASSUME NEW k \in (Len(queue) + 1)..Len(functors')
        PROVE  functors'[k].op \in Ops
    <3>1. k - Len(queue) \in 1..Len(added) /\ k \in 1..Len(functors') /\ ~(k <= Len(queue))
      BY <2>5, <2>7
    <3>2. functors'[k] \in Fs
      BY <3>1, <2>5, <2>8
    <3> QED BY <3>2
  <2> QED BY <2>5, <2>7, <2>8, <2>9
<1> HIDE DEF q1, q2, nwrite, remain
<1>11. /\ channel_' \in ChannelRecords
       /\ "POLLIN" \in channel_'.events_ => "POLLIN" \in channel_.events_
       /\ OutputBuffer_' \in Seq(AllBytes)
       /\ OutputBuffer_' = IF buffering THEN OutputBuffer_ \o remain ELSE OutputBuffer_
       /\ isWriting(channel_') <=> isWriting(channel_) \/ buffering
  <2> HIDE DEF err
  <2>1. CASE ~buffering
    BY <1>1, <1>2, <2>1
  <2>2. CASE buffering
    <3>1. /\ OutputBuffer_' = OutputBuffer_ \o remain
          /\ channel_' = IF isWriting(channel_) THEN channel_ ELSE Updated(EnableWriting(channel_))
      BY <1>1, <2>2 DEF Buffered
    <3>2. OutputBuffer_' \in Seq(AllBytes)
      BY <3>1, <1>2, <1>6
    <3> QED BY <3>1, <3>2, <1>2, <2>2, ChannelFacts DEF isWriting
  <2> QED BY <2>1, <2>2
<1>12. OutputBuffer_' = <<>> <=> OutputBuffer_ = <<>> /\ ~buffering
  BY <1>2, <1>6, <1>11
<1>13. NoSpinInv' /\ WriteInterest'
  BY <1>11, <1>12 DEF NoSpinInv, WriteInterest
<1>14. StreamInv'
  <2>1. CASE err
    <3>1. wire' = wire /\ OutputBuffer_' = <<>> /\ Broken'
      BY <2>1, <1>1, <1>9, <1>11 DEF Write, WritesAtOnce
    <3>2. IsPrefix(wire, accepted)
      <4>1. OutputBuffer_ = <<>>
        BY <2>1 DEF WritesAtOnce
      <4>2. wire \o OutputBuffer_ = wire
        BY <4>1, <1>2
      <4> QED BY <4>2, <1>2, PrefixSelf DEF StreamInv
    <3>3. IsPrefix(wire, accepted \o data)
      BY <3>2, <1>2, <1>3, PrefixConcat
    <3> QED BY <3>1, <3>3, <1>1 DEF StreamInv
  <2>2. CASE ~err /\ WritesAtOnce
    <3>1. OutputBuffer_ = <<>> /\ ~Broken
      BY <2>2 DEF WritesAtOnce
    <3>2. wire = accepted
      <4>1. wire \o OutputBuffer_ = accepted
        BY <3>1 DEF StreamInv
      <4> QED BY <4>1, <3>1, <1>2
    <3>3. wire' = wire \o SubSeq(data, 1, nwrite)
      BY <1>1, <2>2, <3>1 DEF Write, nwrite
    <3>4. OutputBuffer_' = remain
      BY <1>11, <2>2, <3>1, <1>6
    <3> QED BY <3>2, <3>3, <3>4, <1>1, <1>6 DEF StreamInv
  <2>3. CASE ~WritesAtOnce
    <3>1. wire \o OutputBuffer_ = accepted
      BY <2>3 DEF WritesAtOnce, NoSpinInv, StreamInv
    <3>2. wire' = wire
      BY <1>1, <2>3
    <3>3. remain = data
      BY <2>3, <1>6 DEF nwrite
    <3>4. OutputBuffer_' = OutputBuffer_ \o data
      BY <1>11, <2>3, <3>3, <1>2, <1>3
    <3>5. wire \o (OutputBuffer_ \o data) = (wire \o OutputBuffer_) \o data
      <4>1. wire \in Seq(AllBytes) /\ OutputBuffer_ \in Seq(AllBytes) /\ data \in Seq(AllBytes)
        BY <1>2, <1>3
      <4>2. (wire \o OutputBuffer_) \o data = wire \o (OutputBuffer_ \o data)
        BY <4>1, ConcatAssociative
      <4> QED BY <4>2
    <3> QED BY <3>1, <3>2, <3>4, <3>5, <1>1 DEF StreamInv
  <2> QED BY <2>1, <2>2, <2>3
<1> QED BY <1>7, <1>8, <1>10, <1>11, <1>13, <1>14

-----------------------------------------------------------------------------
(* The invariant holds initially, and every step keeps it: first its type, *)
(* then the life of the connection, then what is buffered.                 *)

\* The invariant holds when the server has just made the connection.
LEMMA InitInv == Init => Inv
<1> SUFFICES ASSUME Init PROVE Inv
  OBVIOUS
<1>1. Plain("ConnectEstablished") \in Functors /\ Plain("ConnectEstablished").op = "ConnectEstablished"
  BY PlainType DEF FunctorOps
<1>2. functors \in Seq(Functors) /\ Len(functors) = 1 /\ functors[1].op = "ConnectEstablished"
  BY <1>1 DEF Init
<1>3. NewChannel \in ChannelRecords
  BY DEF NewChannel, ChannelRecords, States
<1>4. Idle \in [at : {"none", "sending", "storing", "shutting"}, msg : Messages \cup {Nothing}]
  BY DEF Idle
<1>5. call \in [Threads -> [at : {"none", "sending", "storing", "shutting"}, msg : Messages \cup {Nothing}]]
  BY <1>4 DEF Init
<1>6. TypeOK
  <2>1. functors \in Seq([op : FunctorOps, msg : Messages \cup {Nothing}, by : Threads \cup {LoopThread}])
    BY <1>2 DEF Functors
  <2>2. inflight \in 0..SndBuf
    BY ConnectionAssumption DEF Init
  <2>3. /\ {OutputBuffer_, wire, accepted} \subseteq Seq(AllBytes)
        /\ reports \in Seq({"up", "down"}) /\ todo \in Seq({"ReadCallback_", "WriteCallback_"})
    BY DEF Init
  <2>4. inUser \in BOOLEAN /\ {wrShut, inbox, sockErr} \subseteq BOOLEAN
    BY DEF Init
  <2>5. channel_ \in ChannelRecords /\ unsent \subseteq Messages /\ owed \subseteq Messages
    BY <1>3 DEF Init
  <2>6. /\ state_ \in {"kDisconnected", "kDisconnecting", "kConnecting", "kConnected"}
        /\ served \in {"open", "closing", "leaving", "destroyed"}
        /\ peer \in {"open", "fin", "reset"}
    BY DEF Init
  <2> QED BY <1>5, <2>1, <2>2, <2>3, <2>4, <2>5, <2>6 DEF TypeOK
<1>7. \A t \in Threads : call[t] = Idle
  BY DEF Init
<1>8. CallInv /\ NewInv
  BY <1>2, <1>7 DEF Init, CallInv, NewInv, Idle
<1>9. UpInv /\ ReadInv /\ ReportedOnce
  BY DEF Init, UpInv, ReadInv, ReportedOnce
<1>10. NoSpinInv /\ WriteInterest
  BY DEF Init, NoSpinInv, WriteInterest, isWriting, NewChannel
<1>11. StreamInv
  BY DEF Init, StreamInv
<1> QED BY <1>6, <1>8, <1>9, <1>10, <1>11 DEF Inv, LifeInv

\* What is true of the buffer stays true when bytes neither come nor go, no
\* interest in POLLOUT is lost before the end is reported, and none is added.
LEMMA BufferKept ==
  ASSUME NoSpinInv, WriteInterest, StreamInv, UNCHANGED <<OutputBuffer_, wire, accepted>>,
         isWriting(channel_') => isWriting(channel_),
         reports' = <<"up">> =>
           reports = <<"up">> /\ (isWriting(channel_) => isWriting(channel_')),
         Broken => Broken'
  PROVE  NoSpinInv' /\ WriteInterest' /\ StreamInv'
<1>1. NoSpinInv' /\ WriteInterest'
  BY DEF NoSpinInv, WriteInterest
<1>2. StreamInv'
  BY DEF StreamInv
<1> QED BY <1>1, <1>2

\* The functor that runs is taken from the queue.
LEMMA RunSend ==
  ASSUME Inv, ~inUser, todo = <<>>, functors # <<>>,
         Head(functors).op = "SendInLoop", SendInLoop(Head(functors).msg, Tail(functors)),
         UNCHANGED <<state_, inUser, served, wrShut, reports, todo, call, unsent, inbox, peer, owed>>
  PROVE  Inv'
<1> DEFINE queue == Tail(functors)
<1>1. TypeOK /\ functors \in Seq(Functors) /\ LifeInv /\ NoSpinInv /\ WriteInterest /\ StreamInv
  BY DEF Inv, TypeOK, Functors
<1>2. /\ Head(functors) = functors[1] /\ functors[1] \in Functors
      /\ Len(functors) \in Nat \ {0}
      /\ queue \in Seq(Functors)
      /\ Len(queue) = Len(functors) - 1
      /\ \A k \in 1..(Len(functors) - 1) : queue[k] = functors[k + 1]
  BY <1>1, QueueFacts
<1>3. Head(functors).msg \in Messages /\ reports # <<>>
  BY <1>1, <1>2 DEF LifeInv, CallInv, NewInv
<1> HIDE DEF queue
<1>4. /\ {wire', OutputBuffer_', accepted'} \subseteq Seq(AllBytes)
      /\ inflight' \in 0..SndBuf /\ sockErr' \in BOOLEAN
      /\ channel_' \in ChannelRecords
      /\ "POLLIN" \in channel_'.events_ => "POLLIN" \in channel_.events_
      /\ functors' \in Seq(Functors) /\ Len(queue) <= Len(functors')
      /\ \A k \in 1..Len(queue) : functors'[k] = queue[k]
      /\ \A k \in (Len(queue) + 1)..Len(functors') :
           functors'[k].op \in {"WriteCompleteCallback_", "HighWaterMarkCallback_"}
      /\ NoSpinInv' /\ WriteInterest' /\ StreamInv'
  BY <1>1, <1>2, <1>3, SendInLoopFacts DEF queue
<1>5. TypeOK'
  BY <1>1, <1>4 DEF TypeOK, Functors
<1>6. ASSUME NEW k \in DOMAIN functors'
      PROVE  \/ k + 1 \in DOMAIN functors /\ functors'[k] = functors[k + 1]
             \/ functors'[k].op \in {"WriteCompleteCallback_", "HighWaterMarkCallback_"}
  <2>1. k \in 1..Len(functors') /\ Len(queue) \in Nat /\ Len(functors') \in Nat
    BY <1>2, <1>4
  <2>2. CASE k \in 1..Len(queue)
    BY <1>1, <1>2, <1>4, <2>2
  <2>3. CASE k \in (Len(queue) + 1)..Len(functors')
    BY <1>4, <2>3
  <2> QED BY <2>1, <2>2, <2>3
<1>7. CallInv' /\ NewInv' /\ UpInv'
  BY <1>1, <1>3, <1>6 DEF LifeInv, CallInv, NewInv, UpInv
<1>8. ReadInv' /\ ReportedOnce'
  BY <1>1, <1>4 DEF LifeInv, ReadInv, ReportedOnce
<1> QED BY <1>4, <1>5, <1>7, <1>8 DEF Inv, LifeInv

\* A functor other than SendInLoop is taken from the queue, and none is added.
LEMMA RunOther ==
  ASSUME Inv, RunFunctor, Head(functors).op # "SendInLoop"
  PROVE  Inv'
<1> DEFINE queue == Tail(functors)
           f == Head(functors)
<1>1. TypeOK /\ functors \in Seq(Functors) /\ LifeInv /\ NoSpinInv /\ WriteInterest /\ StreamInv
  BY DEF Inv, TypeOK, Functors
<1>2. /\ ~inUser /\ todo = <<>> /\ functors # <<>>
      /\ functors' = queue
      /\ UNCHANGED <<todo, call, unsent, inbox, peer, owed>>
  BY DEF RunFunctor
<1>3. /\ f = functors[1] /\ functors[1] \in Functors
      /\ Len(functors) \in Nat \ {0}
      /\ queue \in Seq(Functors)
      /\ Len(queue) = Len(functors) - 1
      /\ \A k \in 1..(Len(functors) - 1) : queue[k] = functors[k + 1]
  BY <1>1, <1>2, QueueFacts
<1>4. ASSUME NEW k \in DOMAIN functors'
      PROVE  k + 1 \in 2..Len(functors) /\ k + 1 \in DOMAIN functors /\ functors'[k] = functors[k + 1]
  BY <1>1, <1>2, <1>3
<1>5. CallInv'
  BY <1>1, <1>2, <1>4 DEF LifeInv, CallInv
<1>6. functors' \in Seq(Functors)
  BY <1>2, <1>3
<1>7. CASE f.op = "ShutdownInLoop"
  <2>1. /\ ShutdownInLoop(channel_)
        /\ UNCHANGED <<connVars, inUser, served, wire, inflight, sockErr, accepted, reports>>
    BY <1>7 DEF RunFunctor
  <2>2. wrShut' \in BOOLEAN /\ (wrShut => wrShut')
    BY <1>1, <2>1 DEF ShutdownInLoop, TypeOK
  <2>3. TypeOK'
    BY <1>1, <1>2, <1>6, <2>1, <2>2 DEF TypeOK, Functors, connVars
  <2>4. reports # <<>>
    BY <1>1, <1>3, <1>7 DEF LifeInv, NewInv
  <2>5. NewInv' /\ UpInv' /\ ReadInv' /\ ReportedOnce'
    BY <1>1, <1>2, <1>4, <2>1, <2>4 DEF LifeInv, NewInv, UpInv, ReadInv, ReportedOnce, connVars
  <2>6. Broken => Broken'
    BY <1>2, <2>2 DEF Broken
  <2>7. NoSpinInv' /\ WriteInterest' /\ StreamInv'
    BY <1>1, <2>1, <2>6, BufferKept DEF connVars
  <2> QED BY <1>5, <2>3, <2>5, <2>7 DEF Inv, LifeInv
<1>8. CASE f.op = "ConnectEstablished"
  <2>1. ConnectEstablished
    BY <1>8 DEF RunFunctor
  <2>2. reports = <<>>
    BY <1>1, <1>3, <1>8 DEF LifeInv, UpInv
  <2>3. reports' = <<"up">> /\ reports' \in Seq({"up", "down"})
    BY <2>1, <2>2 DEF ConnectEstablished
  <2>4. channel_' \in ChannelRecords /\ channel_'.events_ = {"POLLIN"} /\ OutputBuffer_ = <<>>
    BY <1>1, <2>1, <2>2, ChannelFacts DEF ConnectEstablished, TypeOK, LifeInv, NewInv, NewChannel
  <2>5. TypeOK'
    BY <1>1, <1>2, <1>6, <2>1, <2>3, <2>4 DEF TypeOK, Functors, ConnectEstablished
  <2>6. \A k \in DOMAIN functors' : functors'[k].op # "ConnectEstablished"
    BY <1>1, <1>4, <2>2 DEF LifeInv, NewInv
  <2>7. NewInv' /\ UpInv'
    <3>1. reports' # <<>>
      BY <2>3
    <3>2. state_' = "kConnected"
      BY <2>1 DEF ConnectEstablished
    <3> QED BY <2>3, <2>6, <3>1, <3>2 DEF NewInv, UpInv
  <2>8. ReadInv' /\ ReportedOnce'
    BY <1>1, <1>2, <2>3 DEF LifeInv, ReadInv, ReportedOnce
  <2>9. NoSpinInv' /\ WriteInterest'
    BY <2>1, <2>4 DEF NoSpinInv, WriteInterest, isWriting, ConnectEstablished
  <2>10. StreamInv'
    BY <1>1, <1>2, <2>1 DEF StreamInv, Broken, ConnectEstablished
  <2> QED BY <1>5, <2>5, <2>7, <2>8, <2>9, <2>10 DEF Inv, LifeInv
<1>9. CASE f.op = "ConnectDestoryed"
  <2>1. ConnectDestoryed
    BY <1>9 DEF RunFunctor
  <2>2. reports # <<>> /\ reports \in Seq({"up", "down"}) /\ channel_ \in ChannelRecords
    BY <1>1, <1>3, <1>9 DEF LifeInv, NewInv, TypeOK
  <2>3. CASE state_ = "kConnected"
    <3>1. /\ state_' = "kDisconnected" /\ reports = <<"up">>
          /\ channel_' = Removed(Updated(DisableAll(channel_)))
          /\ reports' = Append(reports, "down")
      BY <1>1, <2>1, <2>3 DEF ConnectDestoryed, LifeInv, UpInv
    <3>2. reports' = <<"up", "down">> /\ reports' \in Seq({"up", "down"})
      <4>1. reports' \in Seq({"up", "down"})
        BY <2>2, <3>1
      <4>2. Append(<<"up">>, "down") = <<"up", "down">>
        BY AppendPair
      <4> QED BY <3>1, <4>1, <4>2
    <3>3. channel_' \in ChannelRecords /\ channel_'.events_ = {}
      BY <2>2, <3>1, ChannelFacts
    <3>4. TypeOK'
      BY <1>1, <1>2, <1>6, <2>1, <3>1, <3>2, <3>3 DEF TypeOK, Functors, ConnectDestoryed
    <3>5. NewInv' /\ UpInv'
      BY <1>1, <1>4, <2>2, <3>1, <3>2 DEF LifeInv, NewInv, UpInv
    <3>6. ReadInv' /\ ReportedOnce'
      BY <1>1, <1>2, <3>2, <3>3 DEF LifeInv, ReadInv, ReportedOnce
    <3>7. NoSpinInv' /\ WriteInterest' /\ StreamInv'
      <4>1. reports' # <<"up">> /\ ~isWriting(channel_') /\ (Broken => Broken')
        BY <1>2, <2>1, <3>2, <3>3 DEF isWriting, Broken, ConnectDestoryed
      <4> QED BY <1>1, <2>1, <4>1, BufferKept DEF ConnectDestoryed
    <3> QED BY <1>5, <3>4, <3>5, <3>6, <3>7 DEF Inv, LifeInv
  <2>4. CASE state_ # "kConnected"
    <3>1. channel_' = Removed(channel_) /\ UNCHANGED <<state_, reports>>
      BY <2>1, <2>4 DEF ConnectDestoryed
    <3>2. channel_' \in ChannelRecords /\ channel_'.events_ = channel_.events_
      BY <2>2, <3>1, ChannelFacts
    <3>3. TypeOK'
      BY <1>1, <1>2, <1>6, <2>1, <3>1, <3>2 DEF TypeOK, Functors, ConnectDestoryed
    <3>4. NewInv' /\ UpInv' /\ ReadInv' /\ ReportedOnce'
      BY <1>1, <1>2, <1>4, <2>2, <3>1, <3>2 DEF LifeInv, NewInv, UpInv, ReadInv, ReportedOnce
    <3>5. NoSpinInv' /\ WriteInterest' /\ StreamInv'
      <4>1. (isWriting(channel_) <=> isWriting(channel_')) /\ (Broken => Broken')
        BY <1>2, <2>1, <3>2 DEF isWriting, Broken, ConnectDestoryed
      <4> QED BY <1>1, <2>1, <3>1, <4>1, BufferKept DEF ConnectDestoryed
    <3> QED BY <1>5, <3>3, <3>4, <3>5 DEF Inv, LifeInv
  <2> QED BY <2>3, <2>4
<1>10. CASE f.op \in {"WriteCompleteCallback_", "HighWaterMarkCallback_"}
  <2>1. /\ inUser' = TRUE
        /\ UNCHANGED <<connVars, served, wire, inflight, wrShut, sockErr, accepted, reports>>
    BY <1>10 DEF RunFunctor
  <2>2. TypeOK'
    BY <1>1, <1>2, <1>6, <2>1 DEF TypeOK, Functors, connVars
  <2>3. reports # <<>>
    BY <1>1, <1>3, <1>10 DEF LifeInv, NewInv
  <2>4. NewInv' /\ UpInv' /\ ReadInv' /\ ReportedOnce'
    BY <1>1, <1>2, <1>4, <2>1, <2>3 DEF LifeInv, NewInv, UpInv, ReadInv, ReportedOnce, connVars
  <2>5. Broken => Broken'
    BY <1>2, <2>1 DEF Broken
  <2>6. NoSpinInv' /\ WriteInterest' /\ StreamInv'
    BY <1>1, <2>1, <2>5, BufferKept DEF connVars
  <2> QED BY <1>5, <2>2, <2>4, <2>6 DEF Inv, LifeInv
<1> QED BY <1>3, <1>7, <1>8, <1>9, <1>10 DEF Functors, FunctorOps

\* The parts of the invariant, as the steps below use them.
LEMMA InvParts ==
  Inv => /\ TypeOK /\ functors \in Seq(Functors)
         /\ CallInv /\ NewInv /\ UpInv /\ ReadInv /\ ReportedOnce
         /\ NoSpinInv /\ WriteInterest /\ StreamInv
BY DEF Inv, LifeInv, TypeOK, Functors

\* epoll reports the channel's events.
LEMMA PollInv == Inv /\ Poll => Inv'
<1> SUFFICES ASSUME Inv, Poll PROVE Inv'
  OBVIOUS
<1> USE InvParts
<1> DEFINE revents == (Ready \cap channel_.events_) \cup Failures
<1>1. /\ channel_.state_ = "ADD"
      /\ todo' = HandleEventWithGuard(revents, {"ReadCallback_", "WriteCallback_"})
      /\ UNCHANGED <<connVars, functors, inUser, call, unsent, served, kernelVars, historyVars>>
  BY DEF Poll
<1>2. "POLLIN" \in revents => "POLLIN" \in channel_.events_
  BY DEF Failures
<1> HIDE DEF revents
<1>3. /\ todo' \in Seq({"ReadCallback_", "WriteCallback_"})
      /\ \A k \in 2..Len(todo') : todo'[k] # "ReadCallback_"
      /\ "POLLIN" \notin revents => \A k \in DOMAIN todo' : todo'[k] # "ReadCallback_"
  BY <1>1, GuardFacts
<1>4. reports # <<>>
  BY <1>1 DEF NewInv, NewChannel
<1>5. TypeOK'
  BY <1>1, <1>3 DEF TypeOK, connVars, kernelVars, historyVars
<1>6. CallInv' /\ NewInv' /\ UpInv'
  BY <1>1, <1>4 DEF CallInv, NewInv, UpInv, connVars, historyVars
<1>7. ReadInv' /\ ReportedOnce'
  BY <1>1, <1>2, <1>3 DEF ReadInv, ReportedOnce, connVars, historyVars
<1>8. Broken => Broken'
  BY <1>1 DEF Broken, kernelVars
<1>9. NoSpinInv' /\ WriteInterest' /\ StreamInv'
  BY <1>1, <1>8, BufferKept DEF connVars, kernelVars, historyVars
<1> QED BY <1>5, <1>6, <1>7, <1>9 DEF Inv, LifeInv

\* The callback that is called is taken from those to be called, and if it is
\* the read callback there is no other.
LEMMA TodoFacts ==
  ASSUME Inv, todo # <<>>
  PROVE  /\ Head(todo) = todo[1] /\ Tail(todo) \in Seq({"ReadCallback_", "WriteCallback_"})
         /\ reports # <<>>
         /\ \A k \in DOMAIN Tail(todo) : Tail(todo)[k] # "ReadCallback_"
         /\ Head(todo) = "ReadCallback_" => reports = <<"up">>
<1> DEFINE CB == {"ReadCallback_", "WriteCallback_"}
<1>1. todo \in Seq(CB) /\ ReadInv /\ ReportedOnce /\ reports # <<>>
  BY InvParts DEF TypeOK, NewInv
<1> HIDE DEF CB
<1>2. /\ Head(todo) = todo[1] /\ 1 \in DOMAIN todo /\ Tail(todo) \in Seq(CB)
      /\ Len(todo) \in Nat /\ Len(Tail(todo)) = Len(todo) - 1
      /\ \A k \in 1..(Len(todo) - 1) : Tail(todo)[k] = todo[k + 1]
  BY <1>1
<1>3. ASSUME NEW k \in DOMAIN Tail(todo)
      PROVE  Tail(todo)[k] # "ReadCallback_"
  <2>1. k \in 1..(Len(todo) - 1) /\ k + 1 \in 2..Len(todo)
    BY <1>2
  <2> QED BY <2>1, <1>1, <1>2 DEF ReadInv
<1>4. Head(todo) = "ReadCallback_" => reports = <<"up">>
  BY <1>1, <1>2 DEF ReadInv
<1> QED BY <1>1, <1>2, <1>3, <1>4 DEF CB

\* The read callback: bytes, an error, or the end of the stream.
LEMMA ReadStepInv == Inv /\ HeadleRead => Inv'
<1> SUFFICES ASSUME Inv, HeadleRead PROVE Inv'
  OBVIOUS
<1> USE InvParts
<1>1. /\ todo # <<>> /\ Head(todo) = "ReadCallback_" /\ todo' = Tail(todo)
      /\ UNCHANGED <<functors, call, unsent, wire, inflight, wrShut, peer, accepted, owed>>
  BY DEF HeadleRead
<1>2. /\ todo' \in Seq({"ReadCallback_", "WriteCallback_"})
      /\ reports = <<"up">> /\ reports # <<>>
      /\ \A k \in DOMAIN todo' : todo'[k] # "ReadCallback_"
  BY <1>1, TodoFacts
<1>3. \A k \in 2..Len(todo') : todo'[k] # "ReadCallback_"
  BY <1>2
<1>4. CallInv' /\ (Broken => Broken')
  BY <1>1 DEF CallInv, Broken
<1>5. CASE UNCHANGED <<connVars, served, reports>> /\ {inbox', inUser', sockErr'} \subseteq BOOLEAN
  <2>1. TypeOK'
    BY <1>1, <1>2, <1>5 DEF TypeOK, connVars
  <2>2. NewInv' /\ UpInv' /\ ReadInv' /\ ReportedOnce'
    BY <1>1, <1>2, <1>3, <1>5 DEF NewInv, UpInv, ReadInv, ReportedOnce, connVars
  <2>3. NoSpinInv' /\ WriteInterest' /\ StreamInv'
    BY <1>1, <1>4, <1>5, BufferKept DEF connVars
  <2> QED BY <1>4, <2>1, <2>2, <2>3 DEF Inv, LifeInv
<1>6. CASE HandleClose /\ UNCHANGED <<OutputBuffer_, inUser, inbox, sockErr>>
  <2>1. reports' = Append(reports, "down") /\ reports \in Seq({"up", "down"})
    BY <1>6 DEF HandleClose, TypeOK
  <2>2. reports' = <<"up", "down">> /\ reports' \in Seq({"up", "down"})
    BY <1>2, <2>1, AppendPair
  <2>3. channel_' \in ChannelRecords /\ channel_'.events_ = {}
    BY <1>6, ChannelFacts DEF HandleClose, TypeOK
  <2>4. state_' = "kDisconnected" /\ served' \in {"open", "closing", "leaving", "destroyed"}
    BY <1>6 DEF HandleClose, TypeOK
  <2>5. TypeOK'
    BY <1>1, <1>2, <1>6, <2>2, <2>3, <2>4 DEF TypeOK
  <2>6. reports' # <<>> /\ reports' # <<"up">>
    BY <2>2
  <2>7. NewInv' /\ UpInv'
    BY <1>1, <1>2, <2>4, <2>6 DEF NewInv, UpInv
  <2>8. ReadInv' /\ ReportedOnce'
    BY <1>2, <1>3, <2>2, <2>3 DEF ReadInv, ReportedOnce
  <2>9. NoSpinInv' /\ WriteInterest' /\ StreamInv'
    <3>1. ~isWriting(channel_')
      BY <2>3 DEF isWriting
    <3> QED BY <1>1, <1>4, <1>6, <2>6, <3>1, BufferKept
  <2> QED BY <1>4, <2>5, <2>7, <2>8, <2>9 DEF Inv, LifeInv
<1>7. \/ UNCHANGED <<connVars, served, reports>> /\ {inbox', inUser', sockErr'} \subseteq BOOLEAN
      \/ HandleClose /\ UNCHANGED <<OutputBuffer_, inUser, inbox, sockErr>>
  BY DEF HeadleRead, TypeOK
<1> QED BY <1>5, <1>6, <1>7

\* SHUT_WR is never undone.
LEMMA ShutdownFacts ==
  ASSUME TypeOK, NEW ch, ShutdownInLoop(ch) \/ UNCHANGED wrShut
  PROVE  wrShut' \in BOOLEAN /\ (wrShut => wrShut')
<1>1. wrShut \in BOOLEAN
  BY DEF TypeOK
<1>2. wrShut' = wrShut \/ wrShut' = (wrShut \/ peer # "reset")
  BY DEF ShutdownInLoop
<1>3. CASE wrShut' = wrShut
  BY <1>1, <1>3
<1>4. CASE wrShut' = (wrShut \/ peer # "reset")
  <2>1. CASE wrShut
    <3>1. wrShut' = TRUE
      BY <1>4, <2>1
    <3> QED BY <3>1
  <2>2. CASE ~wrShut
    <3>1. wrShut' = (peer # "reset")
      BY <1>4, <2>2
    <3> QED BY <3>1, <2>2
  <2> QED BY <2>1, <2>2
<1> QED BY <1>2, <1>3, <1>4

\* The write callback writes a part of the buffer; when that is all of it,
\* POLLOUT is not asked for any more.
LEMMA WriteStepInv == Inv /\ HandleWrite => Inv'
<1> SUFFICES ASSUME Inv, HandleWrite PROVE Inv'
  OBVIOUS
<1> USE InvParts
<1>1. /\ todo # <<>> /\ todo' = Tail(todo)
      /\ UNCHANGED <<state_, inUser, call, unsent, served, inbox, peer, historyVars>>
  BY DEF HandleWrite
<1>2. /\ todo' \in Seq({"ReadCallback_", "WriteCallback_"})
      /\ reports # <<>>
      /\ \A k \in DOMAIN todo' : todo'[k] # "ReadCallback_"
  BY <1>1, TodoFacts
<1>3. \A k \in 2..Len(todo') : todo'[k] # "ReadCallback_"
  BY <1>2
<1>4. CASE ~isWriting(channel_)
  <2>1. UNCHANGED <<OutputBuffer_, channel_, functors, wire, inflight, wrShut, sockErr>>
    BY <1>4 DEF HandleWrite
  <2>2. TypeOK'
    BY <1>1, <1>2, <2>1 DEF TypeOK, historyVars
  <2>3. CallInv' /\ NewInv' /\ UpInv' /\ ReadInv' /\ ReportedOnce'
    BY <1>1, <1>2, <1>3, <2>1 DEF CallInv, NewInv, UpInv, ReadInv, ReportedOnce, historyVars
  <2>4. Broken => Broken'
    BY <1>1, <2>1 DEF Broken
  <2>5. NoSpinInv' /\ WriteInterest' /\ StreamInv'
    BY <1>1, <2>1, <2>4, BufferKept DEF historyVars
  <2> QED BY <2>2, <2>3, <2>5 DEF Inv, LifeInv
<1>5. CASE isWriting(channel_)
  <2> DEFINE n == IF Broken THEN 0 ELSE Taken(Len(OutputBuffer_))
             left == SubSeq(OutputBuffer_, n + 1, Len(OutputBuffer_))
             done == SubSeq(OutputBuffer_, 1, n)
             drained == n > 0 /\ left = <<>>
  <2>1. /\ Write(OutputBuffer_)
        /\ OutputBuffer_' = left
        /\ IF drained
           THEN /\ channel_' = Updated(DisableWriting(channel_))
                /\ functors' = Append(functors, Plain("WriteCompleteCallback_"))
                /\ Drained(channel_')
           ELSE UNCHANGED <<channel_, functors, wrShut>>
    BY <1>5 DEF HandleWrite
  <2>2. /\ wire \in Seq(AllBytes) /\ OutputBuffer_ \in Seq(AllBytes)
        /\ Len(OutputBuffer_) \in Nat /\ channel_ \in ChannelRecords
        /\ inflight \in 0..SndBuf /\ sockErr \in BOOLEAN /\ SndBuf \in Nat
    BY ConnectionAssumption DEF TypeOK
  <2>3. Taken(Len(OutputBuffer_)) \in 0..Len(OutputBuffer_)
          /\ inflight + Taken(Len(OutputBuffer_)) \in 0..SndBuf
    BY <2>2 DEF Taken
  <2>4. n \in 0..Len(OutputBuffer_) /\ (n = 0 => done = <<>> /\ left = OutputBuffer_)
    <3>1. n \in 0..Len(OutputBuffer_)
      BY <2>2, <2>3
    <3> HIDE DEF n
    <3> QED BY <3>1, <2>2, SubSeqFull, SubSeqEmpty
  <2>5. wire' = wire \o done /\ inflight' \in 0..SndBuf /\ sockErr' \in BOOLEAN
    <3>1. CASE Broken
      <4>1. n = 0 /\ wire' = wire /\ inflight' = inflight /\ sockErr' = FALSE
        BY <2>1, <3>1 DEF Write
      <4> HIDE DEF n, done, left
      <4>2. wire \o done = wire
        BY <4>1, <2>2, <2>4, ConcatEmptySeq
      <4> QED BY <4>1, <4>2, <2>2
    <3>2. CASE ~Broken
      BY <2>1, <2>2, <2>3, <3>2 DEF Write
    <3> QED BY <3>1, <3>2
  <2> HIDE DEF n
  <2>6. /\ done \in Seq(AllBytes) /\ left \in Seq(AllBytes)
        /\ (wire \o done) \o left = wire \o OutputBuffer_
    BY <2>2, <2>4, SplitStream
  <2> HIDE DEF done, left
  <2>7. OutputBuffer_ # <<>> /\ wire \o OutputBuffer_ = accepted
    BY <1>5 DEF NoSpinInv, StreamInv
  <2>8. StreamInv'
    BY <1>1, <2>1, <2>5, <2>6, <2>7 DEF StreamInv, historyVars
  <2>9. drained <=> left = <<>>
    BY <2>4, <2>7
  <2> HIDE DEF drained
  <2>10. /\ channel_' \in ChannelRecords
         /\ "POLLIN" \in channel_'.events_ => "POLLIN" \in channel_.events_
         /\ isWriting(channel_') <=> ~drained
    BY <1>5, <2>1, <2>2, ChannelFacts DEF isWriting
  <2>11. NoSpinInv' /\ WriteInterest'
    BY <2>1, <2>9, <2>10 DEF NoSpinInv, WriteInterest
  <2>12. /\ functors' \in Seq(Functors)
         /\ \A k \in DOMAIN functors' :
              \/ k \in DOMAIN functors /\ functors'[k] = functors[k]
              \/ functors'[k].op = "WriteCompleteCallback_"
    <3>1. CASE drained
      <4> DEFINE g == Plain("WriteCompleteCallback_")
      <4>1. g \in Functors /\ g.op = "WriteCompleteCallback_"
        BY PlainType DEF FunctorOps
      <4>2. functors' = Append(functors, g)
        BY <2>1, <3>1
      <4> HIDE DEF g
      <4> QED BY <4>1, <4>2
    <3>2. CASE ~drained
      BY <2>1, <3>2
    <3> QED BY <3>1, <3>2
  <2>13. wrShut' \in BOOLEAN
    BY <2>1, ShutdownFacts DEF Drained
  <2>14. TypeOK'
    BY <1>1, <1>2, <2>1, <2>5, <2>6, <2>10, <2>12, <2>13 DEF TypeOK, Functors, historyVars
  <2>15. CallInv' /\ NewInv' /\ UpInv'
    BY <1>1, <1>2, <2>12 DEF CallInv, NewInv, UpInv, historyVars
  <2>16. ReadInv' /\ ReportedOnce'
    BY <1>1, <1>2, <1>3, <2>10 DEF ReadInv, ReportedOnce, historyVars
  <2> QED BY <2>8, <2>11, <2>14, <2>15, <2>16 DEF Inv, LifeInv
<1> QED BY <1>4, <1>5

\* send() in a callback of the loop's thread.
LEMMA UserSendsInv == ASSUME Inv, NEW m \in Messages, UserSends(m) PROVE Inv'
<1> USE InvParts
<1>1. /\ inUser /\ state_ = "kConnected" /\ unsent' = unsent \ {m}
      /\ SendInLoop(m, functors)
      /\ UNCHANGED <<state_, todo, inUser, call, served, wrShut, inbox, peer, reports, owed>>
  BY DEF UserSends
<1>2. reports # <<>>
  BY <1>1 DEF NewInv
<1>3. /\ {wire', OutputBuffer_', accepted'} \subseteq Seq(AllBytes)
      /\ inflight' \in 0..SndBuf /\ sockErr' \in BOOLEAN
      /\ channel_' \in ChannelRecords
      /\ "POLLIN" \in channel_'.events_ => "POLLIN" \in channel_.events_
      /\ functors' \in Seq(Functors) /\ Len(functors) <= Len(functors')
      /\ \A k \in 1..Len(functors) : functors'[k] = functors[k]
      /\ \A k \in (Len(functors) + 1)..Len(functors') :
           functors'[k].op \in {"WriteCompleteCallback_", "HighWaterMarkCallback_"}
      /\ NoSpinInv' /\ WriteInterest' /\ StreamInv'
  BY <1>1, SendInLoopFacts
<1>4. TypeOK'
  BY <1>1, <1>3 DEF TypeOK, Functors
<1>5. ASSUME NEW k \in DOMAIN functors'
      PROVE  \/ k \in DOMAIN functors /\ functors'[k] = functors[k]
             \/ functors'[k].op \in {"WriteCompleteCallback_", "HighWaterMarkCallback_"}
  <2>1. k \in 1..Len(functors') /\ Len(functors) \in Nat /\ Len(functors') \in Nat
    BY <1>3
  <2>2. CASE k \in 1..Len(functors)
    BY <1>3, <2>2
  <2>3. CASE k \in (Len(functors) + 1)..Len(functors')
    BY <1>3, <2>3
  <2> QED BY <2>1, <2>2, <2>3
<1>6. CallInv' /\ NewInv' /\ UpInv'
  BY <1>1, <1>2, <1>5 DEF CallInv, NewInv, UpInv
<1>7. ReadInv' /\ ReportedOnce'
  BY <1>1, <1>3 DEF ReadInv, ReportedOnce
<1> QED BY <1>3, <1>4, <1>6, <1>7 DEF Inv, LifeInv

\* shutdown() in a callback of the loop's thread, and the callback's return.
LEMMA UserStepInv == Inv /\ (UserShutsDown \/ UserReturns) => Inv'
<1> SUFFICES ASSUME Inv, UserShutsDown \/ UserReturns PROVE Inv'
  OBVIOUS
<1> USE InvParts
<1>1. /\ inUser /\ UNCHANGED <<channel_, OutputBuffer_, functors, todo, call, unsent, served, wire,
                               inflight, inbox, peer, sockErr, historyVars>>
      /\ \/ state_' = "kDisconnecting" /\ ShutdownInLoop(channel_) /\ UNCHANGED inUser
         \/ inUser' = FALSE /\ UNCHANGED <<state_, wrShut>>
  BY DEF UserShutsDown, UserReturns, connVars, loopVars, kernelVars
<1>2. wrShut' \in BOOLEAN /\ (wrShut => wrShut')
  BY <1>1, ShutdownFacts
<1>3. TypeOK'
  BY <1>1, <1>2 DEF TypeOK, historyVars
<1>4. CallInv' /\ NewInv' /\ UpInv' /\ ReadInv' /\ ReportedOnce'
  BY <1>1 DEF CallInv, NewInv, UpInv, ReadInv, ReportedOnce, historyVars
<1>5. Broken => Broken'
  BY <1>1, <1>2 DEF Broken
<1>6. NoSpinInv' /\ WriteInterest' /\ StreamInv'
  BY <1>1, <1>5, BufferKept DEF historyVars
<1> QED BY <1>3, <1>4, <1>6 DEF Inv, LifeInv

\* send() and shutdown() of another thread up to the queue.
LEMMA ThreadStepInv ==
  ASSUME Inv, NEW t \in Threads, ThreadBegins(t) \/ ThreadGoesOn(t)
  PROVE  Inv'
<1> USE InvParts
<1> DEFINE Calls == [at : {"none", "sending", "storing", "shutting"}, msg : Messages \cup {Nothing}]
<1>1. call \in [Threads -> Calls] /\ functors \in Seq(Functors)
  BY DEF TypeOK
<1>2. reports # <<>>
  BY DEF ThreadBegins, ThreadGoesOn, shutdown, send, KnowsConnection, StoreDisconnecting,
         RunInLoop, NewInv, Idle
<1>3. UNCHANGED <<channel_, OutputBuffer_, todo, inUser, served, kernelVars, accepted, reports>>
  BY DEF ThreadBegins, ThreadGoesOn, shutdown, send, StoreDisconnecting, RunInLoop,
         connVars, loopVars, historyVars
<1>4. NoSpinInv' /\ WriteInterest' /\ StreamInv'
  <2>1. Broken => Broken'
    BY <1>3 DEF Broken, kernelVars
  <2> QED BY <1>3, <2>1, BufferKept DEF kernelVars
<1>5. ReadInv' /\ ReportedOnce'
  BY <1>3 DEF ReadInv, ReportedOnce
<1> SUFFICES TypeOK' /\ CallInv' /\ NewInv' /\ UpInv'
  BY <1>4, <1>5 DEF Inv, LifeInv
<1>6. CASE shutdown(t)
  <2> DEFINE c == [at |-> "storing", msg |-> Nothing]
  <2>1. /\ call' = [call EXCEPT ![t] = c]
        /\ UNCHANGED <<state_, functors, unsent, owed>>
    BY <1>6 DEF shutdown, connVars, loopVars, historyVars
  <2>2. call' \in [Threads -> Calls] /\ c.at = "storing"
    BY <1>1, <2>1
  <2>3. TypeOK'
    BY <1>3, <2>1, <2>2 DEF TypeOK, kernelVars
  <2>4. \A u \in Threads : call'[u] = IF u = t THEN c ELSE call[u]
    BY <1>1, <2>1
  <2>5. CallInv'
    BY <2>1, <2>2, <2>4 DEF CallInv
  <2> QED BY <1>2, <1>3, <2>1, <2>3, <2>5 DEF NewInv, UpInv
<1>7. ASSUME NEW m \in Messages, send(t, m)
      PROVE  TypeOK' /\ CallInv' /\ NewInv' /\ UpInv'
  <2> DEFINE c == [at |-> "sending", msg |-> m]
  <2>1. /\ call' = [call EXCEPT ![t] = c] /\ unsent' = unsent \ {m}
        /\ UNCHANGED <<state_, functors, owed>>
    BY <1>7 DEF send, connVars, loopVars, historyVars
  <2>2. call' \in [Threads -> Calls] /\ c.at = "sending" /\ c.msg = m
    BY <1>1, <2>1
  <2>3. TypeOK'
    BY <1>3, <2>1, <2>2 DEF TypeOK, kernelVars
  <2>4. \A u \in Threads : call'[u] = IF u = t THEN c ELSE call[u]
    BY <1>1, <2>1
  <2>5. CallInv'
    BY <2>1, <2>2, <2>4 DEF CallInv
  <2> QED BY <1>2, <1>3, <2>1, <2>3, <2>5 DEF NewInv, UpInv
<1>8. CASE StoreDisconnecting(t)
  <2> DEFINE c == [at |-> "shutting", msg |-> Nothing]
  <2>1. /\ call' = [call EXCEPT ![t] = c] /\ state_' = "kDisconnecting"
        /\ owed' = owed \cup PendingOf(t) /\ UNCHANGED <<functors, unsent>>
    BY <1>8 DEF StoreDisconnecting, connVars, loopVars, historyVars
  <2>2. call' \in [Threads -> Calls] /\ c.at = "shutting"
    BY <1>1, <2>1
  <2>3. TypeOK'
    <3>1. PendingOf(t) \subseteq Messages
      BY DEF PendingOf, CallInv
    <3> QED BY <1>3, <2>1, <2>2, <3>1 DEF TypeOK, kernelVars
  <2>4. \A u \in Threads : call'[u] = IF u = t THEN c ELSE call[u]
    BY <1>1, <2>1
  <2>5. CallInv'
    BY <2>1, <2>2, <2>4 DEF CallInv
  <2> QED BY <1>2, <1>3, <2>1, <2>3, <2>5 DEF NewInv, UpInv
<1>9. CASE RunInLoop(t)
  <2>1. PICK f \in {Functor("SendInLoop", call[t].msg, t), Functor("ShutdownInLoop", Nothing, t)} :
          /\ functors' = Append(functors, f)
          /\ f.op = "SendInLoop" => call[t].at = "sending"
    BY <1>9 DEF RunInLoop, Functor
  <2>2. call' = [call EXCEPT ![t] = Idle] /\ UNCHANGED <<state_, unsent, owed>>
    BY <1>9 DEF RunInLoop, connVars, historyVars
  <2>3. call[t] \in Calls
    BY <1>1
  <2>4. /\ f \in Functors /\ f.op \in {"SendInLoop", "ShutdownInLoop"}
        /\ f.op = "SendInLoop" => f.msg \in Messages
    BY <2>1, <2>3 DEF Functor, Functors, FunctorOps, CallInv
  <2>5. Idle \in Calls /\ Idle.at = "none"
    BY DEF Idle
  <2>6. call' \in [Threads -> Calls]
    BY <1>1, <2>2, <2>5
  <2>7. functors' \in Seq(Functors)
    BY <1>1, <2>1, <2>4
  <2>8. TypeOK'
    BY <1>3, <2>2, <2>6, <2>7 DEF TypeOK, kernelVars, Functors
  <2>9. \A u \in Threads : call'[u] = IF u = t THEN Idle ELSE call[u]
    BY <1>1, <2>2
  <2>10. \A k \in DOMAIN functors' :
           (k \in DOMAIN functors /\ functors'[k] = functors[k]) \/ functors'[k] = f
    BY <1>1, <2>1, <2>4
  <2>11. CallInv'
    BY <2>4, <2>5, <2>9, <2>10 DEF CallInv
  <2>12. UpInv'
    BY <1>3, <2>2, <2>4, <2>10 DEF UpInv
  <2> QED BY <1>2, <1>3, <2>8, <2>11, <2>12 DEF NewInv
<1> QED BY <1>6, <1>7, <1>8, <1>9 DEF ThreadBegins, ThreadGoesOn

\* The server queues ConnectDestoryed.
LEMMA ServerRemovesInv == Inv /\ ServerRemoves => Inv'
<1> SUFFICES ASSUME Inv, ServerRemoves PROVE Inv'
  OBVIOUS
<1> USE InvParts
<1> DEFINE f == Plain("ConnectDestoryed")
<1>1. /\ served' = "leaving" /\ functors' = Append(functors, f)
      /\ UNCHANGED <<connVars, todo, inUser, call, unsent, kernelVars, historyVars>>
  BY DEF ServerRemoves
<1>2. f \in Functors /\ f.op = "ConnectDestoryed"
  BY PlainType DEF FunctorOps
<1> HIDE DEF f
<1>3. functors' \in Seq(Functors)
  BY <1>1, <1>2
<1>4. TypeOK'
  BY <1>1, <1>3 DEF TypeOK, Functors, connVars, kernelVars, historyVars
<1>5. /\ Len(functors) \in Nat /\ Len(functors') = Len(functors) + 1
      /\ \A k \in 1..Len(functors) : functors'[k] = functors[k]
      /\ functors'[Len(functors) + 1] = f
  BY <1>1, <1>2
<1>6. CallInv' /\ UpInv'
  BY <1>1, <1>2, <1>3, <1>5 DEF CallInv, UpInv, connVars, historyVars
<1>7. NewInv'
  BY <1>1, <1>2, <1>3, <1>5 DEF NewInv, connVars, historyVars
<1>8. ReadInv' /\ ReportedOnce'
  BY <1>1 DEF ReadInv, ReportedOnce, connVars, historyVars
<1>9. Broken => Broken'
  BY <1>1 DEF Broken, kernelVars
<1>10. NoSpinInv' /\ WriteInterest' /\ StreamInv'
  BY <1>1, <1>9, BufferKept DEF connVars, kernelVars, historyVars
<1> QED BY <1>4, <1>6, <1>7, <1>8, <1>10 DEF Inv, LifeInv

\* The peer changes what the kernel has, and never mends a broken socket.
LEMMA PeerStepInv == Inv /\ PeerStep => Inv'
<1> SUFFICES ASSUME Inv, PeerStep PROVE Inv'
  OBVIOUS
<1> USE InvParts
<1>1. UNCHANGED <<connVars, loopVars, call, unsent, served, wire, wrShut, historyVars>>
  BY DEF PeerStep, PeerReads, PeerSends, PeerCloses, PeerResets
<1>2. inflight' \in 0..SndBuf
  BY ConnectionAssumption DEF PeerStep, PeerReads, PeerSends, PeerCloses, PeerResets, TypeOK
<1>3. {inbox', sockErr'} \subseteq BOOLEAN /\ peer' \in {"open", "fin", "reset"}
        /\ (peer = "reset" => peer' = "reset")
  BY DEF PeerStep, PeerReads, PeerSends, PeerCloses, PeerResets, TypeOK
<1>4. TypeOK'
  BY <1>1, <1>2, <1>3 DEF TypeOK, connVars, loopVars, historyVars
<1>5. CallInv' /\ NewInv' /\ UpInv' /\ ReadInv' /\ ReportedOnce'
  BY <1>1 DEF CallInv, NewInv, UpInv, ReadInv, ReportedOnce, connVars, loopVars, historyVars
<1>6. Broken => Broken'
  BY <1>1, <1>3 DEF Broken
<1>7. NoSpinInv' /\ WriteInterest' /\ StreamInv'
  BY <1>1, <1>6, BufferKept DEF connVars, historyVars
<1> QED BY <1>4, <1>5, <1>7 DEF Inv, LifeInv

\* Every step keeps the invariant.
LEMMA NextInv == Inv /\ [Next]_vars => Inv'
<1> SUFFICES ASSUME Inv, [Next]_vars PROVE Inv'
  OBVIOUS
<1>1. CASE RunFunctor
  <2>1. CASE Head(functors).op = "SendInLoop"
    BY <1>1, <2>1, RunSend DEF RunFunctor
  <2>2. CASE Head(functors).op # "SendInLoop"
    BY <1>1, <2>2, RunOther
  <2> QED BY <2>1, <2>2
<1>2. CASE Poll \/ HeadleRead \/ HandleWrite
  BY <1>2, PollInv, ReadStepInv, WriteStepInv
<1>3. CASE UserReturns \/ UserStep
  BY <1>3, UserStepInv, UserSendsInv DEF UserStep
<1>4. CASE \E t \in Threads : ThreadBegins(t) \/ ThreadGoesOn(t)
  BY <1>4, ThreadStepInv
<1>5. CASE PeerStep \/ ServerRemoves
  BY <1>5, PeerStepInv, ServerRemovesInv
<1>6. CASE UNCHANGED vars
  <2>1. TypeOK'
    BY <1>6, InvParts DEF TypeOK, vars, connVars, loopVars, kernelVars, historyVars
  <2>2. CallInv' /\ NewInv' /\ UpInv' /\ ReadInv' /\ ReportedOnce'
    BY <1>6, InvParts DEF CallInv, NewInv, UpInv, ReadInv, ReportedOnce, vars, connVars,
                          loopVars, historyVars
  <2>3. NoSpinInv' /\ WriteInterest' /\ StreamInv'
    BY <1>6, InvParts DEF NoSpinInv, WriteInterest, StreamInv, Broken, vars, connVars,
                          kernelVars, historyVars
  <2> QED BY <2>1, <2>2, <2>3 DEF Inv, LifeInv
<1> QED BY <1>1, <1>2, <1>3, <1>4, <1>5, <1>6 DEF Next, LoopStep

\* The invariant holds in every state.
LEMMA SpecInv == SafeSpec => []Inv
BY InitInv, NextInv, PTL DEF SafeSpec

-----------------------------------------------------------------------------

\* Type correctness: also the kernel's send buffer never holds more than its
\* capacity, whatever write() is given.
THEOREM TypeCorrect == SafeSpec => []TypeOK
<1>1. Inv => TypeOK
  BY DEF Inv
<1> QED BY <1>1, SpecInv, PTL

\* send() and HandleWrite keep the stream in order, and lose no byte before a
\* later one, however they alternate.
THEOREM StreamCorrect == SafeSpec => []StreamInOrder
<1>1. Inv => StreamInOrder
  <2> SUFFICES ASSUME Inv PROVE StreamInOrder
    OBVIOUS
  <2>1. TypeOK /\ StreamInv
    BY DEF Inv
  <2>2. wire \in Seq(AllBytes) /\ OutputBuffer_ \in Seq(AllBytes) /\ accepted \in Seq(AllBytes)
    BY <2>1 DEF TypeOK
  <2>3. IsPrefix(wire \o OutputBuffer_, accepted)
    <3>1. CASE wire \o OutputBuffer_ = accepted
      BY <3>1, <2>2, PrefixSelf
    <3>2. CASE OutputBuffer_ = <<>> /\ IsPrefix(wire, accepted)
      BY <3>2, <2>2, ConcatEmptySeq
    <3> QED BY <2>1, <3>1, <3>2 DEF StreamInv
  <2> QED BY <2>1, <2>3 DEF StreamInOrder
<1> QED BY <1>1, SpecInv, PTL

\* Until the write side is shut or the peer resets, every byte that
\* SendInLoop was given has been written or is in the output buffer.
THEOREM NothingDropped == SafeSpec => [](~Broken => wire \o OutputBuffer_ = accepted)
<1>1. Inv => (~Broken => wire \o OutputBuffer_ = accepted)
  BY DEF Inv, StreamInv
<1> QED BY <1>1, SpecInv, PTL

\* While the connection is up its channel asks for POLLOUT exactly while
\* bytes are buffered: SendInLoop, HandleWrite and ConnectEstablished agree.
THEOREM WriteInterestKept == SafeSpec => []WriteInterest
<1>1. Inv => WriteInterest
  BY DEF Inv
<1> QED BY <1>1, SpecInv, PTL

\* ConnectionCallback_ is called at most twice: up, then down.
THEOREM ReportedInOrder == SafeSpec => []ReportedOnce
<1>1. Inv => ReportedOnce
  BY DEF Inv, LifeInv
<1> QED BY <1>1, SpecInv, PTL

\* ShutdownInLoop shuts the write side only when the output buffer is empty,
\* as long as the connection has not been reported down.
THEOREM DrainedBeforeShutdown == SafeSpec => BufferDrainedFirst
<1>1. Inv /\ [Next]_vars => [~wrShut /\ wrShut' /\ ~ReportedDown => OutputBuffer_' = <<>>]_vars
  <2> SUFFICES ASSUME Inv, Next, ~wrShut, wrShut', ~ReportedDown
               PROVE  OutputBuffer_' = <<>>
    OBVIOUS
  <2> USE InvParts
  <2>1. reports # <<>> => reports = <<"up">>
    <3>1. reports = <<"up", "down">> => ReportedDown
      <4>1. <<"up", "down">>[2] = "down" /\ 2 \in DOMAIN <<"up", "down">>
        OBVIOUS
      <4> QED BY <4>1 DEF ReportedDown, ToSet
    <3> QED BY <3>1 DEF ReportedOnce
  <2>2. ASSUME reports # <<>>, ShutdownInLoop(channel_), OutputBuffer_' = OutputBuffer_
        PROVE  OutputBuffer_' = <<>>
    BY <2>1, <2>2 DEF ShutdownInLoop, WriteInterest
  <2>3. CASE RunFunctor
    <3>1. functors # <<>>
      BY <2>3 DEF RunFunctor
    <3>2. /\ Head(functors).op = "ShutdownInLoop"
          /\ ShutdownInLoop(channel_) /\ OutputBuffer_' = OutputBuffer_
      BY <2>3 DEF RunFunctor, ConnectEstablished, ConnectDestoryed, connVars
    <3>3. reports # <<>>
      BY <3>1, <3>2, QueueFacts DEF NewInv
    <3> QED BY <2>2, <3>2, <3>3
  <2>4. CASE HandleWrite
    BY <2>4 DEF HandleWrite
  <2>5. CASE UserShutsDown
    <3>1. reports # <<>> /\ ShutdownInLoop(channel_) /\ OutputBuffer_' = OutputBuffer_
      BY <2>5 DEF UserShutsDown, NewInv
    <3> QED BY <2>2, <3>1
  <2>6. RunFunctor \/ HandleWrite \/ UserShutsDown
    BY DEF Next, LoopStep, UserStep, ThreadBegins, ThreadGoesOn, PeerStep, Poll, HeadleRead,
           UserReturns, UserSends, shutdown, send, StoreDisconnecting, RunInLoop, PeerReads,
           PeerSends, PeerCloses, PeerResets, ServerRemoves, kernelVars
  <2> QED BY <2>3, <2>4, <2>5, <2>6
<1> QED BY <1>1, SpecInv, PTL DEF SafeSpec, BufferDrainedFirst
=============================================================================
