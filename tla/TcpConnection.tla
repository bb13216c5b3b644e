---------------------------- MODULE TcpConnection ----------------------------
(***************************************************************************)
(* One TcpConnection of a server (src/src/net/TcpConnection.cpp): its      *)
(* state_, its channel and its output buffer, driven by the loop it lives  *)
(* in, by user code in the loop's callbacks, by other threads that call    *)
(* send() and shutdown(), by the peer and by the server.                   *)
(*                                                                         *)
(* The loop is what SerialExecutor.tla promises and EventLoop.tla keeps:   *)
(* functors run one at a time in the order they were queued, and between   *)
(* them the events that epoll reports are handled.  The channel is that of *)
(* Channel.tla; epoll's view of it is the one Poller.tla shows right.  The *)
(* output buffer is the queue of bytes that Buffer.tla shows it to be as   *)
(* long as it does not have to grow: once it has, Buffer.cpp:103 may size  *)
(* it too short and overrun it.  What is checked and proved here is about  *)
(* connections whose buffered bytes have always fit.                       *)
(*                                                                         *)
(* Assumed of the program around it: it ignores SIGPIPE, and a thread that *)
(* has called send() keeps the connection and the bytes until SendInLoop   *)
(* has run (the functor holds plain pointers to both).                     *)
(***************************************************************************)
EXTENDS Naturals, Sequences, SequencesExt, FiniteSets, Channel

CONSTANTS
  Threads,          \* threads other than the loop's
  LoopThread,
  Messages,         \* each is sent at most once
  Length,           \* the number of bytes of each message
  HighWaterMark_,
  SndBuf,           \* capacity of the kernel's send buffer, in bytes
  Nothing           \* no message

ASSUME ConnectionAssumption ==
  /\ LoopThread \notin Threads
  /\ Nothing \notin Messages
  /\ Length \in [Messages -> Nat]
  /\ HighWaterMark_ \in Nat
  /\ SndBuf \in Nat \ {0}

VARIABLES
  state_, channel_, OutputBuffer_,
  functors,         \* functors of this connection queued in its loop
  todo,             \* callbacks of HandleEventWithGuard still to be called
  inUser,           \* the loop's thread is in a callback of the user
  call,             \* per thread: how far its send() or shutdown() has got
  unsent,           \* messages nobody has sent yet
  served,           \* what the server has done about the connection
  wire,             \* bytes the kernel has taken
  inflight,         \* how many of them the peer has not read
  wrShut,           \* SHUT_WR has been done
  inbox,            \* there are bytes to read
  peer,             \* "open", "fin" (it has shut its side), "reset"
  sockErr,          \* SO_ERROR is set
  accepted,         \* history: bytes given to SendInLoop, in order
  reports,          \* history: calls of ConnectionCallback_
  owed              \* history: messages still queued when their sender's
                    \* shutdown() stored kDisconnecting

connVars == <<state_, channel_, OutputBuffer_>>
loopVars == <<functors, todo, inUser>>
kernelVars == <<wire, inflight, wrShut, inbox, peer, sockErr>>
historyVars == <<accepted, reports, owed>>
vars == <<connVars, loopVars, call, unsent, served, kernelVars, historyVars>>

Functor(op, msg, by) == [op |-> op, msg |-> msg, by |-> by]
Plain(op) == Functor(op, Nothing, LoopThread)

Idle == [at |-> "none", msg |-> Nothing]

\* The bytes of a message.
Bytes(m) == [i \in 1..Length[m] |-> <<m, i>>]

\* The constructor, and the first half of TcpServer::NewConnection.
Init ==
  /\ state_ = "kConnecting"
  /\ channel_ = NewChannel
  /\ OutputBuffer_ = <<>>
  /\ functors = <<Plain("ConnectEstablished")>>
  /\ todo = <<>>
  /\ inUser = FALSE
  /\ call = [t \in Threads |-> Idle]
  /\ unsent = Messages
  /\ served = "open"
  /\ wire = <<>> /\ inflight = 0 /\ wrShut = FALSE
  /\ inbox = FALSE /\ peer = "open" /\ sockErr = FALSE
  /\ accepted = <<>> /\ reports = <<>> /\ owed = {}

-----------------------------------------------------------------------------
(* The socket.                                                             *)

\* write() fails with EPIPE or ECONNRESET.
Broken == wrShut \/ peer = "reset"

\* How many of len bytes a write() takes that does not fail for good; none is
\* EAGAIN.
Taken(len) == IF len <= SndBuf - inflight THEN len ELSE SndBuf - inflight

\* write(data) and what it returns: a failure clears SO_ERROR.
Write(data) ==
  IF Broken
  THEN sockErr' = FALSE /\ UNCHANGED <<wire, inflight>>
  ELSE /\ wire' = wire \o SubSeq(data, 1, Taken(Len(data)))
       /\ inflight' = inflight + Taken(Len(data))
       /\ UNCHANGED sockErr

PeerReads ==
  /\ inflight > 0
  /\ inflight' = inflight - 1
  /\ UNCHANGED <<connVars, loopVars, call, unsent, served, wire, wrShut, inbox,
                 peer, sockErr, historyVars>>

PeerSends ==
  /\ peer = "open"
  /\ ~inbox
  /\ inbox' = TRUE
  /\ UNCHANGED <<connVars, loopVars, call, unsent, served, wire, inflight,
                 wrShut, peer, sockErr, historyVars>>

PeerCloses ==
  /\ peer = "open"
  /\ peer' = "fin"
  /\ UNCHANGED <<connVars, loopVars, call, unsent, served, wire, inflight,
                 wrShut, inbox, sockErr, historyVars>>

PeerResets ==
  /\ peer # "reset"
  /\ peer' = "reset"
  /\ sockErr' = TRUE
  /\ inflight' = 0
  /\ UNCHANGED <<connVars, loopVars, call, unsent, served, wire, wrShut, inbox,
                 historyVars>>

-----------------------------------------------------------------------------
(* What runs in the loop's thread.  queue is the queue of functors without *)
(* the one that is running.                                                *)

\* Mutant: the buffered bytes are not looked at before writing.
WritesAtOnceUnbuffered == ~isWriting(channel_) \/ OutputBuffer_ # <<>>

\* Nothing is waiting to be written ahead of the new bytes.
WritesAtOnce == ~isWriting(channel_) /\ OutputBuffer_ = <<>>

\* Mutant: write interest is left as it is.
BufferedWithoutInterest(remain) ==
  /\ OutputBuffer_' = OutputBuffer_ \o remain
  /\ UNCHANGED channel_

\* The rest of a message goes to the output buffer.
Buffered(remain) ==
  /\ OutputBuffer_' = OutputBuffer_ \o remain
  /\ channel_' = IF isWriting(channel_) THEN channel_
                 ELSE Updated(EnableWriting(channel_))

\* A connection that is kDisconnected is warned about and served all the same.
SendInLoop(m, queue) ==
  LET data == Bytes(m)
      nwrite == IF WritesAtOnce /\ ~Broken THEN Taken(Len(data)) ELSE 0
      err == WritesAtOnce /\ Broken
      remain == SubSeq(data, nwrite + 1, Len(data))
      buffering == ~err /\ remain # <<>>
      complete == WritesAtOnce /\ ~err /\ remain = <<>>
      high == /\ buffering
              /\ Len(OutputBuffer_) + Len(remain) >= HighWaterMark_
              /\ Len(OutputBuffer_) < HighWaterMark_
  IN  /\ IF WritesAtOnce THEN Write(data) ELSE UNCHANGED <<wire, inflight, sockErr>>
      /\ IF buffering THEN Buffered(remain) ELSE UNCHANGED <<OutputBuffer_, channel_>>
      /\ functors' = queue
           \o (IF complete THEN <<Plain("WriteCompleteCallback_")>> ELSE <<>>)
           \o (IF high THEN <<Plain("HighWaterMarkCallback_")>> ELSE <<>>)
      /\ accepted' = accepted \o data

\* Mutant: the socket is shut whether or not bytes are waiting.
ShutdownWithoutWaiting(ch) == wrShut' = (wrShut \/ peer # "reset")

\* On a connection that was reset SHUT_WR fails, which is logged.
ShutdownInLoop(ch) ==
  IF isWriting(ch) THEN UNCHANGED wrShut ELSE wrShut' = (wrShut \/ peer # "reset")

\* The call returns into the user's ConnectionCallback_.
ConnectEstablished ==
  /\ state_' = "kConnected"
  /\ channel_' = Updated(EnableReading(channel_))
  /\ reports' = Append(reports, "up")
  /\ inUser' = TRUE
  /\ UNCHANGED <<OutputBuffer_, served, wire, inflight, wrShut, sockErr, accepted>>

\* Mutant: the connection is reported down whatever its state.
ConnectDestoryedAlwaysReporting ==
  /\ state_' = "kDisconnected"
  /\ channel_' = Removed(Updated(DisableAll(channel_)))
  /\ reports' = Append(reports, "down")
  /\ served' = "destroyed"
  /\ UNCHANGED <<OutputBuffer_, inUser, wire, inflight, wrShut, sockErr, accepted>>

\* The user's callback cannot do anything here: send() and shutdown() return
\* at once when the state is not kConnected.
ConnectDestoryed ==
  /\ IF state_ = "kConnected"
     THEN /\ state_' = "kDisconnected"
          /\ channel_' = Removed(Updated(DisableAll(channel_)))
          /\ reports' = Append(reports, "down")
     ELSE /\ channel_' = Removed(channel_)
          /\ UNCHANGED <<state_, reports>>
  /\ served' = "destroyed"
  /\ UNCHANGED <<OutputBuffer_, inUser, wire, inflight, wrShut, sockErr, accepted>>

\* The loop runs the next functor.
RunFunctor ==
  /\ ~inUser /\ todo = <<>> /\ functors # <<>>
  /\ LET f == Head(functors)
         queue == Tail(functors)
     IN  \/ /\ f.op = "SendInLoop"
            /\ SendInLoop(f.msg, queue)
            /\ UNCHANGED <<state_, inUser, served, wrShut, reports>>
         \/ /\ f.op = "ShutdownInLoop"
            /\ ShutdownInLoop(channel_)
            /\ functors' = queue
            /\ UNCHANGED <<connVars, inUser, served, wire, inflight, sockErr,
                           accepted, reports>>
         \/ /\ f.op = "ConnectEstablished"
            /\ ConnectEstablished
            /\ functors' = queue
         \/ /\ f.op = "ConnectDestoryed"
            /\ ConnectDestoryed
            /\ functors' = queue
         \/ /\ f.op \in {"WriteCompleteCallback_", "HighWaterMarkCallback_"}
            /\ inUser' = TRUE
            /\ functors' = queue
            /\ UNCHANGED <<connVars, served, wire, inflight, wrShut, sockErr,
                           accepted, reports>>
  /\ UNCHANGED <<todo, call, unsent, inbox, peer, owed>>

-----------------------------------------------------------------------------
(* Events.                                                                 *)

Ready ==
  (IF inbox \/ peer # "open" THEN {"POLLIN"} ELSE {})
    \cup (IF Broken \/ inflight < SndBuf THEN {"POLLOUT"} ELSE {})

\* epoll reports hang-ups and errors without being asked.
Failures ==
  (IF peer = "reset" \/ (wrShut /\ peer = "fin") THEN {"POLLHUP"} ELSE {})
    \cup (IF sockErr THEN {"POLLERR"} ELSE {})

\* A TcpConnection sets no close and no error callback on its channel.
Poll ==
  /\ ~inUser /\ todo = <<>>
  /\ channel_.state_ = "ADD"
  /\ todo' = HandleEventWithGuard((Ready \cap channel_.events_) \cup Failures,
                                  {"ReadCallback_", "WriteCallback_"})
  /\ UNCHANGED <<connVars, functors, inUser, call, unsent, served, kernelVars,
                 historyVars>>

\* The user's callback cannot do anything, as above.  CloseCallback_ hands
\* the connection to TcpServer::RemoveConnection.
HandleClose ==
  /\ state_' = "kDisconnected"
  /\ channel_' = Updated(DisableAll(channel_))
  /\ reports' = Append(reports, "down")
  /\ served' = IF served = "open" THEN "closing" ELSE served

\* Mutant: the end of the stream is taken for an error, which is logged.
HeadleReadIgnoringClose ==
  /\ ~inUser /\ todo # <<>> /\ Head(todo) = "ReadCallback_"
  /\ todo' = Tail(todo)
  /\ inbox' = FALSE
  /\ inUser' = inbox
  /\ sockErr' = (sockErr /\ inbox)
  /\ UNCHANGED <<connVars, functors, call, unsent, served, wire, inflight, wrShut,
                 peer, accepted, reports, owed>>

\* ReadFromFd returns bytes for MessageCallback_, an error, which HandleError
\* logs, or the end of the stream.
HeadleRead ==
  /\ ~inUser /\ todo # <<>> /\ Head(todo) = "ReadCallback_"
  /\ todo' = Tail(todo)
  /\ \/ /\ inbox
        /\ inbox' = FALSE
        /\ inUser' = TRUE
        /\ UNCHANGED <<connVars, served, sockErr, reports>>
     \/ /\ ~inbox /\ sockErr
        /\ sockErr' = FALSE
        /\ UNCHANGED <<connVars, inUser, served, inbox, reports>>
     \/ /\ ~inbox /\ ~sockErr /\ peer # "open"
        /\ HandleClose
        /\ UNCHANGED <<OutputBuffer_, inUser, inbox, sockErr>>
  /\ UNCHANGED <<functors, call, unsent, wire, inflight, wrShut, peer, accepted, owed>>

\* Mutant: a connection that is being shut down is not shut when drained.
DrainedWithoutShutdown(ch) == UNCHANGED wrShut

\* if(state_ == kDisconnecting) ShutdownInLoop()
Drained(ch) ==
  IF state_ = "kDisconnecting" THEN ShutdownInLoop(ch) ELSE UNCHANGED wrShut

\* A write that fails, for now or for good, is logged.
HandleWrite ==
  /\ ~inUser /\ todo # <<>> /\ Head(todo) = "WriteCallback_"
  /\ todo' = Tail(todo)
  /\ IF isWriting(channel_)
     THEN LET n == IF Broken THEN 0 ELSE Taken(Len(OutputBuffer_))
              left == SubSeq(OutputBuffer_, n + 1, Len(OutputBuffer_))
          IN  /\ Write(OutputBuffer_)
              /\ OutputBuffer_' = left
              /\ IF n > 0 /\ left = <<>>
                 THEN /\ channel_' = Updated(DisableWriting(channel_))
                      /\ functors' = Append(functors, Plain("WriteCompleteCallback_"))
                      /\ Drained(channel_')
                 ELSE UNCHANGED <<channel_, functors, wrShut>>
     ELSE UNCHANGED <<OutputBuffer_, channel_, functors, wire, inflight, wrShut, sockErr>>
  /\ UNCHANGED <<state_, inUser, call, unsent, served, inbox, peer, historyVars>>

-----------------------------------------------------------------------------
(* send() and shutdown() in a callback of the loop's thread.               *)

UserSends(m) ==
  /\ inUser
  /\ state_ = "kConnected"
  /\ m \in unsent
  /\ unsent' = unsent \ {m}
  /\ SendInLoop(m, functors)
  /\ UNCHANGED <<state_, todo, inUser, call, served, wrShut, inbox, peer, reports, owed>>

UserShutsDown ==
  /\ inUser
  /\ state_ = "kConnected"
  /\ state_' = "kDisconnecting"
  /\ ShutdownInLoop(channel_)
  /\ UNCHANGED <<channel_, OutputBuffer_, loopVars, call, unsent, served, wire,
                 inflight, inbox, peer, sockErr, historyVars>>

UserReturns ==
  /\ inUser
  /\ inUser' = FALSE
  /\ UNCHANGED <<connVars, functors, todo, call, unsent, served, kernelVars, historyVars>>

-----------------------------------------------------------------------------
(* send() and shutdown() in another thread, which has got the connection   *)
(* from ConnectionCallback_: the test of state_, its change, and the queue *)
(* are separate steps.                                                     *)

KnowsConnection(t) == call[t] = Idle /\ reports # <<>>

send(t, m) ==
  /\ KnowsConnection(t)
  /\ state_ = "kConnected"
  /\ m \in unsent
  /\ unsent' = unsent \ {m}
  /\ call' = [call EXCEPT ![t] = [at |-> "sending", msg |-> m]]
  /\ UNCHANGED <<connVars, loopVars, served, kernelVars, historyVars>>

\* What t has sent and SendInLoop has not yet been given; it is owed once t's
\* shutdown() has stored kDisconnecting.
PendingOf(t) ==
  {functors[i].msg : i \in {j \in DOMAIN functors :
                              functors[j].op = "SendInLoop" /\ functors[j].by = t}}

shutdown(t) ==
  /\ KnowsConnection(t)
  /\ state_ = "kConnected"
  /\ call' = [call EXCEPT ![t] = [at |-> "storing", msg |-> Nothing]]
  /\ UNCHANGED <<connVars, loopVars, unsent, served, kernelVars, historyVars>>

StoreDisconnecting(t) ==
  /\ call[t].at = "storing"
  /\ state_' = "kDisconnecting"
  /\ call' = [call EXCEPT ![t] = [at |-> "shutting", msg |-> Nothing]]
  /\ owed' = owed \cup PendingOf(t)
  /\ UNCHANGED <<channel_, OutputBuffer_, loopVars, unsent, served, kernelVars,
                 accepted, reports>>

\* loop_->RunInLoop(...), which queues.
RunInLoop(t) ==
  /\ \/ /\ call[t].at = "sending"
        /\ functors' = Append(functors, Functor("SendInLoop", call[t].msg, t))
     \/ /\ call[t].at = "shutting"
        /\ functors' = Append(functors, Functor("ShutdownInLoop", Nothing, t))
  /\ call' = [call EXCEPT ![t] = Idle]
  /\ UNCHANGED <<connVars, todo, inUser, unsent, served, kernelVars, historyVars>>

-----------------------------------------------------------------------------
(* The server: RemoveConnectionInLoop for a connection that was closed, or *)
(* ~TcpServer for one that was not.                                        *)

ServerRemoves ==
  /\ served \in {"open", "closing"}
  /\ served' = "leaving"
  /\ functors' = Append(functors, Plain("ConnectDestoryed"))
  /\ UNCHANGED <<connVars, todo, inUser, call, unsent, kernelVars, historyVars>>

-----------------------------------------------------------------------------

LoopStep == RunFunctor \/ Poll \/ HeadleRead \/ HandleWrite \/ UserReturns
UserStep == UserShutsDown \/ \E m \in Messages : UserSends(m)
ThreadBegins(t) == shutdown(t) \/ \E m \in Messages : send(t, m)
ThreadGoesOn(t) == StoreDisconnecting(t) \/ RunInLoop(t)
PeerStep == PeerReads \/ PeerSends \/ PeerCloses \/ PeerResets

Next ==
  \/ LoopStep \/ UserStep
  \/ \E t \in Threads : ThreadBegins(t) \/ ThreadGoesOn(t)
  \/ PeerStep \/ ServerRemoves

\* Every iteration of the loop polls and then runs the functors, callbacks
\* return, calls that have begun go on, and the peer goes on reading.  A peer
\* that stops reading may hold back a shutdown for ever.
Fairness ==
  /\ SF_vars(RunFunctor) /\ SF_vars(Poll)
  /\ WF_vars(HeadleRead) /\ WF_vars(HandleWrite) /\ WF_vars(UserReturns)
  /\ \A t \in Threads : WF_vars(ThreadGoesOn(t))
  /\ WF_vars(PeerReads) /\ WF_vars(served = "closing" /\ ServerRemoves)

SafeSpec == Init /\ [][Next]_vars
Spec == SafeSpec /\ Fairness

-----------------------------------------------------------------------------
(* Properties.                                                             *)

FunctorOps ==
  {"SendInLoop", "ShutdownInLoop", "ConnectEstablished", "ConnectDestoryed",
   "WriteCompleteCallback_", "HighWaterMarkCallback_"}

AllBytes == UNION {{<<m, i>> : i \in 1..Length[m]} : m \in Messages}

\* Type invariant; the send buffer keeps its capacity.
TypeOK ==
  /\ state_ \in {"kDisconnected", "kDisconnecting", "kConnecting", "kConnected"}
  /\ channel_ \in ChannelRecords
  /\ OutputBuffer_ \in Seq(AllBytes)
  /\ functors \in Seq([op : FunctorOps, msg : Messages \cup {Nothing},
                        by : Threads \cup {LoopThread}])
  /\ todo \in Seq({"ReadCallback_", "WriteCallback_"})
  /\ inUser \in BOOLEAN
  /\ call \in [Threads -> [at : {"none", "sending", "storing", "shutting"},
                            msg : Messages \cup {Nothing}]]
  /\ unsent \subseteq Messages
  /\ served \in {"open", "closing", "leaving", "destroyed"}
  /\ wire \in Seq(AllBytes)
  /\ inflight \in 0..SndBuf
  /\ {wrShut, inbox, sockErr} \subseteq BOOLEAN
  /\ peer \in {"open", "fin", "reset"}
  /\ accepted \in Seq(AllBytes)
  /\ reports \in Seq({"up", "down"})
  /\ owed \subseteq Messages

ReportedDown == "down" \in ToSet(reports)

\* The peer gets the messages in the order in which SendInLoop got them, each
\* byte once and none left out before a later one, however writes, partial
\* writes, EAGAIN and the buffer alternate.
StreamInOrder == TypeOK /\ IsPrefix(wire \o OutputBuffer_, accepted)

\* As long as the connection is up the channel asks for POLLOUT exactly while
\* bytes are buffered: none is forgotten, and the loop does not spin.
WriteInterest ==
  reports = <<"up">> => (isWriting(channel_) <=> OutputBuffer_ # <<>>)

\* ConnectionCallback_ is called once when the connection comes up and at most
\* once when it goes down, though HandleClose and ConnectDestoryed may both
\* come and a shutdown() in another thread may overwrite kDisconnected.
ReportedOnce == reports \in {<<>>, <<"up">>, <<"up", "down">>}

\* The write side is shut after the last buffered byte has been written, also
\* when shutdown() comes between two writes.
BufferDrainedFirst ==
  [][~wrShut /\ wrShut' /\ ~ReportedDown => OutputBuffer_' = <<>>]_vars

\* When the write side is shut nothing is left to send: not in the buffer, and
\* not in the queue if a thread whose shutdown() has set kDisconnecting had
\* sent it before.
ShutdownFlushes ==
  [][~wrShut /\ wrShut' /\ ~ReportedDown =>
       /\ OutputBuffer_' = <<>>
       /\ \A t \in Threads : owed \cap PendingOf(t) = {}]_vars

\* SendInLoop does nothing for a connection that is kDisconnected, as its
\* comment says.
NoSendAfterClose ==
  [][state_ = "kDisconnected" /\ accepted' # accepted =>
       UNCHANGED <<wire, OutputBuffer_, channel_>>]_vars

\* A shutdown() completes: the bytes are drained and the write side is shut,
\* unless the connection is closed or destroyed first.
ShutdownCompletes ==
  state_ = "kDisconnecting" ~>
    wrShut \/ peer = "reset" \/ ReportedDown \/ served = "destroyed"

\* A peer that closes or resets is noticed, though no close or error callback
\* is set on the channel: the connection is reported down, unless the server
\* destroys it first.
CloseIsNoticed ==
  peer # "open" /\ reports = <<"up">> ~> ReportedDown \/ served = "destroyed"
=============================================================================
