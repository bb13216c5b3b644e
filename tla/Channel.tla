------------------------------- MODULE Channel -------------------------------
(***************************************************************************)
(* A Channel (src/src/net/Channel.cpp) as a value: the events it is        *)
(* interested in and what the Poller believes about its registration.  The *)
(* operations are operators from a channel to the channel after the call;  *)
(* Poller.tla and TcpConnection.tla use them in their actions.  revents_   *)
(* is a parameter of HandleEventWithGuard: the poll that precedes a call   *)
(* always sets it.                                                         *)
(***************************************************************************)
EXTENDS Sequences

\* The event bits of <poll.h>; a mask is a set of them.  The code always
\* sets, clears and tests POLLIN and POLLPRI together: one bit stands for both.
ReadEvents == {"POLLIN"}
InterestEvents == ReadEvents \cup {"POLLOUT"}

\* enum Poller::states.
States == {"NEW", "ADD", "DELETED"}

ChannelRecords == [events_ : SUBSET InterestEvents, state_ : States]

NewChannel == [events_ |-> {}, state_ |-> "NEW"]

isWriting(ch) == "POLLOUT" \in ch.events_
isNoneEvent(ch) == ch.events_ = {}

-----------------------------------------------------------------------------
(* Poller::UpdateChannel and RemoveChannel, as far as they concern the     *)
(* channel: the epoll_ctl operation and the next state_.                   *)

EpollOp(ch) ==
  CASE ch.state_ \in {"NEW", "DELETED"} -> "EPOLL_CTL_ADD"
    [] ch.state_ = "ADD" /\ isNoneEvent(ch) -> "EPOLL_CTL_DEL"
    [] OTHER -> "EPOLL_CTL_MOD"

\* Also with an empty mask a channel that is not registered becomes ADD.
Updated(ch) ==
  [ch EXCEPT !.state_ = IF EpollOp(ch) = "EPOLL_CTL_DEL" THEN "DELETED" ELSE "ADD"]

Removed(ch) == [ch EXCEPT !.state_ = "NEW"]

-----------------------------------------------------------------------------
(* The calls of a channel's owner.  Each changes the mask; update() then   *)
(* hands the channel to UpdateChannel.                                     *)

EnableReading(ch) == [ch EXCEPT !.events_ = @ \cup ReadEvents]
DisableReading(ch) == [ch EXCEPT !.events_ = @ \ ReadEvents]
EnableWriting(ch) == [ch EXCEPT !.events_ = @ \cup {"POLLOUT"}]
DisableWriting(ch) == [ch EXCEPT !.events_ = @ \ {"POLLOUT"}]
DisableAll(ch) == [ch EXCEPT !.events_ = {}]

-----------------------------------------------------------------------------
(* HandleEventWithGuard: the callbacks that revents_ calls, in this order, *)
(* of those that the owner has set.                                        *)

HandleEventWithGuard(revents, set) ==
  LET When(condition, callback) ==
        IF condition /\ callback \in set THEN <<callback>> ELSE <<>>
  IN  When("POLLHUP" \in revents /\ "POLLIN" \notin revents, "CloseCallback_")
      \o When("POLLERR" \in revents, "ErrorCallback_")
      \o When(revents \cap ReadEvents # {}, "ReadCallback_")
      \o When("POLLOUT" \in revents, "WriteCallback_")
=============================================================================
