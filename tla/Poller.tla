------------------------------- MODULE Poller -------------------------------
(***************************************************************************)
(* The Poller of one loop (src/src/net/Poller.cpp), the channels handed to *)
(* it, and the epoll instance behind it.  Three records of one fact, that  *)
(* a channel is registered, have to agree: state_ in the channel, the map  *)
(* channels_, and the interest list of the kernel.  File descriptors are   *)
(* closed and given out again, and a new Channel may be made for one.      *)
(*                                                                         *)
(* All of it happens in the loop's thread.                                 *)
(***************************************************************************)
EXTENDS Naturals, FiniteSets, Channel

CONSTANTS
  Channels,            \* addresses at which Channel objects are made
  Fds,                 \* file descriptors
  InitEventListSize,
  None                 \* no channel, no descriptor, no epoll entry

ASSUME PollerAssumption ==
  /\ None \notin Channels
  /\ None \notin Fds
  /\ None \notin [ptr : Channels, mask : SUBSET InterestEvents]
  /\ InitEventListSize \in Nat \ {0}

VARIABLES
  fd_,                 \* the channel's descriptor; None: no object there
  channel,             \* the channel's members
  channels_,           \* ChannelMap: descriptor to channel
  epoll,               \* kernel: descriptor to entry of the interest list
  eventListSize,       \* events_.size() of the Poller
  ActiveChannels_,     \* reported and not yet handled
  aborted              \* LOG_FATAL has been reached

vars == <<fd_, channel, channels_, epoll, eventListSize, ActiveChannels_, aborted>>

Alive(c) == fd_[c] # None

EpollEntries == [ptr : Channels, mask : SUBSET InterestEvents]

Init ==
  /\ fd_ = [c \in Channels |-> None]
  /\ channel = [c \in Channels |-> NewChannel]
  /\ channels_ = [f \in Fds |-> None]
  /\ epoll = [f \in Fds |-> None]
  /\ eventListSize = InitEventListSize
  /\ ActiveChannels_ = {}
  /\ aborted = FALSE

-----------------------------------------------------------------------------
(* Objects come and go.                                                    *)

\* The owner opens a descriptor and makes a Channel for it.
Construct(c, f) ==
  /\ ~Alive(c)
  /\ \A d \in Channels : fd_[d] # f
  /\ fd_' = [fd_ EXCEPT ![c] = f]
  /\ channel' = [channel EXCEPT ![c] = NewChannel]
  /\ UNCHANGED <<channels_, epoll, eventListSize, ActiveChannels_, aborted>>

\* The owner destroys the Channel and closes the descriptor; the kernel then
\* drops its entry.  It is not assumed that remove() was the last call, nor
\* that no handler is running: the destructors of TcpServer and Acceptor end
\* channels of their own loop in place, and may be called from a handler.
Destroy(c) ==
  /\ Alive(c)
  /\ fd_' = [fd_ EXCEPT ![c] = None]
  /\ epoll' = [epoll EXCEPT ![fd_[c]] = None]
  /\ UNCHANGED <<channel, channels_, eventListSize, ActiveChannels_, aborted>>

-----------------------------------------------------------------------------
(* Poller::update and epoll_ctl.                                           *)

\* EEXIST for an ADD, ENOENT for a MOD or a DEL.
CtlFails(op, f) == (op = "EPOLL_CTL_ADD") <=> (epoll[f] # None)

\* A DEL that fails is logged; an ADD or MOD that fails is fatal.
update(op, c, mask) ==
  IF CtlFails(op, fd_[c])
  THEN /\ aborted' = (op # "EPOLL_CTL_DEL")
       /\ UNCHANGED epoll
  ELSE /\ epoll' = [epoll EXCEPT ![fd_[c]] =
                      IF op = "EPOLL_CTL_DEL" THEN None
                      ELSE [ptr |-> c, mask |-> mask]]
       /\ UNCHANGED aborted

\* Mutant: a channel whose mask is empty is unregistered and stays ADD.
UpdateChannelKeepingState(c, ch) ==
  /\ channel' = [channel EXCEPT ![c] = [ch EXCEPT !.state_ = "ADD"]]
  /\ channels_' = [channels_ EXCEPT ![fd_[c]] =
                     IF ch.state_ = "NEW" THEN c ELSE @]
  /\ update(EpollOp(ch), c, ch.events_)

\* Called with the channel after its mask has been changed.
UpdateChannel(c, ch) ==
  /\ channel' = [channel EXCEPT ![c] = Updated(ch)]
  /\ channels_' = [channels_ EXCEPT ![fd_[c]] =
                     IF ch.state_ = "NEW" THEN c ELSE @]
  /\ update(EpollOp(ch), c, ch.events_)

\* Mutant: the kernel's entry is left behind.
RemoveChannelOnlyHere(c) ==
  /\ Alive(c)
  /\ channels_' = [channels_ EXCEPT ![fd_[c]] = None]
  /\ channel' = [channel EXCEPT ![c] = Removed(channel[c])]
  /\ UNCHANGED <<fd_, epoll, eventListSize, ActiveChannels_, aborted>>

RemoveChannel(c) ==
  /\ Alive(c)
  /\ channels_' = [channels_ EXCEPT ![fd_[c]] = None]
  /\ channel' = [channel EXCEPT ![c] = Removed(channel[c])]
  /\ IF channel[c].state_ = "ADD"
     THEN update("EPOLL_CTL_DEL", c, channel[c].events_)
     ELSE UNCHANGED <<epoll, aborted>>
  /\ UNCHANGED <<fd_, eventListSize, ActiveChannels_>>

\* One of the five calls that change the mask, and its update().
ChangeMask(c) ==
  /\ Alive(c)
  /\ \E ch \in {EnableReading(channel[c]), DisableReading(channel[c]),
                EnableWriting(channel[c]), DisableWriting(channel[c]),
                DisableAll(channel[c])} : UpdateChannel(c, ch)
  /\ UNCHANGED <<fd_, eventListSize, ActiveChannels_>>

hasChannel(c) == channels_[fd_[c]] = c

-----------------------------------------------------------------------------
(* Poller::poll and the loop's handling of its result.                     *)

Grown(num) == IF num = eventListSize THEN 2 * eventListSize ELSE eventListSize

Reported(ready) == {epoll[f].ptr : f \in ready}

\* epoll_wait reports some registered descriptors, no more than fit the list.
\* What it reports of each only matters to the channel's callbacks.
Poll(ready) ==
  /\ ActiveChannels_ = {}
  /\ ready \subseteq {f \in Fds : epoll[f] # None}
  /\ Cardinality(ready) <= eventListSize
  /\ ActiveChannels_' = Reported(ready)
  /\ eventListSize' = Grown(Cardinality(ready))
  /\ UNCHANGED <<fd_, channel, channels_, epoll, aborted>>

\* EventLoop::start calls HandleEvent of the next channel.  Its callbacks are
\* the calls that other actions make before the next HandleEvent.  If an
\* earlier handler has destroyed the object the call is undefined behaviour,
\* which is not followed: ActiveChannels_ keeps the dangling pointer.
HandleEvent(c) ==
  /\ c \in ActiveChannels_
  /\ Alive(c)
  /\ ActiveChannels_' = ActiveChannels_ \ {c}
  /\ UNCHANGED <<fd_, channel, channels_, epoll, eventListSize, aborted>>

Next ==
  /\ ~aborted
  /\ \/ \E c \in Channels :
          \/ \E f \in Fds : Construct(c, f)
          \/ Destroy(c) \/ ChangeMask(c) \/ RemoveChannel(c) \/ HandleEvent(c)
     \/ \E ready \in SUBSET Fds : Poll(ready)

Spec == Init /\ [][Next]_vars

-----------------------------------------------------------------------------
(* Properties.                                                             *)

\* Type invariant; the event list is never empty, as epoll_wait requires.
TypeOK ==
  /\ fd_ \in [Channels -> Fds \cup {None}]
  /\ channel \in [Channels -> ChannelRecords]
  /\ channels_ \in [Fds -> Channels \cup {None}]
  /\ epoll \in [Fds -> EpollEntries \cup {None}]
  /\ eventListSize \in Nat \ {0}
  /\ ActiveChannels_ \subseteq Channels
  /\ aborted \in BOOLEAN

\* The kernel has an entry exactly for the live channels in state ADD, it
\* leads back to the channel and carries the mask of the channel.
EpollMatches ==
  /\ \A c \in Channels : Alive(c) /\ channel[c].state_ = "ADD" =>
       epoll[fd_[c]] = [ptr |-> c, mask |-> channel[c].events_]
  /\ \A f \in Fds : epoll[f] # None =>
       fd_[epoll[f].ptr] = f /\ channel[epoll[f].ptr].state_ = "ADD"

\* A channel that has been handed to the Poller and not removed is found in
\* channels_, also when its descriptor belonged to another channel before.
MapMatches ==
  \A c \in Channels : Alive(c) /\ channel[c].state_ # "NEW" => hasChannel(c)

\* The three records of a registration agree: that of the channel, the map of
\* the Poller and the list of the kernel.
Registered == EpollMatches /\ MapMatches

\* No sequence of calls, removals and reuse of descriptors makes epoll_ctl
\* refuse an ADD or a MOD: update() never reaches LOG_FATAL.
NeverFatal == ~aborted
=============================================================================
