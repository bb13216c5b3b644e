---------------------------- MODULE PollerProofs ----------------------------
(***************************************************************************)
(* Proofs about Poller for any number of channels and descriptors: the     *)
(* three records of a registration agree, and epoll_ctl never refuses an   *)
(* ADD or a MOD.                                                           *)
(***************************************************************************)
EXTENDS Poller, TLAPS, FiniteSetTheorems

\* What the owners guarantee: no two live channels have the same descriptor.
FdsDistinct ==
  \A c, d \in Channels : Alive(c) /\ fd_[c] = fd_[d] => c = d

Inv ==
  /\ TypeOK
  /\ FdsDistinct
  /\ EpollMatches
  /\ MapMatches
  /\ NeverFatal

\* An entry of the kernel's list is not the mark for its absence.
LEMMA EntryNotNone == \A e \in EpollEntries : e # None
BY PollerAssumption DEF EpollEntries

\* Whatever call changes the mask, the channel stays a channel with the same
\* state_.
LEMMA MaskCalls ==
  ASSUME NEW ch \in ChannelRecords,
         NEW ch1 \in {EnableReading(ch), DisableReading(ch), EnableWriting(ch),
                      DisableWriting(ch), DisableAll(ch)}
  PROVE  ch1 \in ChannelRecords /\ ch1.state_ = ch.state_
BY DEF ChannelRecords, EnableReading, DisableReading, EnableWriting,
       DisableWriting, DisableAll, InterestEvents, ReadEvents, States

\* UpdateChannel asks for an ADD exactly if the channel is not registered,
\* and leaves state_ as the operation requires.
LEMMA UpdatedFacts ==
  ASSUME NEW ch \in ChannelRecords
  PROVE  /\ Updated(ch) \in ChannelRecords
         /\ Updated(ch).events_ = ch.events_
         /\ Updated(ch).state_ = IF EpollOp(ch) = "EPOLL_CTL_DEL" THEN "DELETED"
                                 ELSE "ADD"
         /\ EpollOp(ch) = "EPOLL_CTL_ADD" <=> ch.state_ # "ADD"
         /\ EpollOp(ch) \in {"EPOLL_CTL_ADD", "EPOLL_CTL_DEL", "EPOLL_CTL_MOD"}
BY DEF ChannelRecords, Updated, EpollOp, States

\* RemoveChannel leaves a channel that is as good as new.
LEMMA RemovedFacts ==
  ASSUME NEW ch \in ChannelRecords
  PROVE  Removed(ch) \in ChannelRecords /\ Removed(ch).state_ = "NEW"
BY DEF ChannelRecords, Removed, States

\* Under the invariant the kernel has an entry for a live channel's
\* descriptor if and only if the channel is in state ADD.
LEMMA EntryIffAdd ==
  ASSUME TypeOK, FdsDistinct, EpollMatches, NEW c \in Channels, Alive(c)
  PROVE  epoll[fd_[c]] # None <=> channel[c].state_ = "ADD"
<1>1. fd_[c] \in Fds
  BY DEF TypeOK, Alive
<1>2. CASE channel[c].state_ = "ADD"
  <2>1. [ptr |-> c, mask |-> channel[c].events_] \in EpollEntries
    BY DEF TypeOK, ChannelRecords, EpollEntries
  <2> QED BY <1>2, <2>1, EntryNotNone DEF EpollMatches
<1>3. CASE epoll[fd_[c]] # None
  <2>1. epoll[fd_[c]] \in EpollEntries
    BY <1>1, <1>3 DEF TypeOK
  <2>2. epoll[fd_[c]].ptr \in Channels
    BY <2>1 DEF EpollEntries
  <2>3. epoll[fd_[c]].ptr = c
    BY <1>1, <1>3, <2>2 DEF EpollMatches, FdsDistinct, Alive
  <2> QED BY <1>1, <1>3, <2>3 DEF EpollMatches
<1> QED BY <1>2, <1>3

-----------------------------------------------------------------------------

\* The constructed Poller satisfies the invariant.
LEMMA InitInv == Init => Inv
<1> SUFFICES ASSUME Init PROVE Inv
  OBVIOUS
<1>1. TypeOK
  BY PollerAssumption
  DEF Init, TypeOK, ChannelRecords, NewChannel, States
<1> QED
  BY <1>1 DEF Init, Inv, FdsDistinct, EpollMatches, MapMatches, NeverFatal,
              Alive

\* A new channel, on a descriptor that is free, keeps the invariant.
LEMMA ConstructInv ==
  ASSUME Inv, NEW c \in Channels, NEW f \in Fds, Construct(c, f)
  PROVE  Inv'
<1> USE PollerAssumption DEF Inv, Construct, Alive
<1>1. NewChannel \in ChannelRecords /\ NewChannel.state_ = "NEW"
  BY DEF NewChannel, ChannelRecords, States
<1>2. TypeOK'
  BY <1>1 DEF TypeOK
<1>3. FdsDistinct'
  BY DEF FdsDistinct, TypeOK
<1>4. EpollMatches'
  <2>1. ASSUME NEW g \in Fds, epoll[g] # None
        PROVE  epoll[g].ptr \in Channels /\ epoll[g].ptr # c
    BY <2>1 DEF TypeOK, EpollEntries, EpollMatches
  <2> QED BY <1>1, <2>1 DEF EpollMatches, TypeOK
<1>5. MapMatches'
  BY <1>1 DEF MapMatches, TypeOK, hasChannel
<1>6. NeverFatal'
  BY DEF NeverFatal
<1> QED BY <1>2, <1>3, <1>4, <1>5, <1>6

\* Destroying a channel, removed or not, keeps the invariant.
LEMMA DestroyInv ==
  ASSUME Inv, NEW c \in Channels, Destroy(c)
  PROVE  Inv'
<1> USE PollerAssumption DEF Inv, Destroy, Alive
<1>1. fd_[c] \in Fds
  BY DEF TypeOK
<1>2. TypeOK'
  BY <1>1 DEF TypeOK
<1>3. FdsDistinct'
  BY DEF FdsDistinct, TypeOK
<1>4. EpollMatches'
  <2>1. ASSUME NEW g \in Fds, epoll'[g] # None
        PROVE  /\ epoll[g] # None /\ epoll'[g] = epoll[g] /\ g # fd_[c]
               /\ epoll[g].ptr \in Channels
    BY <1>1, <2>1 DEF TypeOK, EpollEntries
  <2>2. ASSUME NEW d \in Channels, fd_'[d] # None
        PROVE  d # c /\ fd_'[d] = fd_[d] /\ fd_[d] # fd_[c] /\ fd_[d] \in Fds
    BY <1>1, <2>2 DEF TypeOK, FdsDistinct
  <2> QED BY <1>1, <2>1, <2>2 DEF EpollMatches, TypeOK
<1>5. MapMatches'
  BY DEF MapMatches, TypeOK, hasChannel
<1>6. NeverFatal'
  BY DEF NeverFatal
<1> QED BY <1>2, <1>3, <1>4, <1>5, <1>6

\* A change of one live channel's record, of its place in channels_ and of
\* its descriptor's entry that keeps the three in agreement.
LEMMA LocalChange ==
  ASSUME Inv, NEW c \in Channels, Alive(c),
         NEW ch \in ChannelRecords, NEW e \in EpollEntries \cup {None},
         NEW m \in Channels \cup {None},
         e = IF ch.state_ = "ADD" THEN [ptr |-> c, mask |-> ch.events_] ELSE None,
         ch.state_ # "NEW" => m = c,
         channel' = [channel EXCEPT ![c] = ch],
         epoll' = [epoll EXCEPT ![fd_[c]] = e],
         channels_' = [channels_ EXCEPT ![fd_[c]] = m],
         UNCHANGED <<fd_, eventListSize, ActiveChannels_, aborted>>
  PROVE  Inv'
<1> USE PollerAssumption DEF Inv, Alive
<1>1. fd_[c] \in Fds
  BY DEF TypeOK
<1>2. TypeOK'
  BY <1>1 DEF TypeOK
<1>3. FdsDistinct'
  BY DEF FdsDistinct
<1>4. EpollMatches'
  <2>1. ASSUME NEW d \in Channels, fd_[d] # None, channel'[d].state_ = "ADD"
        PROVE  epoll'[fd_[d]] = [ptr |-> d, mask |-> channel'[d].events_]
    <3>1. CASE d = c
      BY <1>1, <2>1, <3>1 DEF TypeOK
    <3>2. CASE d # c
      BY <1>1, <2>1, <3>2 DEF TypeOK, FdsDistinct, EpollMatches
    <3> QED BY <3>1, <3>2
  <2>2. ASSUME NEW f \in Fds, epoll'[f] # None
        PROVE  /\ fd_[epoll'[f].ptr] = f
               /\ channel'[epoll'[f].ptr].state_ = "ADD"
    <3>1. CASE f = fd_[c]
      <4>1. epoll'[f] = e /\ e # None
        BY <1>1, <2>2, <3>1 DEF TypeOK
      <4>2. ch.state_ = "ADD" /\ e.ptr = c
        BY <4>1
      <4> QED BY <3>1, <4>1, <4>2 DEF TypeOK
    <3>2. CASE f # fd_[c]
      <4>1. epoll'[f] = epoll[f] /\ epoll[f] # None /\ epoll[f].ptr \in Channels
        BY <1>1, <2>2, <3>2 DEF TypeOK, EpollEntries
      <4>2. epoll[f].ptr # c
        BY <3>2, <4>1 DEF EpollMatches
      <4> QED BY <4>1, <4>2 DEF EpollMatches, TypeOK
    <3> QED BY <3>1, <3>2
  <2> QED BY <2>1, <2>2 DEF EpollMatches
<1>5. MapMatches'
  <2> SUFFICES ASSUME NEW d \in Channels, fd_[d] # None, channel'[d].state_ # "NEW"
               PROVE  channels_'[fd_[d]] = d
    BY DEF MapMatches, hasChannel
  <2>1. CASE d = c
    BY <1>1, <2>1 DEF TypeOK
  <2>2. CASE d # c
    BY <1>1, <2>2 DEF TypeOK, FdsDistinct, MapMatches, hasChannel
  <2> QED BY <2>1, <2>2
<1>6. NeverFatal'
  BY DEF NeverFatal
<1> QED BY <1>2, <1>3, <1>4, <1>5, <1>6

\* enable and disable calls keep the invariant.
LEMMA ChangeMaskInv ==
  ASSUME Inv, NEW c \in Channels, ChangeMask(c)
  PROVE  Inv'
<1>1. /\ Alive(c) /\ fd_[c] \in Fds /\ channel[c] \in ChannelRecords
      /\ channels_[fd_[c]] \in Channels \cup {None}
  BY DEF ChangeMask, Inv, TypeOK, Alive
<1>2. PICK ch \in {EnableReading(channel[c]), DisableReading(channel[c]),
                   EnableWriting(channel[c]), DisableWriting(channel[c]),
                   DisableAll(channel[c])} : UpdateChannel(c, ch)
  BY DEF ChangeMask
<1>3. ch \in ChannelRecords /\ ch.state_ = channel[c].state_
  BY <1>1, <1>2, MaskCalls
<1> DEFINE op == EpollOp(ch)
           e == IF op = "EPOLL_CTL_DEL" THEN None
                ELSE [ptr |-> c, mask |-> ch.events_]
           m == IF ch.state_ = "NEW" THEN c ELSE channels_[fd_[c]]
<1>4. ~CtlFails(op, fd_[c])
  <2>1. epoll[fd_[c]] # None <=> channel[c].state_ = "ADD"
    BY <1>1, EntryIffAdd DEF Inv
  <2>2. op = "EPOLL_CTL_ADD" <=> ch.state_ # "ADD"
    BY <1>3, UpdatedFacts
  <2> QED BY <1>3, <2>1, <2>2 DEF CtlFails
<1>5. epoll' = [epoll EXCEPT ![fd_[c]] = e] /\ aborted' = aborted
  BY <1>2, <1>4 DEF UpdateChannel, update
<1>6. /\ Updated(ch) \in ChannelRecords
      /\ e = IF Updated(ch).state_ = "ADD"
             THEN [ptr |-> c, mask |-> Updated(ch).events_] ELSE None
      /\ Updated(ch).state_ # "NEW"
  BY <1>3, UpdatedFacts
<1>7. e \in EpollEntries \cup {None}
  BY <1>3 DEF EpollEntries, ChannelRecords
<1>8. m = c /\ m \in Channels \cup {None}
  BY <1>1, <1>3 DEF Inv, MapMatches, hasChannel
<1>9. /\ channel' = [channel EXCEPT ![c] = Updated(ch)]
      /\ channels_' = [channels_ EXCEPT ![fd_[c]] = m]
      /\ UNCHANGED <<fd_, eventListSize, ActiveChannels_>>
  BY <1>1, <1>2 DEF UpdateChannel, ChangeMask
<1> HIDE DEF e, m, op
<1> QED BY <1>1, <1>5, <1>6, <1>7, <1>8, <1>9, LocalChange

\* remove() keeps the invariant.
LEMMA RemoveChannelInv ==
  ASSUME Inv, NEW c \in Channels, RemoveChannel(c)
  PROVE  Inv'
<1>1. Alive(c) /\ fd_[c] \in Fds /\ channel[c] \in ChannelRecords
  BY DEF RemoveChannel, Inv, TypeOK, Alive
<1>2. Removed(channel[c]) \in ChannelRecords /\ Removed(channel[c]).state_ = "NEW"
  BY <1>1, RemovedFacts
<1>3. epoll[fd_[c]] # None <=> channel[c].state_ = "ADD"
  BY <1>1, EntryIffAdd DEF Inv
<1>4. epoll' = [epoll EXCEPT ![fd_[c]] = None] /\ aborted' = aborted
  <2>1. CASE channel[c].state_ = "ADD"
    <3>1. ~CtlFails("EPOLL_CTL_DEL", fd_[c])
      BY <1>3, <2>1 DEF CtlFails
    <3> QED BY <2>1, <3>1 DEF RemoveChannel, update
  <2>2. CASE channel[c].state_ # "ADD"
    <3>1. epoll[fd_[c]] = None /\ epoll' = epoll /\ aborted' = aborted
      BY <1>3, <2>2 DEF RemoveChannel
    <3> QED BY <1>1, <3>1 DEF Inv, TypeOK
  <2> QED BY <2>1, <2>2
<1>5. /\ channel' = [channel EXCEPT ![c] = Removed(channel[c])]
      /\ channels_' = [channels_ EXCEPT ![fd_[c]] = None]
      /\ UNCHANGED <<fd_, eventListSize, ActiveChannels_>>
  BY DEF RemoveChannel
<1> QED BY <1>1, <1>2, <1>4, <1>5, LocalChange

\* poll() keeps the invariant.
LEMMA PollInv ==
  ASSUME Inv, NEW ready \in SUBSET Fds, Poll(ready)
  PROVE  Inv'
<1> USE DEF Inv, Poll
<1>1. \A f \in ready : epoll[f].ptr \in Channels
  BY PollerAssumption DEF TypeOK, EpollEntries
<1>2. eventListSize' \in Nat \ {0}
  BY DEF TypeOK, Grown
<1>3. ActiveChannels_' \subseteq Channels
  BY <1>1 DEF Reported
<1> QED
  BY <1>2, <1>3 DEF TypeOK, FdsDistinct, EpollMatches, MapMatches, NeverFatal,
                    Alive, hasChannel

\* Handling the events of a channel keeps the invariant.
LEMMA HandleEventInv ==
  ASSUME Inv, NEW c \in Channels, HandleEvent(c)
  PROVE  Inv'
BY DEF Inv, HandleEvent, TypeOK, FdsDistinct, EpollMatches, MapMatches,
       NeverFatal, Alive, hasChannel

\* Every step keeps the invariant.
LEMMA NextInv == Inv /\ [Next]_vars => Inv'
<1>1. CASE UNCHANGED vars
  BY <1>1 DEF vars, Inv, TypeOK, FdsDistinct, EpollMatches, MapMatches,
              NeverFatal, Alive, hasChannel
<1> QED
  BY <1>1, ConstructInv, DestroyInv, ChangeMaskInv, RemoveChannelInv, PollInv,
     HandleEventInv DEF Next

\* Every reachable state satisfies the invariant.
LEMMA Invariance == Spec => []Inv
BY InitInv, NextInv, PTL DEF Spec

-----------------------------------------------------------------------------

\* Type invariant.
THEOREM TypeCorrect == Spec => []TypeOK
BY Invariance, PTL DEF Inv

\* The kernel's interest list and state_ and events_ of the channels agree
\* after every call, for any number of channels and any reuse of descriptors.
THEOREM RegistrationAgrees == Spec => []Registered
BY Invariance, PTL DEF Inv, Registered

\* Poller::update never aborts the process.
THEOREM UpdateNeverFatal == Spec => []NeverFatal
BY Invariance, PTL DEF Inv
=============================================================================
