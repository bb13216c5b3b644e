SPECIFICATION Spec
CONSTANTS
  t1 = t1  t2 = t2
  f1 = f1  f2 = f2  f3 = f3
  io1 = io1
  Threads <- TwoThreads
  LoopThread = LoopThread
  Functors <- ThreeFunctors
  IoChannels <- OneChannel
  WakeupChannel_ = WakeupChannel_
  None = None
  EventfdMax = 2
  OwnerQueuesEarly = FALSE
INVARIANTS NoLostTask NoLostQuit
PROPERTIES ExecutorSpec QuitTakesEffect
