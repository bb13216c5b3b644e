SPECIFICATION SafeSpec
CONSTANTS
  m1 = m1  m2 = m2  m3 = m3
  t1 = t1
  Threads <- OneThread
  LoopThread = LoopThread
  Messages <- AllMessages
  Length <- Lengths
  HighWaterMark_ = 2
  SndBuf = 1
  Nothing = Nothing
CHECK_DEADLOCK FALSE
PROPERTY ShutdownFlushes
