SPECIFICATION Spec
CONSTANTS
  m1 = m1  m2 = m2  m3 = m3
  t1 = t1
  Threads <- OneThread
  LoopThread = LoopThread
  Messages <- TwoMessages
  Length <- LengthsOfTwo
  HighWaterMark_ = 2
  SndBuf = 1
  Nothing = Nothing
CHECK_DEADLOCK FALSE
INVARIANTS StreamInOrder WriteInterest ReportedOnce
PROPERTIES BufferDrainedFirst ShutdownCompletes CloseIsNoticed
