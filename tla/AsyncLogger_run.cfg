SPECIFICATION MCSpec
CONSTANTS
  MaxMessages = 3
  Sizes = {1, 2}
  kLargeBuffer = 3
  DropLimit = 2
  Notice = Notice
  RollSize_ = 1
  FlushInterval_ = 0
  CheckEveryN_ = 2
  kRollPerSeconds_ = 2
  StreamSize = 1
  MaxTime = 3
  kSmallBuffer = 40
  kMaxNumericSize = 6
  PrefixSize = 4
  NameSize = 3
  MaxText = 40
  MaxInt = 210
INVARIANTS BuffersSuffice NothingLost RolledInTime IntegersFormatted LineEnds
PROPERTIES MessagesReachFile StopReturns
