SPECIFICATION Spec
CONSTANTS
  Threads = {t1, t2, t3}
  Nobody = Nobody
  MaxSize = 2
  NoCon = NoCon
INVARIANTS OneHolder PopFindsData WakeupsCover
PROPERTY IdleIsTaken
CHECK_DEADLOCK FALSE
