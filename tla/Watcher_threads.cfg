SPECIFICATION Spec
CONSTANTS
  t1 = t1
  t2 = t2
  Threads = {t1, t2}
  On = {"trace", "frames", "flags", "monitoring"}
  Customs <- MCCustoms
  Brittle = {"canary"}
  MaxChanges = 3
INVARIANTS TypeOK NothingMissed NoFalseAlarm
