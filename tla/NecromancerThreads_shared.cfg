SPECIFICATION FairSpec
CONSTANTS
  t1 = t1
  t2 = t2
  Threads = {t1, t2}
  MaxTamper = 3
INVARIANTS TypeOK RitesAttended DeadStaysDead NeverMuchTooLate PunctualInTurn
PROPERTIES ImplementsLastRites RitesAreFinished
