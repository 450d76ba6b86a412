CONSTANTS
  r1 = r1  w1 = w1  t1 = t1
  Requests = {r1, w1}
  ServerOf <- MCServerOf
  Ids = {t1}
  None = None
SPECIFICATION FairSpec
INVARIANTS TypeOK HooksReversed CleanExitReleases ClientOutlivesServer
           CleanupGoesOn
PROPERTIES ProcessEnds
CHECK_DEADLOCK FALSE
