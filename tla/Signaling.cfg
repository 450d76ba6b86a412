CONSTANTS
  offer1 = offer1  offer2 = offer2  ice = ice  close = close  data = data
  w1 = w1  w2 = w2
  callA = callA
  Reader = Reader
  Free = Free
  Handlers = {offer1, offer2, ice, close}
  Writers = {w1, w2}
  Calls = {callA}
  Kind <- MCKind
  Call <- MCCall
SPECIFICATION FairSpec
INVARIANTS TypeOK NoCallConnects
PROPERTIES StuckPinsConnection MutexesServe
CHECK_DEADLOCK FALSE
