CONSTANTS
  q1 = q1 q2 = q2 Mixed = Mixed Plain = Plain p1 = p1 p2 = p2
  Requests = {q1, q2}
  Emails = {Mixed, Plain}
  Lower <- MCLower
  Passwords = {p1, p2}
  Known <- MCKnown
  MaxAttempts = 0
  None = None
  MaxReqs = 2 Window = 3 Extension = 2 LoginLife = 3 JwtLife = 2 MaxTime = 9 Second = 3
  Admin = Admin
  Roles = {Admin}
  h1 = h1 h2 = h2
  ChainRequests = {h1, h2}
  k1 = k1 k2 = k2
  Conns = {k1, k2}
  b1 = b1 b2 = b2
  Callers = {b1, b2}
  Size = 2 MaxConns = 4
  MaxRows = 3 MaxItems = 2
  t1 = t1 t2 = t2
  Topics = {t1, t2}
  u1 = u1 d1 = d1 d2 = d2 d3 = d3
  ChatUsers = {u1}
  Devices = {d1, d2, d3}
  OwnerOf <- MCOwnerOf
  Leaver = u1
  NewDevice = d1
  Limit = 2
  BadRows = {{}, {d1}}
SPECIFICATION PSpec
INVARIANTS TypesOK CountBounded RateNeverLimited RequestIntact RabbitConnsKept PayloadChecked BindingsSettle NothingTwiceOrLost
PROPERTIES CallsComplete
CHECK_DEADLOCK FALSE
