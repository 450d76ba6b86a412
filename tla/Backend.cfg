CONSTANTS
  r1 = r1  r2 = r2  r3 = r3  k1 = k1  k2 = k2  u1 = u1  u2 = u2
  Requests = {r1, r2, r3}
  Ids = {k1, k2}
  IdOf <- MCIdOf
  ZeroId = ZeroId
  Users = {u1, u2}
  UsersOf <- MCUsersOf
  MaxSeeds = 2
SPECIFICATION FairSpec
INVARIANTS TypeOK SeqNumbersDense AnswerMeansStored AtMostOneRemoval
PROPERTIES ImplementsStore HandlersEnd WritesEndProcess
CHECK_DEADLOCK FALSE
