CONSTANTS
  c1 = c1  c2 = c2  c3 = c3
  u1 = u1  u2 = u2
  k1 = k1
  m1 = m1  m3 = m3  n1 = n1
  Free = Free
  Conns = {c1, c2, c3}
  Users = {u1, u2}
  Convs = {k1}
  Msgs = {}
  Notices = {}
  UserOf <- MCUserOf
  ConvIds <- MCConvIds
  Sender <- MCSender
  ConvOf <- MCConvOf
  AuthorOf <- MCAuthorOf
  Participants <- MCParticipants
SPECIFICATION FairSpec
PROPERTY ClosedConnLeavesMaps
CHECK_DEADLOCK FALSE
