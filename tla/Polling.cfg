CONSTANTS
  k1 = k1  k2 = k2  r1 = r1  r2 = r2  r3 = r3
  Chats = {k1, k2}
  Rows = {r1, r2, r3}
  RowChat <- MCRowChat
  Last = 3
  ChatOf <- MCChatOf
  Cap = 2
  Merged = Merged
  Done = Done
SPECIFICATION FairSpec
INVARIANTS TypeOK OrderedOnce NothingMissing LimiterNeverBlocks
PROPERTY PollEnds
CHECK_DEADLOCK FALSE
