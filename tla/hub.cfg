SPECIFICATION FairSpec
CONSTANTS
  Clients = {c1}
  UserOf <- OneUser
  MaxConns = 2
  Workers = {w1}
  Messages = {m1, r1}
  Rest = {r1}
  ReplayLimit = 1
  HistoryLimit = 1
  None = None
INVARIANTS TypeOK NoGapWhileJoined ReplayHasNoHoles WebShowsOnce RoomsExact CursorWithinLog
PROPERTIES PresenceRecovers FollowsFeed
CHECK_DEADLOCK FALSE
