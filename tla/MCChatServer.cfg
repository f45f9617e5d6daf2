CONSTANTS
  Sessions = {s1, s2}
  m_max_recent_msgs = 2
  MaxPosts = 3
SPECIFICATION Spec
CHECK_DEADLOCK FALSE
SYMMETRY Symmetry
INVARIANTS TypeOK RoomHoldsLiveSessions NoLostWakeup HistoryIsNewest
LiveFeedComplete HistoryShownOnce AdmittedMissesNothing WatchedUnlessLost
PROPERTIES RefinesHandshake RefinesFeed
