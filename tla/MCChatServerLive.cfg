CONSTANTS
  Sessions = {s1, s2}
  m_max_recent_msgs = 1
  MaxPosts = 1
SPECIFICATION Spec
CHECK_DEADLOCK FALSE
PROPERTIES OutboxDrains GoneIsRemoved
