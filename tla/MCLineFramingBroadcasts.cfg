CONSTANTS
  Bytes <- MCBytes
  Leads <- MCLeads
  Tails <- MCTails
  Bad = "bad"
  Scripts <- MCScripts
  SessionId <- MCSessionId
  MaxLines = 4
  CR = "CR"
  LF = "LF"
  m_read_buff_len = 5
  m_max_recent_msgs = 2
SPECIFICATION Spec
CHECK_DEADLOCK FALSE
INVARIANT BroadcastsAreMessages
