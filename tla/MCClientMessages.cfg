CONSTANTS
  Names = {ann, bea}
  Other = cid
  m_should_broadcast_name = TRUE
  m_max_recent_msgs = 1
  MaxConnections = 2
  MaxWritten = 2
  MaxLines = 2
  MaxLate = 1
  MaxRoom = 3
SPECIFICATION Spec
SYMMETRY Symmetry
CHECK_DEADLOCK FALSE
INVARIANTS TypeOK ShownIsRoom OneNamePerSession
