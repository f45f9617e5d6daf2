CONSTANTS
  MaxConnections = 2
  MaxLookups = 2
  MaxLines = 2
  MaxTexts = 3
  m_should_broadcast_name = TRUE
SPECIFICATION Spec
CHECK_DEADLOCK FALSE
INVARIANTS TypeOK 
PROPERTIES ConnectedByOwnId IdConnects AnswerReachesView
