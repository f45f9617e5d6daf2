CONSTANTS
  Lines <- MCLines
  EmptyLine = "empty"
  Password = "right"
  SessionId = "id"
  Reject = "[reject]"
  Timeout = "[timeout]"
SPECIFICATION Spec
CHECK_DEADLOCK FALSE
INVARIANTS TypeOK OneReply OnlyPasswordAccepted
PROPERTIES RefinesHandshake Answered PasswordInTimeAccepted
