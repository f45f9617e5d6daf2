CONSTANTS
  Files <- MCFiles
  Folders <- MCFolders
  PortTexts <- MCPortTexts
  Broken = Broken
  Peers = {p1, p2, p3}
  Descriptors = 2
SPECIFICATION Spec
CHECK_DEADLOCK FALSE
INVARIANTS TypeOK PlainFileIsRead ServesAsConfigured
PROPERTIES ServedUnlessBlocked
