CONSTANTS
  Items = {i1, i2}
  None = None
  CharBound = 16
  PortBound = 4
  Default <- MCDefault
  Choices <- MCChoices
  Files <- MCFiles
SPECIFICATION Spec
CHECK_DEADLOCK FALSE
INVARIANTS TypeOK LayerAllOrNothing SettingsAreWhole SettingsPersist
