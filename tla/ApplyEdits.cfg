CONSTANTS
  N = 3
  Creates <- MCCreates
  MaxEdits = 1
SPECIFICATION Spec
PROPERTIES
  LocalChangesNeverOverwritten
CHECK_DEADLOCK FALSE
