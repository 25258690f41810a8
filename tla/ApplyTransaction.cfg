CONSTANTS
  N = 3
  Creates <- MCCreates
  MaxEdits = 3
SPECIFICATION Spec
INVARIANTS
  TypeOK
  AppliedIsComplete
  RollbackRestores
  NothingIsLost
PROPERTIES
  OnlyVerifiedContentReplaced
  ImplementsPromise
CHECK_DEADLOCK FALSE
