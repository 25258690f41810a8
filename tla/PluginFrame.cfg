CONSTANTS
  s1 = s1
  s2 = s2
  Unsendable = Unsendable
  None = None
  Selections <- MCSelections
  MaxPairings = 1
  MaxPreflights = 3
  MaxSends = 3
SPECIFICATION Spec
SYMMETRY MCSymmetry
CHECK_DEADLOCK FALSE
INVARIANTS
  UploadsAreWhole
  TaskIsOfShownSelection
