CONSTANTS
  k1 = k1
  k2 = k2
  short = short
  long = long
  None = None
  Keys <- MCKeys
  Manifests <- MCManifests
  Manifest <- MCManifest
  Declared <- MCDeclared
  UploadTTL = 2
  MaxUploads = 3
  MaxClock = 2
  MaxFaults = 2
SPECIFICATION Spec
SYMMETRY MCSymmetry
CHECK_DEADLOCK FALSE
INVARIANTS
  TypeOK
  SelectionsAreWhole
  OneSelectionPerKey
  UndisturbedSendsAreAccepted
