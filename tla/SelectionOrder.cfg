CONSTANTS
  k1 = k1
  k2 = k2
  short = short
  long = long
  None = None
  Keys <- MCLongKeys
  Manifests <- MCManifests
  Manifest <- MCLongManifest
  Declared <- MCDeclared
  UploadTTL = 2
  MaxUploads = 1
  MaxClock = 0
  MaxFaults = 0
SPECIFICATION Spec
CHECK_DEADLOCK FALSE
INVARIANT CompleteUploadsArePublished
