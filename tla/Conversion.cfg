CONSTANTS
  j1 = j1
  j2 = j2
  j3 = j3
  red = red
  blue = blue
  None = None
  Jobs <- MCJobs
  Contents <- MCContents
  Selections <- MCSelections
  Rules <- MCRules
  Digest <- MCDigest
  MaxTopLevel = 3
  MaxResources = 2
  MaxSession = 4
  MaxResource = 3
  MaxConversion = 2
  MaxBundle = 4
  Refused <- MCRefused
  Unwritable <- MCUnwritable
  Within <- MCWithin
  MaxEdits = 2
  MaxPackage = 9
  MaxAttempts = 9
SPECIFICATION Spec
SYMMETRY MCSymmetry
CHECK_DEADLOCK FALSE
INVARIANTS
  
  ResourceIdsAreUnique
  BundlesAreSelfContained
  ConversionIsIdempotent
PROPERTIES
  AppliedPanelsResolve
  RegisteredImagesAreKept
