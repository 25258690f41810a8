CONSTANTS
  u1 = u1
  u2 = u2
  s1 = s1
  s2 = s2
  None = None
  Uploads <- MCUploads
  Servers <- MCServers
  Archives <- MCArchives
  Encoders = {1, 2}
  Ignored = {"V"}
  Images = {"red", "blue"}
  MaxCompressed = 3
  MaxTotal = 4
  MaxEntries = 3
  MaxFile = 3
  MaxRatio = 2
  MaxFaults = 1
  MaxDamage = 1
SPECIFICATION Spec
SYMMETRY MCSymmetry
CHECK_DEADLOCK FALSE
INVARIANTS
  AcceptedStayReadable
  UndisturbedUploadsAreAccepted
  AcceptedRootIsWhole
  DiskUseIsBounded
