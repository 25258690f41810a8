CONSTANTS
  a1 = a1
  a2 = a2
  p1 = p1
  p2 = p2
  None = None
  Agents <- MCAgents
  Projects <- MCProjects
  Jobs <- MCJobs
  Details <- MCDetails
SPECIFICATION Spec
SYMMETRY MCSymmetry
INVARIANTS
  TypeOK
  OnlyCleanBundlesAreReviewed
  ResultMatchesStatus
  AtMostOneAssignment
  ReportedByClaimant
PROPERTIES
  ReportsAreFinal
  ImplementsLifecycle
