CONSTANTS
  a1 = a1
  a2 = a2
  w1 = w1
  w2 = w2
  d1 = d1
  d2 = d2
  p1 = p1
  p2 = p2
  v1 = v1
  v2 = v2
  None = None
  Edited = Edited
  Damaged = Damaged
  Jobs <- MCJobs
  Projects <- MCProjects
  Uploaded <- MCUploaded
  Details <- MCDetails
  Workers <- MCWorkers
  Dirs <- MCDirs
  Source <- MCSource
  Agents <- OneAgents
  AgentOf <- OneAgentOf
  Home <- OneHome
  MaxFaults = 0
  MaxEdits = 1
  MaxBinds = 0
SPECIFICATION FairSpec
PROPERTY ApprovedJobsConclude
INVARIANT VerdictMatchesDirectory
