SPECIFICATION Spec
CONSTANTS
  Tools <- MCTools
  Vars <- MCVars
  Docs <- MCDocs
  Vals <- MCVals
  NoVal = NoVal
  DesiredTools <- MCDesiredTools
  DesiredVars <- MCDesiredVars
  ApprovedDocs <- MCDocs
  AgentIds <- MCThreeAgents
  Seed = 1
  NoAgent = NoAgent
  Options <- MCMixed
  Faults = {"timeout", "late", "rejected", "connection", "corrupt", "unreadable", "abort"}
  MaxFaults = 1
  EditPoints = {"idle"}
  MaxEdits = 1
  MaxCreates = 1
  t = t
  t2 = t2
  v = v
  v2 = v2
  d = d
  x = x
  y = y
INVARIANTS OneAgentPerRun
PROPERTIES VerifiedMatches StaysConverged
CHECK_DEADLOCK FALSE
