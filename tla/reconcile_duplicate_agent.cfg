SPECIFICATION Spec
CONSTANTS
  Tools <- MCTools
  Vars <- MCVars
  Docs <- MCDocs
  Vals <- MCVals
  NoVal = NoVal
  DesiredTools <- MCDesiredTools
  DesiredVars <- MCDesiredVars
  ApprovedDocs <- MCDocs
  AgentIds <- MCThreeAgents
  Seed = 1
  NoAgent = NoAgent
  Options <- MCCreate
  Faults = {"connection", "timeout"}
  MaxFaults = 2
  EditPoints = {}
  MaxEdits = 0
  MaxCreates = 1
  t = t
  t2 = t2
  v = v
  v2 = v2
  d = d
  x = x
  y = y
INVARIANT OneAgentPerRun
CHECK_DEADLOCK FALSE
