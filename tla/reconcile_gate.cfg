SPECIFICATION Spec
CONSTANTS
  Tools <- MCTools
  Vars <- MCVars
  Docs <- MCDocs
  Vals <- MCVals
  NoVal = NoVal
  DesiredTools <- MCDesiredTools
  DesiredVars <- MCDesiredVars
  ApprovedDocs <- MCDocs
  AgentIds <- MCOneAgent
  Seed = 1
  NoAgent = NoAgent
  Options <- MCReuse
  Faults = {"timeout", "rejected", "abort"}
  MaxFaults = 2
  EditPoints = {"idle"}
  MaxEdits = 2
  MaxCreates = 0
  t = t
  t2 = t2
  v = v
  v2 = v2
  d = d
  x = x
  y = y
INVARIANTS NoUnapprovedDeletion NoSpuriousFailure
PROPERTIES DryRunWritesNothing RunConverges
