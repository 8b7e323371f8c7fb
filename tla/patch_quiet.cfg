SPECIFICATION Spec
CONSTANTS
  Files = {1, 2}
  Runs = {r1, r2}
  Blank = Blank
  Absent = Absent
  NoRun = NoRun
  u = u
  v = v
  pb = pb
  pu = pu
  Texts <- MCTexts
  UserTexts <- MCOne
  Patch <- MCPatch
  EditPoints = {"idle", "planned", "rendered"}
  Faults = {"backup", "open"}
  Crashes = FALSE
  MaxEdits = 2
INVARIANTS TypeOK RollbackExact ManifestTruthful LiveManifestIsBacked WritesMatchBase LatestLoadable
PROPERTIES AllOrNothing RunsAreAtomic
CHECK_DEADLOCK FALSE
