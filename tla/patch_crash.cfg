SPECIFICATION Spec
CONSTANTS
  Files = {1, 2}
  Runs = {r1, r2}
  Blank = Blank
  Absent = Absent
  NoRun = NoRun
  u = u
  v = v
  pb = pb
  pu = pu
  Texts <- MCTexts
  UserTexts <- MCUser
  Patch <- MCPatch
  EditPoints = {"idle", "planned", "rendered", "validate", "manifest", "latest", "rbrename", "rblatest"}
  Faults = {"backup", "open", "write", "restore", "manifest", "latest", "rbrestore", "rbrename", "rblatest"}
  Crashes = TRUE
  MaxEdits = 1
INVARIANTS NoUserTextLost
CHECK_DEADLOCK FALSE
