SPECIFICATION Spec
CONSTANTS
  Files = {1, 2}
  Runs = {r1}
  Blank = Blank
  Absent = Absent
  NoRun = NoRun
  u = u
  v = v
  pb = pb
  pu = pu
  Texts <- MCTexts
  UserTexts <- MCOne
  Patch <- MCPatch
  EditPoints = {"idle"}
  Faults = {"write"}
  Crashes = FALSE
  MaxEdits = 0
PROPERTY AllOrNothing
CHECK_DEADLOCK FALSE
