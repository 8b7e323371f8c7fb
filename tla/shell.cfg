SPECIFICATION Spec
CONSTANTS
  Dirs <- MCDirs
  HomeDirs <- MCHomeDirs
  Resolve <- MCResolve
  DesiredFiles <- MCFiles
  Numbers <- MCNumbers
  Others <- MCOthers
  Swallowed = Swallowed
  Lines <- MCLines
  None = None
  d1 = d1
  d2 = d2
  tilde2 = tilde2
  desired = desired
  five = five
  seven = seven
  junk = junk
INVARIANTS LiveSettingsHaveKeys KeyBeforeLive LinesMatchOneShot
PROPERTY SessionKept
CHECK_DEADLOCK FALSE
