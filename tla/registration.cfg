SPECIFICATION Spec
CONSTANTS
  Names <- MCNames
  NoKey = NoKey
  Params <- MCParams
  Hinted <- MCHinted
  Numeric = {}
  Booleans <- MCBooleans
  Paths <- MCPaths
  InKBDir <- MCInKBDir
  Contents <- MCContents
  NoDoc = NoDoc
  InitialItems <- MCInitialItems
  EditItems <- MCItems
  InitialDocs <- MCInitialDocs
  Base <- MCBase
  TooLarge <- MCTooLarge
  NoFile = NoFile
  NoAgent = NoAgent
  MaxAgents = 2
  MaxEdits = 1
  MaxApprovals = 1
  n1 = n1
  n2 = n2
  hinted = hinted
  flag = flag
  text = text
  inside = inside
  outside = outside
  shared = shared
  old = old
  new = new
  huge = huge
INVARIANTS TypeOK SpecsFaithful InputsDistinct UploadedWasApproved
PROPERTIES VerifiedIsRegistered NothingRemovedUnapproved ReapplyIsNoop DryRunForetells OnlyVerifiedOrHalfway
