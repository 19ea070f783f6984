SPECIFICATION Spec
CONSTANTS
  j1 = j1
  r1 = r1
  r2 = r2
  b1 = b1
  b2 = b2
  repo1 = repo1
  project1 = project1
  Jobs = {j1}
  Runners = {r1, r2}
  Boots = {b1}
  NoRunner = NoRunner
  NoBoot = NoBoot
  RepoOf <- MCRepoOf
  FeatureOf <- MCFeatureOf
  ProjectOf <- MCProjectOf
  PinOf <- MCPinOf
  CapableOf <- MCCapableOf
  Capacity <- MCCapacity
  ThreadCapacity <- MCThreadCapacity
  Threads = {}
  Configs = {}
  RawAgents = {}
  PauseScopes = {}
  Switchable = {}
  Fallible = {r1}
  MaxEpoch = 3
  MaxCommands = 3
  MaxRecon = 1
SYMMETRY MCSymmetry
INVARIANTS
  TypeOK
  LeaseInv
  HolderWasAssigned
  TakenAwayIsFenced
  NoOrphanCommand
  CancelOnce
PROPERTIES
  ImplementsExclusiveLease
CHECK_DEADLOCK FALSE
