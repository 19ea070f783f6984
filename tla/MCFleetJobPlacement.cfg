SPECIFICATION Spec
CONSTANTS
  raw1 = raw1
  run1 = run1
  run2 = run2
  r1 = r1
  r2 = r2
  repo1 = repo1
  repo2 = repo2
  project1 = project1
  project2 = project2
  Jobs = {raw1, run1, run2}
  Runners = {r1, r2}
  Boots = {}
  NoRunner = NoRunner
  NoBoot = NoBoot
  RepoOf <- MCRepoOf
  FeatureOf <- MCFeatureOf
  ProjectOf <- MCProjectOf
  PinOf <- MCPinOf
  CapableOf <- MCCapableOf
  Capacity <- MCCapacity
  ThreadCapacity <- MCThreadCapacity
  Threads = {run2}
  Configs = {}
  RawAgents = {raw1}
  PauseScopes = {project2}
  Switchable = {r2}
  Fallible = {r2}
  MaxEpoch = 1
  MaxCommands = 3
  MaxRecon = 0
INVARIANTS
  OneJobPerCheckout
  TrustDomains
CHECK_DEADLOCK FALSE
