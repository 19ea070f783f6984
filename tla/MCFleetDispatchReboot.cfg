SPECIFICATION FairSpec
CONSTANTS
  j1 = j1
  r1 = r1
  repo1 = repo1
  project1 = project1
  Jobs = {j1}
  Runners = {r1}
  Boots <- MCBoots
  NoRunner = NoRunner
  NoBoot = 0
  RepoOf <- MCRepoOf
  FeatureOf <- MCFeatureOf
  ProjectOf <- MCProjectOf
  PinOf <- MCPinOf
  CapableOf <- MCCapableOf
  Capacity <- MCCapacity
  ThreadCapacity <- MCThreadCapacity
  Threads = {}
  Configs = {}
  RawAgents = {}
  PauseScopes = {}
  Switchable = {}
  Fallible = {r1}
  Verdicts = {"COMPLETED"}
  Patient = TRUE
  MaxEpoch = 2
  MaxCommands = 10
  MaxRecon = 1
  MaxBoot = 2
  MaxLoss = 1
PROPERTIES
  HeldEnds
  CrashWarranted
