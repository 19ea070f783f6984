SPECIFICATION FairApprovalSpec
CONSTANTS
  agent = agent
  reviewer = reviewer
  store1 = store1
  secret = secret
  c1 = c1
  sweep = sweep
  MaxRequests = 2
  Asks = {store1, secret}
  Prepares = {store1}
  Redeems = {secret}
  Principals = {agent, reviewer}
  Requester = agent
  Users = {}
  Deciders = {reviewer}
  ResolutionsOf <- MCResolutionsOf
  Calls = {c1, sweep}
  Sweeps = {sweep}
  MaxFaults = 1
INVARIANTS
  ApprovalTypeOK
  ReleasedAsAsked
  BegunOnce
PROPERTIES
  ImplementsLifecycle
  EverySettles
CHECK_DEADLOCK FALSE
