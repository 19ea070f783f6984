SPECIFICATION FairFlowSpec
CONSTANTS
  Entries = {"THREAD", "NAX"}
  MaxShas = 2
  MaxFaults = 1
INVARIANTS
  SpecApproved
  StepsFollow
  StepOnce
  ReviewedOnce
  StepShown
PROPERTIES
  StatesFollowTable
  FlowEnds
CHECK_DEADLOCK FALSE
