CONSTANTS
  TokenNames <- MCTokenNames
  PairNames <- MCPairNames
  FundMembers <- MCFundMembers
  CoreMembers <- MCCoreMembers
  MaxAttempts = 3
  Deployed = {"local", "sepolia", "production"}
  MaxVersion = 3
  MaxFaults <- MCMaxFaults
  MaxInstances = 5
SPECIFICATION Spec
INVARIANTS
  DeploymentTypeOK
  RecordedWiring
  ControllerIsRecorded
  FeedsFollowRecords
  RecordsAreThere
  CompleteRunIsConsistent
PROPERTIES
  AddressesAreStable
  CleanRunsEnd
  EventuallyComplete
CHECK_DEADLOCK FALSE
