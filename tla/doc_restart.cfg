CONSTANTS
  TokenNames <- MCTokenNames
  PairNames <- MCPairNames
  FundMembers <- MCFundMembers
  CoreMembers <- MCCoreMembers
  MaxAttempts = 3
  Deployed = {"production"}
  MaxVersion = 1
  MaxFaults <- MCMaxFaults
  MaxInstances = 3
SPECIFICATION Spec
PROPERTIES
  UnsetAddressesAreInitialized
CHECK_DEADLOCK FALSE
