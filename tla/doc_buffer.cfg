CONSTANTS
  WordLength = 3
  AddressLength = 2
  SelectorLength = 1
  MaxSpan = 3
  MaxDirectives = 2
  MaxListed = 1
  AnyLength = AnyLength
  Invalid = Invalid
  NoWord = NoWord
  NoAddress = NoAddress
  typehash = typehash
  inner = inner
  poolWord = poolWord
  tokenWord = tokenWord
  number = number
  AddressIn <- MCAddressIn
  Addresses <- MCAddresses
  Senders <- MCSenders
  ListMarker <- MCMarker
  TargetLists <- MCTargets
  Batches <- ListedBatches
  SignBatches <- ListedSignBatches
  WrittenBatches <- MCBatches
  WrittenBlobs <- MCWritten
  Calls <- MCCalls
  Patterns <- MCPatterns
  Methods <- MCMethods
  Tails <- MCTails
  Inputs <- MCInputs
  InputDepth <- MCInputDepth
  Values <- MCValues
  Depth <- MCDepth
  Messages <- MCMessages
SPECIFICATION Spec
INVARIANTS
  BufferSuffices
