SPECIFICATION Spec
CONSTANTS
  K = 3
  Parts <- PairStream
  Mix <- MCMixOrderings
  MaxFragmentCount = 4
  MaxMessageLength = 8
  MaxFragmentData = 2
  MaxBufferParts = 12
  MaxReceivedParts = 15
  MaxUsize = 16
INVARIANT ReceivedAreIndexSets
