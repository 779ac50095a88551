SPECIFICATION UrSpec
CONSTANTS
  alpha = alpha
  beta = beta
  None = None
  K = 2
  Types = {alpha, beta}
  TypeLen <- MCTypeLen
  Uris <- MCUris
  Parts <- MCUrParts
  Mix <- MCMixTwo
  MaxUriLen = 60
  MaxFragmentCount = 3
  MaxMessageLength = 8
  MaxFragmentData = 3
  MaxBufferParts = 1
  MaxReceivedParts = 3
  MaxUsize = 15
INVARIANTS UrIInv TypedComplete
PROPERTIES OneType MessageKept ImplementsSession
