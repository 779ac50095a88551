SPECIFICATION DecodeSpec
CONSTANTS
  alpha = alpha
  beta = beta
  notType = notType
  None = None
  K = 3
  Types = {alpha, beta}
  TypeLen <- MCTypeLen
  Uris <- MCDecodeUris
  Inputs <- MCInputs
  Parts <- MCDecodeParts
  Mix <- MCMixThree
  MaxIndex = 31
  MaxUriLen = 80
  MaxFragmentCount = 3
  MaxMessageLength = 8
  MaxFragmentData = 3
  MaxBufferParts = 5
  MaxReceivedParts = 5
  MaxUsize = 15
INVARIANTS OwnLinesDecide OneSenderWritten
