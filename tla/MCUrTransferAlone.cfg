SPECIFICATION FairTransfer
CONSTANTS
  alpha = alpha
  beta = beta
  None = None
  Types = {alpha}
  TypeLen <- MCTypeLen
  Messages <- MCMessages
  FragmentMaxima <- MCMaxima
  Foreign <- NoForeign
  Uris <- MCUris
  Parts <- MCParts
  Mix <- MCMix
  MaxU32 = 5
  MaxUriLen = 60
  MaxFragmentCount = 3
  MaxMessageLength = 8
  MaxFragmentData = 3
  MaxBufferParts = 2
  MaxReceivedParts = 5
  MaxUsize = 15
INVARIANTS AllTaken CompleteIsEnough OneFormSent
PROPERTIES Transferred
