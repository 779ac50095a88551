SPECIFICATION Spec
CONSTANTS
  K = 3
  Parts <- MCPartsLimits
  Mix <- MCMixFew
  MaxFragmentCount = 4
  MaxMessageLength = 8
  MaxFragmentData = 3
  MaxBufferParts = 2
  MaxReceivedParts = 4
  MaxUsize = 9
INVARIANTS FragmentsExact NoInternalError MemoryBounded RedeliveryNeverPoisons
PROPERTIES DrainNeverPoisons ProgressKept
