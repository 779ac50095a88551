SPECIFICATION CliSpec
CONSTANTS
  bytes = bytes
  None = None
  Types = {bytes}
  TypeLen <- MCTypeLen
  Mix <- MCMix
  Requests <- MCSmall
  MaxU32 = 127
INVARIANTS LargestFits
CHECK_DEADLOCK FALSE
