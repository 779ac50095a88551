SPECIFICATION CliSpec
CONSTANTS
  bytes = bytes
  None = None
  Types = {bytes}
  TypeLen <- MCTypeLen
  Mix <- MCMix
  Requests <- MCTooLong
  MaxU32 = 100000
INVARIANTS WithinMaxChars
CHECK_DEADLOCK FALSE
