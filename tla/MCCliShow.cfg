SPECIFICATION ShowSpec
CONSTANTS
  bytes = bytes
  None = None
  Types = {bytes}
  TypeLen <- MCTypeLen
  Mix <- MCMix
  Requests <- MCRequests
  MaxU32 = 30
  Tty = {FALSE, TRUE}
  MaxKeys = 2
  Sizes <- MCSizes
  Intervals = {0, 1}
  Lines = {0, 1, 3}
  LineLens = {40, 100, 300}
INVARIANTS EnoughPrinted LocallyLargest EarlyPartsFit Restored FramesFit
PROPERTIES Decides QuitHeeded EveryFrameShown
CHECK_DEADLOCK FALSE
