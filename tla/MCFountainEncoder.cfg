SPECIFICATION BodySpec
CONSTANTS
  Messages <- MCMessages
  FragmentMaxima <- MCMaxima
  OtherParts <- MCOtherParts
  Wires <- MCWires
  Payloads <- MCPayloads
  Alterations <- MCAlterations
  Tokens <- MCTokens
  Checksum <- MCChecksum
  Mix <- MCMix
  MaxU32 = 9
  MaxFragmentData = 65536
  MaxFragmentCount = 65535
INVARIANTS EncIInv PartsFitDecoder CompleteCovers ReadsOwn Canonical OneMeaning
