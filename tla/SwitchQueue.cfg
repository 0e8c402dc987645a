SPECIFICATION FairSpec
CONSTANTS
  Configs <- MCConfigs
  ClassCount = 2
  Value <- MCValue
  Flow = {0, 1, 2}
  PfcClassOf <- MCPfcClassOf
  Size = {1, 3}
  Payload = {1, 2, 3}
  MaxSeq = 4
  MaxDeficit = 6
  Word = 16
  MaxBytes = 6
  MaxDenominator = 2
INVARIANTS AuxiliaryExact RampIsExact
PROPERTIES ServesInOrder NoStarvation
