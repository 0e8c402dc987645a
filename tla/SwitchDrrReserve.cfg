SPECIFICATION Spec
CONSTANTS
  Configs <- DrrConfigs
  ClassCount = 2
  Value <- EqualQuanta
  Flow = {0, 1}
  PfcClassOf <- MCPfcClassOf
  Size = {1}
  Payload = {1, 2, 3}
  MaxSeq = 4
  MaxDeficit = 6
  Word = 16
  MaxBytes = 6
  MaxDenominator = 2
INVARIANT DeficitWithinReserve
