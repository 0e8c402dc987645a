SPECIFICATION Spec
CONSTANTS
  Weights <- MCWeights
  Flow = {0, 1, 2}
  PfcClassOf <- MCPfcClassOf
  Size = {1, 3}
  Rate = 1
  Payload = {p1, p2, p3}
  Scale = 6
  MaxVirtual = 6
  MaxIdle = 1
INVARIANT SchedulerIsValid
PROPERTY ServesLeastTag
SYMMETRY PayloadSymmetry
