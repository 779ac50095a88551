SPECIFICATION Spec
CONSTANTS
  WeightVectors <- MCWeights
  Mix <- NoMix
  One = 100
  Eps = 1
  Precision = 16
  Powers <- MCPowers
INVARIANTS MassKept VectorOK
PROPERTIES ChoiceEnds
