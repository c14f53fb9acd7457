SPECIFICATION Spec
CONSTANTS
  Rank = {0, 1}
  Program <- Layers
  GraphModes <- TwoGraphs
  MaxServed = 3
INVARIANTS
  PassExact
  NeverMixed
  DiesOfFailuresOnly
PROPERTIES
  PassesEnd
