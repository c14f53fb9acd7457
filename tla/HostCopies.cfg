SPECIFICATION Spec
CONSTANTS
  MaxSteps = 4
  Configs <- MCConfigs
INVARIANTS
  TypeOK
  InputsIntact
  DraftsExact
  CountsExact
  OutputsExact
