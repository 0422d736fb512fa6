\* Three fractions to a token, six units of time, four configurations.
SPECIFICATION Spec
CONSTANTS
  Policies <- SomePolicies
  DefaultPolicy <- Conservative
  Unit = 3
  None = None
  MaxTime = 6
INVARIANTS
  TypeOK
  NeverOverBudget
PROPERTY ImplementsBudget
