SPECIFICATION Spec
CONSTANTS
  a1 = a1
  a2 = a2
  r1 = r1
  r2 = r2
  c1 = c1
  c2 = c2
  Callers = {c1, c2}
  Ips = {a1, a2}
  RuleNames <- TwoRules
  Initial <- MCInitial
  Removable = {a1, a2}
  MaxRemovals = 1
SYMMETRY CallerSymmetry
INVARIANTS
  TypeOK
  NeverListedTwice
  ReferencesExist
PROPERTIES
  SuccessMeansEveryRule
  OnlyOverlapLoses
  ImplementsBlockService
