CONSTANTS
  p1 = p1
  rsA = rsA
  rsB = rsB
  k1 = k1
  k2 = k2
  None = None
  BaoPolicies <- MCBaoPolicies
  RuleSets <- MCRuleSets
  AllowedKeys <- TwoKeyParams
  MaxEdits = 3
  MaxDrifts = 1
  MaxFailures = 2
  MaxRestarts = 1
SPECIFICATION Spec
CHECK_DEADLOCK FALSE
INVARIANT TypeOK VersionWasWritten
PROPERTY FinalizerBeforeWrite StatusSettles
