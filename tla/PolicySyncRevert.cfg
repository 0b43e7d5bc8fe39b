CONSTANTS
  p1 = p1
  rsA = rsA
  rsB = rsB
  k1 = k1
  k2 = k2
  None = None
  BaoPolicies <- MCBaoPolicies
  RuleSets <- MCRuleSets
  AllowedKeys <- OneKeyParams
  MaxEdits = 3
  MaxDrifts = 0
  MaxFailures = 1
  MaxRestarts = 0
SPECIFICATION Spec
CHECK_DEADLOCK FALSE
PROPERTY BackendConverges
