CONSTANTS
  r1 = r1
  r2 = r2
  t1 = t1
  t2 = t2
  v1 = v1
  v2 = v2
  None = None
  Resources <- OneResource
  Targets <- MCTargets
  Values <- MCValues
  SpecsOf <- OwnedSpecs
  MaxEdits = 3
  MaxBackendWrites = 2
  MaxFailures = 2
  MaxRestarts = 1
SPECIFICATION Spec
CHECK_DEADLOCK FALSE
INVARIANT TypeOK FinalizerGuardsTarget
PROPERTY Converges TargetsCollected
