CONSTANTS
  r1 = r1
  r2 = r2
  t1 = t1
  t2 = t2
  v1 = v1
  v2 = v2
  None = None
  Resources <- MCResources
  Targets <- MCTargets
  Values <- MCValues
  SpecsOf <- SharedSpecs
  MaxEdits = 3
  MaxBackendWrites = 0
  MaxFailures = 1
  MaxRestarts = 0
SPECIFICATION Spec
CHECK_DEADLOCK FALSE
PROPERTY RefusalReported
