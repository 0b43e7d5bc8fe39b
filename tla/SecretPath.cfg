CONSTANTS
  EngineMounts <- MCEngineMounts
  Names <- MCNames
  MaxSegments = 4
SPECIFICATION Spec
INVARIANT RequestsDeclaredPath
