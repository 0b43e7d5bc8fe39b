CONSTANTS
  q1 = q1
  q2 = q2
  ra = ra
  rb = rb
  pa = pa
  pb = pb
  NoRole = NoRole
  None = None
  Requests <- MCRequests
  Roles <- MCRoles
  Objects <- MCObjects
  ObjectLists <- MCObjectLists
  CanRead <- MCCanRead
  Methods <- AllMethods
  Params <- MCParams
  Accepts <- MCAccepts
  PodTokens = FALSE
  EnvToken = TRUE
  DefaultAddress = TRUE
  ProviderToken = ProviderToken
  TTL = 1
  MaxVersion = 2
  MaxFailures = 1
SPECIFICATION Spec
CHECK_DEADLOCK FALSE
INVARIANT TypeOK
PROPERTY ServesCurrent
