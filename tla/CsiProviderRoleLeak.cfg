CONSTANTS
  q1 = q1
  q2 = q2
  ra = ra
  rb = rb
  pa = pa
  pb = pb
  NoRole = NoRole
  None = None
  Requests <- MCRequests
  Roles <- MCRoles
  Objects <- MCObjects
  ObjectLists <- MCObjectLists
  CanRead <- MCCanRead
  Methods <- K8sOnly
  Accepts <- MCAccepts
  PodTokens = FALSE
  EnvToken = TRUE
  DefaultAddress = TRUE
  ProviderToken = ProviderToken
  TTL = 1
  MaxVersion = 2
  MaxFailures = 0
SPECIFICATION Spec
CHECK_DEADLOCK FALSE
INVARIANT RoleIsolation
