CONSTANTS
  c1 = c1
  c2 = c2
  None = None
  Callers <- MCCallers
  Poller = c1
  Configs <- MCConfigs
  TTLs = {0, 3}
  MaxTTL = 4
  Window = 2
  MaxLatency = 1
  MaxTime = 5
  MaxLogins = 6
  MaxOutages = 1
  JsonNumber = TRUE
  MaxVersion = 2
SPECIFICATION Spec
CHECK_DEADLOCK FALSE
INVARIANT TypeOK ExpiryNotOptimistic
PROPERTY RequestAuthorized SessionEventuallyValid HealthSettles
