SPECIFICATION PoolSpec
CONSTANTS
  a1 = a1  a2 = a2  a3 = a3
  Accounts <- MCAccount
  EnvAccount <- MCEnv
  Roaming <- MCEnv
  Duration = {2}
  Ttl = 1
  Nothing = Nothing
PROPERTIES
  CoolingAccountsAreLast
  RunningCooldownsAreKept
  RotationIsRoundRobin
