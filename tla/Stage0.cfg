SPECIFICATION Spec
CONSTANTS
  Reps = {1, 2, 3, 4, 5}
  Endings <- TheEndings
  Model = "glm"
  Configs <- TheConfigs
  Requests <- TheRequests
  Servers <- TheServers
  Before <- TheRegistry
  MaxInvocations = 2
  MaxAttempts = 6
  MaxForeign = 1
  MaxKills = 1
CHECK_DEADLOCK FALSE
INVARIANTS
  RegistryIsEarned
  RegistryIsWhole
  CorpusLostOnlyInARewrite
