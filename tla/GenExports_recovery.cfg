CONSTANTS
  Libs <- MCLibs
  TargetLibs <- MCTargetLibs
  Headers <- MCHeaders
  Owner <- MCOwner
  Public <- MCPublic
  Versions = {1, 2}
  Tree <- TurnTree
  Curated <- NoCurated
  Survey <- MCSurvey
  Bundle <- MCBundle
  Special = {}
  RunOpts <- Uncached
  Faults = {"kill", "parse_failure", "lost_output"}
  None = None
SPECIFICATION Spec
INVARIANTS
  SettledIsFullRun
  CppmReflectsDeps
