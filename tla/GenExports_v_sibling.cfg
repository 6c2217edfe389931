CONSTANTS
  Libs <- MCLibs
  TargetLibs <- MCTargetLibs
  Headers <- MCHeaders
  Owner <- MCOwner
  Public <- MCPublic
  Versions = {1, 2}
  Tree <- SiblingTree
  Curated <- NoCurated
  Survey <- MCSurvey
  Bundle <- MCBundle
  Special = {}
  RunOpts <- Plain
  Faults = {}
  None = None
SPECIFICATION Spec
INVARIANTS
  SettledIsFullRun
