CONSTANTS
  Libs <- MCLibs
  TargetLibs <- MCTargetLibs
  Headers <- MCHeaders
  Owner <- MCOwner
  Public <- MCPublic
  Versions = {1, 2, 3, 4}
  Tree <- LongerTree
  Curated <- NoCurated
  Survey <- MCSurvey
  Bundle <- MCBundle
  Special = {}
  RunOpts <- Mixed
  Faults = {"lost_output"}
  None = None
SPECIFICATION Spec
INVARIANTS
  ReplayEqualsFullRun
  HitMeansUpToDate
PROPERTIES
  ImplementsRegeneration
