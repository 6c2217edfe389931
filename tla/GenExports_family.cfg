CONSTANTS
  Libs <- MCLibs
  TargetLibs <- MCTargetLibs
  Headers <- MCHeaders
  Owner <- MCOwner
  Public <- MCPublic
  Versions <- FamilyVersions
  Tree <- FamilyTree
  Curated <- NoCurated
  Survey <- MCSurvey
  Bundle <- MCBundle
  Special = {}
  RunOpts <- Plain
  Faults = {"lost_output", "kill"}
  None = None
SPECIFICATION FixedTree
INVARIANTS
  MentionsImportable
  DepsAcyclic
  ExportedOnce
PROPERTIES
  CacheFormsWithoutEdges
