SPECIFICATION Spec
CONSTANTS
  Libs <- MCLibs
  Candidates = {"any"}
  ModuleLess = {"log"}
  FeatureOnly = {}
  TUs <- MCTUs
  Skipped = {"sort"}
  Revs = {1, 2}
  Table <- MCTable
  Requests <- MCRequests
  Arches = {"x86_64", "arm64"}
  AnyArch = "any"
  None = None
INVARIANTS  OwnedByProfile  OneProfilePerAxis
