SPECIFICATION Spec
CONSTANTS
  Inputs <- MCInputs
  Platforms <- MCPlatforms
  Libraries <- MCLibraries
  Punctuation <- MCPunctuation
  Similar <- MCSimilar
  DefaultTarget = "mingw"
  None = None
INVARIANTS
  PatchAddsVersion
  EditsSettle
  
  DroppedIsAudited
  RecordsDenote
  TemplatesRead
  EdgeForReferenced
  ToolchainFits
