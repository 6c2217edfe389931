CONSTANTS
  Libs <- MCLibs
  CandidateLists <- MCCandidateLists
SPECIFICATION Spec
INVARIANTS
  KeepsAcyclic
  OrderIrrelevant
PROPERTIES
  ImplementsCompletion
  EndsWritten
CHECK_DEADLOCK FALSE
