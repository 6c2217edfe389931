SPECIFICATION Stubborn
CONSTANTS
  Formats = {"7z", "zip"}
  Workers = {w1, w2}
  Members <- MCMembers
  Anchors <- MCAnchors
  Probed <- MCProbed
  RunOpts <- Any
  Faults = {"network", "disk", "kill"}
  MaxFaults = 3
  None = None
INVARIANTS ExtractsPinned WorkersJoined MarkedIsWhole
PROPERTIES OptionsTakeEffect Recovers
