SPECIFICATION Persistent
CONSTANTS
  ReleaseMembers = {"boost", "libs", "cmake", "doc"}
  KeptMembers = {"boost", "libs", "cmake"}
  ImportFaults = {"broken_off", "wrong_bytes", "disk", "kill"}
  MaxImportFaults = 3
INVARIANTS GivenUpForPinned ImportedIsWhole
PROPERTY RerunRevertsPinned
