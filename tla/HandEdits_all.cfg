SPECIFICATION Spec
CONSTANTS
    Snapshots <- MCSnapshots
    Drafts <- MCDrafts
    Vendored <- MCVendored
    Program <- MCProgram
    Hits = {"process.inc"}
    GitFails = TRUE
INVARIANTS TypeOK OnlyKeptSnapshotsStick OkIsCommitted
PROPERTIES ReplayRestoresCommitted
