SPECIFICATION Tended
CONSTANTS
  stable = stable
  later = later
  preview = preview
  Tags = {stable, later}
  Previews = {}
  Noted <- MCNoted
  Described <- MCOwnName
  Builds = {b1, b2}
  MaxFaults = 1
  None = None
  Empty = Empty
INVARIANT IndexServesArchive
PROPERTY EndsInIndex
