SPECIFICATION Spec
CONSTANTS
  Gfm <- MCGfm
  Texts <- MCTexts
  Systems = {"intact"}
  Profile <- SameOnAnySystem
  MaxRounds = 2
  None = None
INVARIANT VerdictIsFresh
