CONSTANTS
  Nothing = Nothing
  Missing = Missing
  Remotes = {"r1", "r2"}
  Items <- MCItems
  Touched <- MCTouched
  NewNames <- MCNewNames
  Typed <- MCTyped
  Uploaded <- MCUploaded
  Tokens <- MCTokens
  Slashed <- MCSlashed
  LowerRank <- MCLowerRank
  LocaleRank <- MCLowerRank
  MaxStack = 2
SPECIFICATION Spec
INVARIANTS
  DeletesTheItemShown
