CONSTANTS
  None = None
  Other = Other
  Files = {f1, f2}
  UrlIds = {u1, u2, u3}
  Ttl = 3
  MaxStack = 3
SPECIFICATION FairSpec
INVARIANTS
  ShowsTheFile
  NoUrlLeaks
  StaleForLessThanTtl
  TypeOK
PROPERTIES
  LoadEnds
