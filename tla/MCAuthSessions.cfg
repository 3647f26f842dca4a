CONSTANTS
  Instances = {i1, i2}
  Unstable = {i1}
  Users = {u1, u2}
  Tokens = {t1, t2, t3}
  Requests = {r1, r2}
  Nobody = Nobody
  NoToken = NoToken
SPECIFICATION Spec
SYMMETRY MCSymmetry
INVARIANTS
  TypeOK
  NoTwoTokensOfASession
  SessionSurvivesRaces
  TokensOfAllowedUsers
PROPERTIES
  RevokedForGood
  LooksLikeOneTable
