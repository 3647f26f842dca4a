CONSTANTS
  Addrs = {a1, a2}
  Handlers = {h1, h2}
  Limiters = {b1, b2, b3}
  None = None
  Burst = 3
  IdleLimit = 5
  MaxHold = 2
SPECIFICATION Spec
SYMMETRY MCSymmetry
INVARIANTS
  TypeOK
  AsksTheCurrentLimiter
  NoStretchOverBurst
PROPERTIES
  LooksLikeOneBucket
