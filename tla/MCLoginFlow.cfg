CONSTANTS
  Tabs = {t1, t2}
  Remotes = remotes
  Places = {remotes, folder, odd}
  Odd = {odd}
  Logins = {l1, l2}
  None = None
  MaxOpen = 1
SPECIFICATION Spec
SYMMETRY MCSymmetry
INVARIANTS
  TypeOK
  UndisturbedLoginIsAccepted
PROPERTIES
  ReturnsWhereItLeft
