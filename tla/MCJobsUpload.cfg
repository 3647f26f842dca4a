\* A job and an upload, two folders, one restart.  No symmetry: the run
\* checks liveness too.
CONSTANTS
  r1 = r1
  u1 = u1
  f1 = f1
  f2 = f2
  Requests = {r1, u1}
  Uploads = {u1}
  Folders = {f1, f2}
  Nothing = Nothing
  Instants = {1}
  MaxId = 1
  MaxRestarts = 1
SPECIFICATION FairSpec
INVARIANTS
  ListingShowsSuccesses
  SuccessIsReal
PROPERTIES
  PendingEnds
