\* Two jobs, two ids, one restart of the server.
CONSTANTS
  r1 = r1
  r2 = r2
  f1 = f1
  Requests = {r1, r2}
  Uploads = {}
  Folders = {f1}
  Nothing = Nothing
  Instants = {1, 2}
  MaxId = 2
  MaxRestarts = 1
SPECIFICATION Spec
SYMMETRY Symmetry
INVARIANTS TypeOK ListingShowsSuccesses SuccessIsReal PendingIsWatched
PROPERTY FinalStays
