CONSTANTS
  Tabs = {t1}
  Remotes = remotes
  Places = {remotes, folder, odd}
  Odd = {odd}
  Logins = {l1}
  None = None
  MaxOpen = 1
SPECIFICATION Spec
PROPERTIES
  GoesToTheSavedPath
