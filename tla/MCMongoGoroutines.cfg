CONSTANTS
  web = web
  web2 = web2
  cli = cli
  tWeb = tWeb
  tWeb2 = tWeb2
  tCli = tCli
  kOld = kOld
  kNew = kNew
  Procs = {web, cli}
  WebApis = {web}
  Threads = {tWeb, tWeb2, tCli}
  ProcOf <- MCProcOf
  Sections = {s1}
  Keys = {k1}
  Values = {v1}
  EncKeys = {kOld, kNew}
  EncKey <- MCTwoKeys
  Absent = Absent
  MaxEdits = 1
  MaxWrites = 3
SPECIFICATION FairSpec
INVARIANTS
  StartsFromAWholeCopy
  SaveWritesTheCopy
PROPERTIES
  WatcherCatchesUp
