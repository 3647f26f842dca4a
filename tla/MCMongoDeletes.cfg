CONSTANTS
  web = web
  web2 = web2
  cli = cli
  tWeb = tWeb
  tWeb2 = tWeb2
  tCli = tCli
  kOld = kOld
  kNew = kNew
  Procs = {web, cli}
  WebApis = {web}
  Threads = {tWeb, tCli}
  ProcOf <- MCProcOf
  Sections = {s1, s2}
  Keys = {k1}
  Values = {v1}
  EncKeys = {kNew}
  EncKey <- MCOneKey
  Absent = Absent
  MaxEdits = 1
  MaxWrites = 2
SPECIFICATION Spec
PROPERTIES
  DeletesOnlyWhatWasRemoved
