\* An objective is submitted on the command line while its project is archived.
SPECIFICATION Spec
CONSTANTS
  create = create  rename = rename  touch = touch  enable = enable
  disable = disable  archive = archive  rescan = rescan
  old = old  new = new  t1 = t1  t2 = t2  s1 = s1  s2 = s2
  None = None
  Requests = {create, enable, archive}
  Kind <- Command
  Names = {old, new}
  NameOf <- Display
  Threads = {t1}
  Syncs = {}
  Works = {"submitted"}
  Existing = FALSE
  DiskFails = FALSE
  MaxDeaths = 0
INVARIANTS ArchivedHasNoWork
CHECK_DEADLOCK FALSE
