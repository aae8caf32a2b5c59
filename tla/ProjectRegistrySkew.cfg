\* A project is created, an update that changes nothing meets one that renames.
SPECIFICATION Spec
CONSTANTS
  create = create  rename = rename  touch = touch  enable = enable
  disable = disable  archive = archive  rescan = rescan
  old = old  new = new  t1 = t1  t2 = t2  s1 = s1  s2 = s2
  None = None
  Requests = {create, rename, touch}
  Kind <- Command
  Names = {old, new}
  NameOf <- Display
  Threads = {t1, t2}
  Syncs = {}
  Works = {}
  Existing = FALSE
  DiskFails = FALSE
  MaxDeaths = 0
INVARIANTS RegistryAgrees
CHECK_DEADLOCK FALSE
