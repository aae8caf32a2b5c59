\* A project is created, renamed, enabled, rescanned and archived, deliveries are repeated,
\* the registry is synchronised, the disk fails and the server dies.
SPECIFICATION Spec
CONSTANTS
  create = create  rename = rename  touch = touch  enable = enable
  disable = disable  archive = archive  rescan = rescan
  old = old  new = new  t1 = t1  t2 = t2  s1 = s1  s2 = s2
  None = None
  Requests = {create, rename, enable, archive, rescan}
  Kind <- Command
  Names = {old, new}
  NameOf <- Display
  Threads = {t1, t2}
  Syncs = {s1}
  Works = {"run", "submitted"}
  Existing = FALSE
  DiskFails = TRUE
  MaxDeaths = 1
INVARIANTS OnceOnly ArchivedIsIdle StoresFollowRow
PROPERTIES NoLostUpdate
SYMMETRY AnyThread
CHECK_DEADLOCK FALSE
