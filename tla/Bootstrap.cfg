SPECIFICATION Spec
CONSTANTS
  x = x
  y = y
  app = app
  lib = lib
  old = old
  far = far
  p1 = p1
  p2 = p2
  Remote = {x, y}
  NoRemote = NoRemote
  Name = {1, 2, 3}
  Path = {app, lib, old, far}
  Above <- MCAbove
  Outside = {far}
  Proc = {p1, p2}
  Requests <- MCRequests
  NoRequest = NoRequest
  Registries <- MCRegistries
  Disks <- MCDisks
  Edits <- MCEdits
  MaxOps = 2
  MaxMishaps = 1
SYMMETRY Symmetric
INVARIANTS TypeOK PlannersAgree LayoutDisjoint
PROPERTIES RefusalKeepsWhatWasThere SuccessIsInPlace RetryGoesThrough
CHECK_DEADLOCK FALSE
