SPECIFICATION Spec
CONSTANTS
  x = x
  y = y
  app = app
  lib = lib
  old = old
  far = far
  p1 = p1
  p2 = p2
  Remote = {x, y}
  NoRemote = NoRemote
  Name = {1, 2, 3}
  Path = {app, lib, old, far}
  Above <- MCAbove
  Outside = {far}
  Proc = {p1, p2}
  Requests <- MCRequests
  NoRequest = NoRequest
  Registries <- MCRegistries
  Disks <- MCDisks
  Edits <- MCEdits
  MaxOps = 1
  MaxMishaps = 0
SYMMETRY Symmetric
PROPERTY RefusalLeavesNoTrace
CHECK_DEADLOCK FALSE
