SPECIFICATION Spec
CONSTANTS
  x = x
  y = y
  app = app
  old = old
  p1 = p1
  p2 = p2
  Remote = {x, y}
  NoRemote = NoRemote
  Path = {app, old}
  Name = {1, 2, 3}
  BaseName <- MCBaseName
  Manifests <- MCManifests
  Proc = {p1, p2}
  MaxOps = 3
  MaxEdits = 0
  MaxFaults = 0
SYMMETRY Symmetric
PROPERTIES ScanKeepsLayout
CHECK_DEADLOCK FALSE
