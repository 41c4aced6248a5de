SPECIFICATION Spec
CONSTANTS
  r1 = r1
  r2 = r2
  p1 = p1
  p2 = p2
  Run = {r1, r2}
  Proc = {p1, p2}
  Stray = {}
  NoRun = NoRun
  NoProc = NoProc
  MaxCommands = 2
  MaxFaults = 1
SYMMETRY Symmetric
INVARIANTS TypeOK OneSupervisedCommand PrepareOwnsItsRun DiskMatchesTable
PROPERTIES WorkspaceOutlivesCommand
