SPECIFICATION FairSpec
CONSTANTS
  r1 = r1
  p1 = p1
  p2 = p2
  Run = {r1}
  Proc = {p1, p2}
  Stray = {}
  NoRun = NoRun
  NoProc = NoProc
  MaxCommands = 2
  MaxFaults = 2
PROPERTIES OperationsReturn CleanupConverges
