SPECIFICATION Spec
CONSTANTS
  r1 = r1
  s1 = s1
  p1 = p1
  p2 = p2
  p3 = p3
  Run = {r1, s1}
  Proc = {p1, p2, p3}
  Stray = {s1}
  NoRun = NoRun
  NoProc = NoProc
  MaxCommands = 2
  MaxFaults = 2
SYMMETRY Symmetric
INVARIANTS ContractAheadByOne RecordsAuthentic
PROPERTIES StrayStopsClean LedgerOnlyGrows ImplementsLedger
