SPECIFICATION Spec
CONSTANTS
  main = main
  dev = dev
  m0 = m0
  m1 = m1
  m2 = m2
  d0 = d0
  wip = wip
  dotenv = dotenv
  key = key
  go = go
  agent = agent
  p1 = p1
  p2 = p2
  Branch = {main, dev}
  Main = main
  Malformed = Malformed
  None = None
  Commit = {m0, m1, m2, d0, wip}
  Before <- MCBefore
  FileIn <- MCFileIn
  EnvFile = {dotenv}
  Key = {key}
  Tool = {go}
  Hosted <- MCHosted
  Proc = {p1, p2}
  Scope = {agent}
  Sites <- MCSites
  Together <- MCTogether
  Shared <- MCShared
  MaxPushes = 1
  MaxBinds = 1
INVARIANTS TypeOK MatchedRunMeetsItsPolicy ProvenanceTrue BundleWholeAndScoped StatusTellsThePath
SYMMETRY Symmetric
CHECK_DEADLOCK FALSE
