SPECIFICATION Spec
CONSTANTS
  a = a
  p1 = p1
  p2 = p2
  Project = {a}
  Proc = {p1, p2}
  NoProject = NoProject
  NoProc = NoProc
  UserKind = {"notes"}
  MaxEdits = 0
  MaxFaults = 0
PROPERTIES FailureKeepsFiles
