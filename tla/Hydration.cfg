SPECIFICATION Spec
CONSTANTS
  a = a
  p1 = p1
  p2 = p2
  Project = {a}
  Proc = {p1, p2}
  NoProject = NoProject
  NoProc = NoProc
  UserKind = {"readme", "repo"}
  MaxEdits = 2
  MaxFaults = 1
SYMMETRY Symmetric
INVARIANTS TypeOK TempCleaned
PROPERTIES FailureRestores SuccessIsWhole KeepsWhatItSaw
