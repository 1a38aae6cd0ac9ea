SPECIFICATION Spec
CONSTANTS
  Users = {u1, u2}
  Jobs = {j1}
  Boxes = {b1, b2, b3}
  NoBox = NoBox
  UserKinds <- AllKinds
  JobKinds <- AllJobs
  SkipCore = TRUE
SYMMETRY Symmetry
INVARIANTS FlagIsOwned SafeModeWaits
CHECK_DEADLOCK FALSE
