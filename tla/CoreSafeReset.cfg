SPECIFICATION Spec
CONSTANTS
  Users = {u1}
  Jobs = {j1}
  Boxes = {b1, b2}
  NoBox = NoBox
  UserKinds <- SaveKinds
  JobKinds <- AllJobs
  SkipCore = TRUE
INVARIANTS UsersStartCores
CHECK_DEADLOCK FALSE
