SPECIFICATION LiveSpec
CONSTANTS
  Users = {u1, u2}
  Jobs = {j1, j2}
  Boxes = {b1, b2}
  NoBox = NoBox
  UserKinds <- FlaggedKinds
  JobKinds <- Watchdog
  SkipCore = FALSE
INVARIANTS CoreHonest NoLeakedBox NoNilBox
PROPERTIES CoreComesBack FlagIsFreed
CHECK_DEADLOCK FALSE
