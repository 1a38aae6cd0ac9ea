SPECIFICATION LiveSpec
CONSTANTS
  Users = {u1}
  Jobs = {j1}
  Boxes = {b1, b2, b3}
  NoBox = NoBox
  UserKinds <- Restarts
  JobKinds <- Watchdog
  SkipCore = FALSE
PROPERTIES CoreComesBack
CHECK_DEADLOCK FALSE
