SPECIFICATION RemoteSpec
CONSTANTS
  Pools = {"p", "q"}
  Size <- TwoAndOne
  Addrs = {own, a1, a2}
  Own = {own}
  Nodes = {1}
  Machines = {1, 2}
  Connects = {c1, c2}
  Calls = {1, 2}
  MaxCreds = 5
  Slots = 1
  QuickSaves = 2
  MaxConns = 2
  MaxRevision = 2
INVARIANTS RemoteTypeOK NoStrayAddress CoreBindsTheRows
           EnrolmentHolds
           AnswersAreTrue RetryIsSafe
PROPERTIES UsedAddressesStay LostAddressReturns
CHECK_DEADLOCK FALSE
