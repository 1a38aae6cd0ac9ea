SPECIFICATION FairSpec
CHECK_DEADLOCK FALSE
CONSTANTS
    n1 = n1  s1 = s1  s2 = s2
    c1 = c1  r1 = r1  t1 = t1
    NoSession = NoSession
    Node = {n1}
    Session = {s1, s2}
    NodeOf <- OneNode
    Cmd = {}
    Rpc = {}
    Mutating = {}
    Batch = {}
    Term = {t1}
    MaxPing = 0
    LogLimit = 1
    LatencyLimit = 1
INVARIANTS
    NoOrphanBridge
PROPERTY
    ShellsReaped
