------------------------------ MODULE XrayChild ------------------------------
(***************************************************************************)
(* What core/xray_runtime.go promises the rest of the panel: at any time   *)
(* there is at most one Xray child process, and a new one is spawned only  *)
(* after the previous one has been reaped.                                 *)
(***************************************************************************)
CONSTANT Procs

VARIABLE children   \* child processes that have been spawned and not yet reaped

Init == children = {}

Spawn(p) == children = {} /\ children' = {p}
Reap(p)  == p \in children /\ children' = children \ {p}

Next == \E p \in Procs : Spawn(p) \/ Reap(p)

Spec == Init /\ [][Next]_children
=============================================================================
