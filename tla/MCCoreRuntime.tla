---------------------------- MODULE MCCoreRuntime ----------------------------
(* Instances of CoreRuntime for TLC.  Users, Jobs and Boxes are interchangeable. *)
EXTENDS CoreRuntime, TLC

Symmetry == Permutations(Users) \cup Permutations(Jobs) \cup Permutations(Boxes)

\* Operations that hold the flag while they touch the core.
FlaggedKinds == {"SaveObject", "SaveConfig", "SaveRollback", "RestartXray", "RotateRelay"}

\* Saves and restarts, the requests of a panel in safe mode.
SaveKinds == {"SaveObject", "SaveConfig", "SaveRollback", "RestartXray", "RestartCore"}

AllKinds == FlaggedKinds \cup {"RestartCore", "CreateRelay", "DeleteRelay"}

Restarts == {"RestartCore"}
Watchdog == {"CheckCore"}
AllJobs  == {"CheckCore", "ResetTraffic"}
=============================================================================
