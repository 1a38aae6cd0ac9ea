------------------------------ MODULE MCAgentHub ------------------------------
(* Small instances of AgentHub.                                             *)
EXTENDS AgentHub, TLC

CONSTANTS n1, s1, s2, c1, r1, t1

OneSession == s1 :> n1
\* Both connections of n1: the second replaces the first.
OneNode == s1 :> n1 @@ s2 :> n1
=============================================================================
