-------------------------- MODULE MCDataRetention --------------------------
(* Two workspaces with a meeting each. *)
EXTENDS DataRetention

CONSTANTS m1, m2, v, w

MCWorkspaceOf == [m \in Meetings |-> IF m = m1 THEN v ELSE w]
=============================================================================
