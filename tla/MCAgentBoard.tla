----------------------------- MODULE MCAgentBoard -----------------------------
(***************************************************************************)
(* AgentBoard for TLC: any two scopes collide, and a packet overlaps every *)
(* edit it was not made in view of.                                        *)
(***************************************************************************)
EXTENDS AgentBoard, TLC

MCOverlap == Scopes \X Scopes
MCFootprints == {<<BlockRange(0, 2)>>}
Symmetry == Permutations(Workers)
=============================================================================
