------------------------------ MODULE MCOrgHost ------------------------------
(* OrgHost on a small organisation: a scope overlaps itself, and a tick     *)
(* finds one deadline due, or none.                                         *)
EXTENDS OrgHost, TLC

MCOverlap == {<<s, s>> : s \in Scopes}
MCDueSets == {{"stop_claiming"}}
MCSymmetry == Permutations(Workers)
=============================================================================
