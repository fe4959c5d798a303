----------------------------- MODULE ScopeLedger -----------------------------
(***************************************************************************)
(* What the claim path promises its callers, with no loop, board, disk or  *)
(* restart in sight: scopes are granted to one worker at a time, never     *)
(* while another worker holds an overlapping one, and any set of grants    *)
(* may be taken back.                                                      *)
(***************************************************************************)
CONSTANTS Workers, Scopes, Overlap

VARIABLE held  \* the grants in force, as <<worker, scope>> pairs

LedgerTypeOK == held \subseteq Workers \X Scopes

LedgerInit == held = {}

Taken(w, s) == \E h \in held : h[1] # w /\ <<h[2], s>> \in Overlap

Grant(w, S) ==
  /\ \A s \in S : ~ Taken(w, s)
  /\ held' = held \cup {<<w, s>> : s \in S}

TakeBack(H) == held' = held \ H

LedgerNext ==
  \/ \E w \in Workers, S \in SUBSET Scopes : Grant(w, S)
  \/ \E H \in SUBSET held : TakeBack(H)

LedgerSpec == LedgerInit /\ [][LedgerNext]_held

\* No two workers hold overlapping scopes.
MutualExclusion ==
  \A g, h \in held : g[1] # h[1] => <<g[2], h[2]>> \notin Overlap
=============================================================================
