------------------------------ MODULE LoopState ------------------------------
(***************************************************************************)
(* The durable half of one worker's cooperation loop                       *)
(* (crates/kernel_client/src/coop_loop.rs): the five steps, where each     *)
(* one falls back to, the backtrack budget, what was already handed over   *)
(* and which nudges were already given.  Pure operators on a loop record;  *)
(* OrgHost holds one record per worker and decides when they are applied.  *)
(*                                                                         *)
(* Abstracted: the virtual minute counter and the gathered-through cursor  *)
(* (both are written and never read back by the loop or the host) and the  *)
(* texts of deliveries (only their ids decide anything).                   *)
(***************************************************************************)
EXTENDS Naturals

CONSTANTS
  MsgIds,      \* ids of deliveries sent by peers (Delivery.id)
  NudgeKinds,  \* kinds of deadline nudges (external NudgeKind)
  WrapUp       \* the kind the idle prompt is recorded under

ASSUME NudgeAssumption == WrapUp \in NudgeKinds

Step == {"Gather", "Claim", "Act", "Verify", "Merge"}

\* The steps at which a worker asserts that it holds a scope.
PastClaim == {"Act", "Verify", "Merge"}

\* Ids of what a tick puts in the inbox: "nudge-idle-<w>" and "nudge-<w>-<kind>".
IdleId == <<"idle">>
NudgeId(k) == <<"nudge", k>>
DeliveryIds == {<<"msg", m>> : m \in MsgIds} \cup {IdleId} \cup {NudgeId(k) : k \in NudgeKinds}

LoopRecord ==
  [step : Step, backtracks : Nat, seen : SUBSET DeliveryIds,
   nudged : SUBSET NudgeKinds]

NewLoop == [step |-> "Gather", backtracks |-> 0, seen |-> {}, nudged |-> {}]

SlipBackToClaim(step) ==  \* slip: Verify falls back past the claim it holds
  CASE step = "Claim"  -> "Gather"
    [] step = "Act"    -> "Gather"
    [] step = "Verify" -> "Claim"
    [] step = "Merge"  -> "Verify"
    [] OTHER           -> "None"

\* Where a step that cannot proceed returns to; "Gather" is the floor.
BackTo(step) ==
  CASE step = "Claim"  -> "Gather"
    [] step = "Act"    -> "Gather"
    [] step = "Verify" -> "Act"
    [] step = "Merge"  -> "Verify"
    [] OTHER           -> "None"

BacktrackBudget(step) ==
  CASE step = "Claim"  -> 3
    [] step = "Verify" -> 2
    [] OTHER           -> 1

Advance(l, next) == [l EXCEPT !.step = next, !.backtracks = 0]

\* Err leaves the record as it is: at the floor, or with the budget spent.
Backtrack(l) ==
  IF BackTo(l.step) = "None" \/ l.backtracks >= BacktrackBudget(l.step)
  THEN l
  ELSE [l EXCEPT !.step = BackTo(l.step), !.backtracks = @ + 1]

\* deliver_all against an inbox that cannot fail: everything queued is handed
\* over once, and its id remembered.  Order within the batch changes nothing
\* that is kept, so the inbox is a set of ids.
DeliverAll(l, inbox) == [l EXCEPT !.seen = @ \cup inbox]

\* The queue holds something that was not handed over before.
HasNews(l, inbox) == ~ (inbox \subseteq l.seen)

\* idle_prompt(60, 10): due unless it was given before; recorded as WrapUp.
IdleDue(l) == WrapUp \notin l.nudged

MarkNudged(l, kinds) == [l EXCEPT !.nudged = @ \cup kinds]
=============================================================================
