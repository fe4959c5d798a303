------------------------------ MODULE ChildRuns ------------------------------
(***************************************************************************)
(* The operations of a host that start a process, as the kernel worker     *)
(* (crates/kernel_client/src/worker.rs, handle_exec and handle_kernel) and *)
(* the agent server (exec_segment) serve them, one request at a time:      *)
(*                                                                         *)
(*   exec    runs a granted command (ExecSegment);                         *)
(*   module  runs a kernel segment in a module (ExecSegment);              *)
(*   stdio   runs a kernel segment in a real kernel (StdioKernel).         *)
(*                                                                         *)
(* The gates of a kernel segment (grant, language, a configured binary)    *)
(* come before its backend, and every attempt leaves a row in a bounded    *)
(* trail.                                                                  *)
(***************************************************************************)
EXTENDS ExecSegment, StdioKernel

CONSTANTS
  MaxAudit,    \* MAX_EXEC_AUDIT
  MaxRequests  \* bound: requests served

ASSUME ChildRunsAssumption == MaxAudit \in Nat \ {0} /\ MaxRequests \in Nat

VARIABLES
  op,        \* of the request that is served, none between two
  exec_audit,
  answers    \* to every request so far: the operation and what it came to

vars == <<op, exec_audit, answers, segmentVars, stdioVars>>

Ops == {"exec", "module", "stdio"}
Rows == [op : Ops, outcome : {"ok", "grant-denied", "lang-denied", "command-denied",
                              "timed-out", "failed"}]

TypeOK ==
  /\ op \in Ops \cup {"none"}
  /\ exec_audit \in Seq(Rows) /\ Len(exec_audit) <= MaxAudit
  /\ answers \in Seq(Rows) /\ Len(answers) <= MaxRequests
  /\ SegmentTypeOK /\ StdioTypeOK

Init ==
  /\ op = "none" /\ exec_audit = <<>> /\ answers = <<>>
  /\ SegmentInit /\ StdioInit

Ask(o) ==
  /\ op = "none" /\ Len(answers) < MaxRequests
  /\ op' = o
  /\ UNCHANGED <<exec_audit, answers, segmentVars, stdioVars>>

\* A row for the attempt; the oldest one makes room.
Audited(row) ==
  exec_audit' = IF Len(exec_audit) < MaxAudit THEN Append(exec_audit, row)
                ELSE Append(Tail(exec_audit), row)

\* The host is done with the child, and with the request.
Answer(end) ==
  /\ Audited([op |-> op, outcome |-> end])
  /\ answers' = Append(answers, [op |-> op, outcome |-> end])
  /\ op' = "none"
  /\ SegmentReset /\ StdioReset

\* handle_kernel's gates, each of which fails closed.
Deny ==
  /\ \/ op = "module" /\ phase = "start" /\ tries = 0
     \/ op = "stdio" /\ step = "launch"
  /\ \E end \in {"grant-denied", "lang-denied", "failed"} : Answer(end)

InSegment(A) == A /\ UNCHANGED <<op, exec_audit, answers, stdioVars>>
InKernel(A) == A /\ UNCHANGED <<op, exec_audit, answers, segmentVars>>

ExecNext == op = "exec" /\ InSegment(SegmentNext \/ Refuse \/ WaitFails(TRUE))
ModuleNext == op = "module" /\ InSegment(SegmentNext \/ LaunchBusy \/ WaitFails(FALSE))
KernelNext == op = "stdio" /\ InKernel(StdioNext)

\* ExecOutcome::audit_outcome.
AuditOutcome(r) ==
  CASE r \in {"ok", "grant-denied", "command-denied", "timed-out"} -> r
    [] OTHER -> "failed"

ExecDone == op = "exec" /\ phase = "done" /\ Answer(AuditOutcome(result))

\* What a module that succeeded printed may still not be its outputs.
ModuleDone ==
  /\ op = "module" /\ phase = "done"
  /\ \/ result \in {"ok", "timed-out"} /\ Answer(result)
     \/ result # "timed-out" /\ Answer("failed")

KernelDone ==
  /\ op = "stdio" /\ Returned
  /\ Answer(IF outcome = "ok" THEN "ok" ELSE "failed")

Next ==
  \/ \E o \in Ops : Ask(o)
  \/ Deny \/ ExecNext \/ ModuleNext \/ KernelNext
  \/ ExecDone \/ ModuleDone \/ KernelDone

Spec == Init /\ [][Next]_vars

\* The host and its threads run and time passes.  Nothing is assumed of the
\* child, its descendants and the kernel.
SegmentFairness(o) ==
  /\ WF_vars(op = o /\ InSegment(Spawn \/ LaunchFails))
  /\ WF_vars(op = o /\ InSegment(Poll)) /\ WF_vars(op = o /\ InSegment(Drain \/ Finish))
  /\ WF_vars(op = o /\ InSegment(DeadlinePasses))

StdioFairness ==
  /\ WF_vars(op = "stdio" /\ InKernel(Launch \/ LaunchRefused))
  /\ WF_vars(op = "stdio" /\ InKernel(WriteUnit \/ WriteFails \/ Written))
  /\ WF_vars(op = "stdio" /\ InKernel(DrainBuffer \/ TryWait \/ CheckDeadline \/ Reap))
  /\ WF_vars(op = "stdio" /\ InKernel(ReadOutput)) /\ WF_vars(op = "stdio" /\ InKernel(TimePasses))

FairSpec ==
  /\ Spec /\ SegmentFairness("exec") /\ SegmentFairness("module") /\ StdioFairness
  /\ WF_vars(ExecDone \/ ModuleDone \/ KernelDone)

-----------------------------------------------------------------------------
(* Properties.                                                             *)

\* No child is left running behind an answer: not by a refused request, a
\* time-out or a failed exchange (stdio_driver.rs: "no zombie is left behind
\* whether the exchange succeeded or not"), except by a backend that could not
\* wait for its child.
NobodyLeft ==
  /\ op = "exec" /\ phase = "done" => child # "running"
  /\ op = "module" /\ phase = "done" => child # "running" \/ result = "wait-failed"
  /\ op = "stdio" /\ step = "done" => kernel # "running"

\* A request always comes to an end, whatever the child does with its stdin,
\* its output and its time ("written on a thread so a child that never reads it
\* cannot deadlock us"), with two exceptions: a descendant that keeps the pipe
\* open outlives the child, or a kernel stops reading while a request that does
\* not fit in the pipe is written to it.  A host that serves one request at a
\* time would otherwise answer nobody any more.
RequestEnds ==
  <>[](op = "none") \/ <>[](phase = "drain" /\ holder)
    \/ <>[](step = "send" /\ left > 0 /\ stdin_pipe = InPipe)
=============================================================================
