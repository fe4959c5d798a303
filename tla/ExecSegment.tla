----------------------------- MODULE ExecSegment -----------------------------
(***************************************************************************)
(* One child that is spawned, fed, polled and then drained: a granted      *)
(* command (crates/kernel_client/src/exec.rs, run_segment) or a module     *)
(* that runs a kernel segment (worker.rs, handle_kernel).  The actors are  *)
(* the caller, the child, the thread that feeds the child's stdin, a       *)
(* descendant the child may leave behind, and the deadline.                *)
(*                                                                         *)
(* Input and output are counted in units, and a pipe holds Pipe of them.   *)
(* What run_segment refuses before the spawn (grant, vocabulary and        *)
(* metacharacters, a stdin over the cap) is the choice of an outcome.      *)
(***************************************************************************)
EXTENDS Naturals

CONSTANTS
  LaunchRetries,  \* LAUNCH_RETRIES
  Pipe,      \* what a pipe holds
  MaxInput,  \* bound: units of stdin
  MaxOutput  \* bound: units of output

ASSUME ExecSegmentAssumption ==
  /\ LaunchRetries \in Nat \ {0} /\ Pipe \in Nat \ {0}
  /\ MaxInput \in Nat /\ MaxOutput \in Nat

VARIABLES
  phase,            \* of the caller: start, poll, drain, done
  tries,            \* spawns that found the file busy
  child, exit_code, \* child: none, running, exited
  to_feed, in_pipe, \* stdin the thread has yet to write, and in the pipe
  out_pipe, wrote,  \* output in the pipe, and all output so far
  holder,           \* a descendant holds the output pipe open
  late,             \* the deadline has passed
  timed_out, captured,
  result            \* the outcome, "none" while there is none

segmentVars == <<phase, tries, child, exit_code, to_feed, in_pipe, out_pipe, wrote,
                 holder, late, timed_out, captured, result>>

Refusals == {"grant-denied", "command-denied", "stdin-over-cap"}
Outcomes == Refusals \cup
  {"ok", "exit", "timed-out", "launch-failed", "wait-failed", "read-failed"}

SegmentTypeOK ==
  /\ phase \in {"start", "poll", "drain", "done"} /\ tries \in 0 .. LaunchRetries
  /\ child \in {"none", "running", "exited"} /\ exit_code \in {0, 1}
  /\ to_feed \in 0 .. MaxInput /\ in_pipe \in 0 .. Pipe
  /\ out_pipe \in 0 .. Pipe /\ wrote \in 0 .. MaxOutput
  /\ out_pipe + captured = wrote
  /\ holder \in BOOLEAN /\ late \in BOOLEAN /\ timed_out \in BOOLEAN
  /\ result \in Outcomes \cup {"none"}
  /\ result # "none" <=> phase = "done"

SegmentInit ==
  /\ phase = "start" /\ tries = 0 /\ child = "none" /\ exit_code = 0
  /\ to_feed = 0 /\ in_pipe = 0 /\ out_pipe = 0 /\ wrote = 0
  /\ holder = FALSE /\ late = FALSE /\ timed_out = FALSE
  /\ captured = 0 /\ result = "none"

\* The next child finds everything as it was at first.
SegmentReset ==
  /\ phase' = "start" /\ tries' = 0 /\ child' = "none" /\ exit_code' = 0
  /\ to_feed' = 0 /\ in_pipe' = 0 /\ out_pipe' = 0 /\ wrote' = 0
  /\ holder' = FALSE /\ late' = FALSE /\ timed_out' = FALSE
  /\ captured' = 0 /\ result' = "none"

\* The checks before the spawn, in their order; each fails closed.
Refuse ==
  /\ phase = "start"
  /\ result' \in Refusals /\ phase' = "done"
  /\ UNCHANGED <<tries, child, exit_code, to_feed, in_pipe, out_pipe, wrote, holder,
                 late, timed_out, captured>>

Spawn ==
  /\ phase = "start"
  /\ phase' = "poll" /\ child' = "running"
  /\ to_feed' \in 0 .. MaxInput
  /\ UNCHANGED <<tries, exit_code, in_pipe, out_pipe, wrote, holder, late, timed_out,
                 captured, result>>

\* The file cannot be executed.
LaunchFails ==
  /\ phase = "start"
  /\ result' = "launch-failed" /\ phase' = "done"
  /\ UNCHANGED <<tries, child, exit_code, to_feed, in_pipe, out_pipe, wrote, holder,
                 late, timed_out, captured>>

\* handle_kernel: a file that is open for writing is tried again, and in the
\* last attempt is an error like any other.
LaunchBusy ==
  /\ phase = "start" /\ tries + 1 < LaunchRetries
  /\ tries' = tries + 1
  /\ UNCHANGED <<phase, child, exit_code, to_feed, in_pipe, out_pipe, wrote, holder,
                 late, timed_out, captured, result>>

-----------------------------------------------------------------------------
(* The child, its descendant, the feeding thread, the clock.               *)

\* write_all, on its own thread; a child that is gone ends it.
Feed ==
  /\ phase # "start" /\ to_feed > 0
  /\ IF child = "exited"
     THEN to_feed' = 0 /\ UNCHANGED in_pipe
     ELSE in_pipe < Pipe /\ to_feed' = to_feed - 1 /\ in_pipe' = in_pipe + 1
  /\ UNCHANGED <<tries, phase, child, exit_code, out_pipe, wrote, holder, late,
                 timed_out, captured, result>>

ChildReads ==
  /\ child = "running" /\ in_pipe > 0
  /\ in_pipe' = in_pipe - 1
  /\ UNCHANGED <<tries, phase, child, exit_code, to_feed, out_pipe, wrote, holder, late,
                 timed_out, captured, result>>

\* The child or the descendant; a full pipe makes it wait.
ChildWrites ==
  /\ child = "running" \/ holder
  /\ out_pipe < Pipe /\ wrote < MaxOutput
  /\ out_pipe' = out_pipe + 1 /\ wrote' = wrote + 1
  /\ UNCHANGED <<tries, phase, child, exit_code, to_feed, in_pipe, holder, late,
                 timed_out, captured, result>>

ChildForks ==
  /\ child = "running" /\ holder' = TRUE
  /\ UNCHANGED <<tries, phase, child, exit_code, to_feed, in_pipe, out_pipe, wrote, late,
                 timed_out, captured, result>>

HolderEnds ==
  /\ holder /\ holder' = FALSE
  /\ UNCHANGED <<tries, phase, child, exit_code, to_feed, in_pipe, out_pipe, wrote, late,
                 timed_out, captured, result>>

ChildExits ==
  /\ child = "running" /\ child' = "exited" /\ exit_code' \in {0, 1}
  /\ UNCHANGED <<tries, phase, to_feed, in_pipe, out_pipe, wrote, holder, late, timed_out,
                 captured, result>>

DeadlinePasses ==
  /\ phase \in {"poll", "drain"} /\ ~ late /\ late' = TRUE
  /\ UNCHANGED <<tries, phase, child, exit_code, to_feed, in_pipe, out_pipe, wrote, holder,
                 timed_out, captured, result>>

-----------------------------------------------------------------------------
(* The caller.                                                             *)

\* One turn of the poll that ends it: the child has exited, or it is killed at
\* the deadline.  Any other turn sleeps and changes nothing.
Poll ==
  /\ phase = "poll"
  /\ \/ child = "exited" /\ UNCHANGED <<child, exit_code, timed_out>>
     \/ /\ child = "running" /\ late
        /\ child' = "exited" /\ exit_code' = 1 /\ timed_out' = TRUE
  /\ phase' = "drain"
  /\ UNCHANGED <<tries, to_feed, in_pipe, out_pipe, wrote, holder, late, captured, result>>

\* try_wait fails: run_segment kills the child, handle_kernel leaves it alone.
WaitFails(kills) ==
  /\ phase = "poll"
  /\ result' = "wait-failed" /\ phase' = "done"
  /\ child' = IF kills THEN "exited" ELSE child
  /\ UNCHANGED <<tries, exit_code, to_feed, in_pipe, out_pipe, wrote, holder, late,
                 timed_out, captured>>

\* wait_with_output reads what is there.
Drain ==
  /\ phase = "drain" /\ out_pipe > 0
  /\ captured' = captured + 1 /\ out_pipe' = out_pipe - 1
  /\ UNCHANGED <<tries, phase, child, exit_code, to_feed, in_pipe, wrote, holder, late,
                 timed_out, result>>

SlipFinish ==  \* slip: it does not read to the end
  /\ phase = "drain"
  /\ result' = IF timed_out THEN "timed-out" ELSE IF exit_code = 0 THEN "ok" ELSE "exit"
  /\ phase' = "done"
  /\ UNCHANGED <<tries, child, exit_code, to_feed, in_pipe, out_pipe, wrote, holder, late,
                 timed_out, captured>>

\* End of file: the pipe is empty and nobody can write to it any more.
Finish ==
  /\ phase = "drain" /\ out_pipe = 0 /\ ~ holder
  /\ result' = IF timed_out THEN "timed-out" ELSE IF exit_code = 0 THEN "ok" ELSE "exit"
  /\ phase' = "done"
  /\ UNCHANGED <<tries, child, exit_code, to_feed, in_pipe, out_pipe, wrote, holder, late,
                 timed_out, captured>>

\* ... and may fail on the way.
ReadFails ==
  /\ phase = "drain"
  /\ result' = "read-failed" /\ phase' = "done"
  /\ UNCHANGED <<tries, child, exit_code, to_feed, in_pipe, out_pipe, wrote, holder,
                 late, timed_out, captured>>

\* What both callers do, and what happens around them.
SegmentNext ==
  \/ Spawn \/ LaunchFails \/ Poll \/ Drain \/ Finish \/ ReadFails
  \/ Feed \/ ChildReads \/ ChildWrites \/ ChildForks \/ HolderEnds \/ ChildExits
  \/ DeadlinePasses

-----------------------------------------------------------------------------
(* Properties.                                                             *)

\* The outcome is the child's: ok or exit with the code of a child that ended
\* by itself, everything it and its descendants ever wrote was read, and a
\* child is called late only when it was (run_segment).
Honest ==
  result \in {"ok", "exit", "timed-out"} =>
    /\ child = "exited" /\ ~ holder /\ captured = wrote
    /\ timed_out <=> result = "timed-out"
    /\ timed_out => late
    /\ result = "ok" => exit_code = 0
=============================================================================
