----------------------------- MODULE StdioKernel -----------------------------
(***************************************************************************)
(* A real kernel over stdio (crates/kernel_client/src/stdio_driver.rs,     *)
(* run_stdio_kernel): the driver, which writes a request and polls for its *)
(* reply; the thread that reads the kernel's stdout under the cap; the     *)
(* kernel, which reads, publishes, stalls and exits as it likes; and the   *)
(* deadline.                                                               *)
(*                                                                         *)
(* A request is written in units through a pipe that holds InPipe of them; *)
(* the kernel has the request when it has read the last one.  What comes   *)
(* back is counted in messages, one unit of the cap each.                  *)
(***************************************************************************)
EXTENDS Naturals, Sequences, FiniteSets, SequencesExt

CONSTANTS
  InPipe,     \* what the stdin pipe holds
  ExecUnits,  \* units of the execute_request
  Cap,        \* cap_bytes
  MaxMessages \* bound: messages of the kernel

ASSUME StdioKernelAssumption ==
  /\ InPipe \in Nat \ {0} /\ ExecUnits \in Nat \ {0}
  /\ Cap \in Nat /\ MaxMessages \in Nat

VARIABLES
  step,              \* of the driver; left: it returned and did not reap
  request,           \* the request it is at
  left,              \* units of it still to write
  stdin_pipe, read,  \* units in the pipe, and those the kernel has read
  kernel,            \* none, running or exited
  published,         \* all messages of the kernel
  taken,             \* how many of them the reader thread took
  stdout_buf, overrun,
  seen,              \* what collect_until has passed over for this request
  passed,            \* the deadline has passed
  outcome, outputs

driverVars == <<step, request, left, seen, outcome, outputs>>
kernelVars == <<stdin_pipe, read, kernel, published>>
readerVars == <<taken, stdout_buf, overrun>>
stdioVars == <<driverVars, kernelVars, readerVars, passed>>

Requests == {"kernel_info_request", "execute_request", "shutdown_request"}
Units(r) == IF r = "execute_request" THEN ExecUnits ELSE 1

\* "startup" is published before the segment runs, "stream" by the segment.
Messages == {"startup", "kernel_info_reply", "stream", "execute_reply", "junk"}
ReplyTo(r) == IF r = "kernel_info_request" THEN "kernel_info_reply" ELSE "execute_reply"
Errors == {"launch", "stdin", "cap", "frame", "exited", "timeout"}

StdioTypeOK ==
  /\ step \in {"launch", "send", "drain", "wait", "deadline", "reap", "done", "left"}
  /\ request \in Requests /\ left \in 0 .. Units(request)
  /\ stdin_pipe \in 0 .. InPipe /\ read \in 0 .. ExecUnits + 2
  /\ kernel \in {"none", "running", "exited"}
  /\ published \in Seq(Messages) /\ Len(published) <= MaxMessages
  /\ taken \in 0 .. Len(published)
  /\ stdout_buf \in Seq(Messages) /\ seen \in Seq(Messages)
  /\ overrun \in BOOLEAN /\ passed \in BOOLEAN
  /\ outcome \in Errors \cup {"none", "ok"}
  /\ outputs \in Seq(Messages)

StdioInit ==
  /\ step = "launch" /\ request = "kernel_info_request" /\ left = 1
  /\ stdin_pipe = 0 /\ read = 0 /\ kernel = "none" /\ published = <<>>
  /\ taken = 0 /\ stdout_buf = <<>> /\ overrun = FALSE
  /\ seen = <<>> /\ passed = FALSE /\ outcome = "none" /\ outputs = <<>>

\* The next kernel finds everything as it was at first.
StdioReset ==
  /\ step' = "launch" /\ request' = "kernel_info_request" /\ left' = 1
  /\ stdin_pipe' = 0 /\ read' = 0 /\ kernel' = "none" /\ published' = <<>>
  /\ taken' = 0 /\ stdout_buf' = <<>> /\ overrun' = FALSE
  /\ seen' = <<>> /\ passed' = FALSE /\ outcome' = "none" /\ outputs' = <<>>

-----------------------------------------------------------------------------
(* The driver.                                                             *)

Returned == step \in {"done", "left"}

Launch ==
  /\ step = "launch" /\ step' = "send" /\ kernel' = "running"
  /\ UNCHANGED <<request, left, seen, outcome, outputs, stdin_pipe, read, published,
                 readerVars, passed>>

LaunchRefused ==
  /\ step = "launch" /\ step' = "done" /\ outcome' = "launch"
  /\ UNCHANGED <<request, left, seen, outputs, kernelVars, readerVars, passed>>

Fail(error) == outcome' = error /\ step' = "reap" /\ UNCHANGED <<request, left, seen, outputs>>

\* write_msg's write_all: a unit goes into the pipe when there is room.
WriteUnit ==
  /\ step = "send" /\ left > 0 /\ kernel = "running"
  /\ stdin_pipe < InPipe
  /\ stdin_pipe' = stdin_pipe + 1 /\ left' = left - 1
  /\ UNCHANGED <<step, request, seen, outcome, outputs, read, kernel, published,
                 readerVars, passed>>

\* The kernel is gone: an error, which the shutdown request ignores.
WriteFails ==
  /\ step = "send" /\ left > 0 /\ kernel = "exited"
  /\ IF request = "shutdown_request"
     THEN step' = "reap" /\ UNCHANGED <<request, left, seen, outcome, outputs>>
     ELSE Fail("stdin")
  /\ UNCHANGED <<kernelVars, readerVars, passed>>

\* The request is written: wait for its reply; after the last one, reap.
Written ==
  /\ step = "send" /\ left = 0
  /\ step' = IF request = "shutdown_request" THEN "reap" ELSE "drain"
  /\ seen' = <<>>
  /\ UNCHANGED <<request, left, outcome, outputs, kernelVars, readerVars, passed>>

SlipAnswered(batch) ==  \* slip: what came in an earlier batch is forgotten
  LET at == CHOOSE i \in DOMAIN batch :
              /\ batch[i] = ReplyTo(request)
              /\ \A j \in 1 .. i - 1 : batch[j] # ReplyTo(request)
      all == SubSeq(batch, 1, at - 1)
  IN  /\ step' = "send" /\ seen' = <<>>
      /\ IF request = "kernel_info_request"
         THEN /\ request' = "execute_request" /\ left' = ExecUnits
              /\ UNCHANGED <<outcome, outputs>>
         ELSE /\ request' = "shutdown_request" /\ left' = 1
              /\ outcome' = "ok" /\ outputs' = all

\* The reply is in the batch: what came before it is this request's, what comes
\* behind it in the same batch is nobody's.
Answered(batch) ==
  LET at == CHOOSE i \in DOMAIN batch :
              /\ batch[i] = ReplyTo(request)
              /\ \A j \in 1 .. i - 1 : batch[j] # ReplyTo(request)
      all == seen \o SubSeq(batch, 1, at - 1)
  IN  /\ step' = "send" /\ seen' = <<>>
      /\ IF request = "kernel_info_request"
         THEN /\ request' = "execute_request" /\ left' = ExecUnits
              /\ UNCHANGED <<outcome, outputs>>
         ELSE /\ request' = "shutdown_request" /\ left' = 1
              /\ outcome' = "ok" /\ outputs' = all

\* One turn of collect_until, in three steps: the messages that are there ...
DrainBuffer ==
  /\ step = "drain"
  /\ CASE overrun -> Fail("cap") /\ UNCHANGED stdout_buf
       [] ~ overrun /\ Contains(stdout_buf, "junk") -> Fail("frame") /\ UNCHANGED stdout_buf
       [] OTHER ->
            /\ stdout_buf' = <<>>
            /\ IF Contains(stdout_buf, ReplyTo(request))
               THEN Answered(stdout_buf)
               ELSE /\ seen' = seen \o stdout_buf /\ step' = "wait"
                    /\ UNCHANGED <<request, left, outcome, outputs>>
  /\ UNCHANGED <<taken, overrun, kernelVars, passed>>

\* ... whether the kernel still runs ...
TryWait ==
  /\ step = "wait"
  /\ IF kernel = "exited" THEN Fail("exited")
     ELSE step' = "deadline" /\ UNCHANGED <<request, left, seen, outcome, outputs>>
  /\ UNCHANGED <<kernelVars, readerVars, passed>>

SlipCheckDeadline ==  \* slip: only the first reply has a deadline
  /\ step = "deadline"
  /\ IF passed /\ request = "kernel_info_request" THEN Fail("timeout")
     ELSE step' = "drain" /\ UNCHANGED <<request, left, seen, outcome, outputs>>
  /\ UNCHANGED <<kernelVars, readerVars, passed>>

\* ... and the time.
CheckDeadline ==
  /\ step = "deadline"
  /\ IF passed THEN Fail("timeout")
     ELSE step' = "drain" /\ UNCHANGED <<request, left, seen, outcome, outputs>>
  /\ UNCHANGED <<kernelVars, readerVars, passed>>

SlipReap ==  \* slip: the grace runs out and the kernel is left alone
  /\ step = "reap"
  /\ step' = "done"
  /\ UNCHANGED <<request, left, seen, outcome, outputs, kernelVars, readerVars, passed>>

\* stdin is closed; the kernel ends in its grace or is killed, unless try_wait
\* fails.
Reap ==
  /\ step = "reap"
  /\ \/ kernel' = "exited" /\ step' = "done"
     \/ UNCHANGED kernel /\ step' = "left"
  /\ UNCHANGED <<request, left, seen, outcome, outputs, stdin_pipe, read, published,
                 readerVars, passed>>

-----------------------------------------------------------------------------
(* The reader thread, the kernel, the clock.                               *)

\* Over the cap, the thread ends and the message is not kept.
ReadOutput ==
  /\ taken < Len(published) /\ ~ overrun
  /\ taken' = taken + 1
  /\ IF taken' > Cap
     THEN overrun' = TRUE /\ UNCHANGED stdout_buf
     ELSE stdout_buf' = Append(stdout_buf, published[taken']) /\ UNCHANGED overrun
  /\ UNCHANGED <<driverVars, kernelVars, passed>>

KernelReads ==
  /\ kernel = "running" /\ stdin_pipe > 0
  /\ stdin_pipe' = stdin_pipe - 1 /\ read' = read + 1
  /\ UNCHANGED <<kernel, published, driverVars, readerVars, passed>>

HasInfo == read >= 1
HasExec == read >= 1 + ExecUnits
Sent(m) == Contains(published, m)

\* What a kernel may publish when: a reply once, and behind its request; the
\* segment's outputs in front of its reply.
MayPublish(m) ==
  CASE m = "startup" -> ~ HasExec
    [] m = "kernel_info_reply" -> HasInfo /\ ~ Sent(m)
    [] m = "stream" -> HasExec /\ ~ Sent("execute_reply")
    [] m = "execute_reply" -> HasExec /\ ~ Sent(m)
    [] m = "junk" -> TRUE

KernelPublishes(m) ==
  /\ kernel = "running" /\ Len(published) < MaxMessages /\ MayPublish(m)
  /\ published' = Append(published, m)
  /\ UNCHANGED <<stdin_pipe, read, kernel, driverVars, readerVars, passed>>

KernelExits ==
  /\ kernel = "running" /\ kernel' = "exited"
  /\ UNCHANGED <<stdin_pipe, read, published, driverVars, readerVars, passed>>

TimePasses ==
  /\ step # "launch" /\ ~ passed /\ passed' = TRUE
  /\ UNCHANGED <<driverVars, kernelVars, readerVars>>

StdioNext ==
  \/ Launch \/ LaunchRefused
  \/ WriteUnit \/ WriteFails \/ Written \/ DrainBuffer \/ TryWait \/ CheckDeadline \/ Reap
  \/ ReadOutput \/ KernelReads \/ (\E m \in Messages : KernelPublishes(m)) \/ KernelExits
  \/ TimePasses

-----------------------------------------------------------------------------
(* Properties.                                                             *)

Count(s, m) == Cardinality({i \in DOMAIN s : s[i] = m})

\* A segment that is answered is answered by its kernel's reply to it, with all
\* outputs that the kernel published for it, however they were batched
\* (run_stdio_kernel; "any that arrive after it belong to no run").
OutputsWhole ==
  outcome = "ok" =>
    /\ Sent("execute_reply")
    /\ Count(outputs, "stream") = Count(published, "stream")
    /\ Count(outputs, "execute_reply") = 0
=============================================================================
