--------------------------- MODULE KernelClientProofs --------------------------
(***************************************************************************)
(* Proofs about what a client of the kernel runs: the operations that      *)
(* start a process (ChildRuns), and the runner of an event stream with its *)
(* checkpoint (EventRunner).                                               *)
(***************************************************************************)
EXTENDS ChildRuns, EventRunner, NaturalLemmas, FiniteSetTheorems, SequenceTheorems, TLAPS

-----------------------------------------------------------------------------
(* ChildRuns: for pipes, inputs and outputs of any size, an operation's    *)
(* outcome is the child's own, no child is left running behind an answer,  *)
(* and a segment's outputs are all its kernel's.                           *)
(*                                                                         *)
(* Honest alone is not inductive.  Between the end of the poll and the end *)
(* of the output, it needs that the child has ended, and that every unit   *)
(* written is in the pipe or captured.                                     *)
(*                                                                         *)
(* OutputsWhole needs where the messages are: what the driver passed over  *)
(* and what it has not looked at are the last stretch of what the reader   *)
(* took, and nothing of the segment came before (InHand); and behind the   *)
(* reply a kernel publishes nothing of the segment (Ordered).              *)

\* What is written is in the pipe or captured.
Pipes ==
  /\ out_pipe \in Nat /\ captured \in Nat /\ wrote \in Nat
  /\ out_pipe + captured = wrote

\* The caller's phases and the child's life go together.
Lives ==
  /\ child \in {"none", "running", "exited"}
  /\ holder \in BOOLEAN /\ late \in BOOLEAN /\ timed_out \in BOOLEAN
  /\ phase \in {"start", "poll", "drain", "done"}
  /\ phase = "start" => child = "none"
  /\ phase = "drain" => child = "exited"
  /\ phase \in {"start", "poll"} => ~ timed_out
  /\ phase # "done" => result = "none"
  /\ timed_out => late
  /\ Honest

SegmentInv == Pipes /\ Lives

\* Only the child of the request that is served has begun.
Served ==
  /\ op \notin {"exec", "module"} => phase = "start"
  /\ op # "stdio" => step = "launch"
  /\ step = "launch" => kernel = "none"

IInv == SegmentInv /\ Served /\ NobodyLeft

-----------------------------------------------------------------------------

\* What happens around the caller writes to the pipe, or ends a child.
LEMMA AroundKeeps ==
  ASSUME SegmentInv,
         \/ Feed \/ ChildReads \/ ChildWrites \/ ChildForks \/ HolderEnds \/ ChildExits
         \/ DeadlinePasses
  PROVE  SegmentInv'
<1>1. CASE Feed \/ ChildReads
  BY <1>1 DEF SegmentInv, Pipes, Lives, Honest, Feed, ChildReads
<1>2. CASE ChildWrites
  BY <1>2 DEF SegmentInv, Pipes, Lives, Honest, ChildWrites
<1>3. CASE ChildForks \/ HolderEnds
  <2>1. CASE ChildForks
    BY <2>1 DEF SegmentInv, Pipes, Lives, Honest, ChildForks
  <2>2. CASE HolderEnds
    BY <2>2 DEF SegmentInv, Pipes, Lives, Honest, HolderEnds
  <2> QED BY <1>3, <2>1, <2>2
<1>4. CASE ChildExits
  BY <1>4 DEF SegmentInv, Pipes, Lives, Honest, ChildExits
<1>5. CASE DeadlinePasses
  <2>1. late' /\ late' \in BOOLEAN
    BY <1>5, Zenon DEF DeadlinePasses
  <2>2. /\ UNCHANGED <<child, phase, holder, timed_out, out_pipe, captured, wrote, result,
                       exit_code>>
    BY <1>5 DEF DeadlinePasses
  <2> QED BY <2>1, <2>2 DEF SegmentInv, Pipes, Lives, Honest
<1> QED BY <1>1, <1>2, <1>3, <1>4, <1>5

\* The caller looks at the child before it reads to the end.
LEMMA CallerKeeps ==
  ASSUME SegmentInv, NEW kills \in BOOLEAN,
         \/ Refuse \/ Spawn \/ LaunchFails \/ LaunchBusy \/ Poll \/ WaitFails(kills)
         \/ Drain \/ Finish \/ ReadFails
  PROVE  SegmentInv'
<1>1. CASE Refuse
  BY <1>1 DEF SegmentInv, Pipes, Lives, Honest, Refuse, Refusals
<1>2. CASE Spawn \/ LaunchFails \/ LaunchBusy
  BY <1>2 DEF SegmentInv, Pipes, Lives, Honest, Spawn, LaunchFails, LaunchBusy
<1>3. CASE Poll
  <2>1. Pipes'
    BY <1>3 DEF SegmentInv, Pipes, Poll
  <2>2. Lives'
    <3>1. phase' = "drain" /\ child' = "exited" /\ UNCHANGED <<late, holder, result>>
      BY <1>3 DEF Poll
    <3>2. timed_out' \in BOOLEAN /\ (timed_out' => late)
      <4>1. timed_out \in BOOLEAN /\ (timed_out => late)
        BY DEF SegmentInv, Lives
      <4>2. timed_out' = timed_out \/ (late /\ timed_out' = TRUE)
        BY <1>3, Zenon DEF Poll
      <4>3. CASE timed_out' = timed_out
        BY <4>1, <4>3
      <4>4. CASE late /\ timed_out' = TRUE
        BY <4>4, Zenon
      <4> QED BY <4>2, <4>3, <4>4
    <3>3. result = "none"
      BY <1>3 DEF SegmentInv, Lives, Poll
    <3> QED BY <3>1, <3>2, <3>3 DEF SegmentInv, Lives, Honest
  <2> QED BY <2>1, <2>2 DEF SegmentInv
<1>4. CASE WaitFails(kills)
  BY <1>4 DEF SegmentInv, Pipes, Lives, Honest, WaitFails
<1>5. CASE Drain
  BY <1>5 DEF SegmentInv, Pipes, Lives, Honest, Drain
<1>6. CASE Finish
  BY <1>6 DEF SegmentInv, Pipes, Lives, Honest, Finish
<1>7. CASE ReadFails
  BY <1>7 DEF SegmentInv, Pipes, Lives, Honest, ReadFails
<1> QED BY <1>1, <1>2, <1>3, <1>4, <1>5, <1>6, <1>7

\* A step of a command or a module leaves no child behind its last phase.
LEMMA SegmentLeavesNobody ==
  ASSUME IInv, ExecNext \/ ModuleNext
  PROVE  IInv'
<1>1. SegmentInv'
  BY AroundKeeps, CallerKeeps DEF IInv, ExecNext, ModuleNext, InSegment, SegmentNext
<1>2. op \in {"exec", "module"} /\ UNCHANGED <<op, step, kernel>>
  BY DEF ExecNext, ModuleNext, InSegment, stdioVars, driverVars, kernelVars
<1>3. Served'
  BY <1>2 DEF IInv, Served
<1>4. NobodyLeft'
  <2>1. CASE phase = "done"
    <3>1. UNCHANGED <<phase, result>> /\ (child' = child \/ child' = "exited")
      BY <2>1 DEF ExecNext, ModuleNext, InSegment, SegmentNext, Refuse, Spawn, LaunchFails,
                  LaunchBusy, Poll, WaitFails, Drain, Finish, ReadFails, Feed, ChildReads,
                  ChildWrites, ChildForks, HolderEnds, ChildExits, DeadlinePasses
    <3> QED BY <1>2, <3>1 DEF IInv, NobodyLeft
  <2>2. CASE phase # "done" /\ phase' = "done"
    <3>1. \/ child' = child /\ child # "running"
          \/ child' = "exited"
          \/ op = "module" /\ result' = "wait-failed"
      BY <2>2 DEF ExecNext, ModuleNext, InSegment, SegmentNext, Refuse, Spawn, LaunchFails,
                  LaunchBusy, Poll, WaitFails, Drain, Finish, ReadFails, Feed, ChildReads,
                  ChildWrites, ChildForks, HolderEnds, ChildExits, DeadlinePasses, IInv,
                  SegmentInv, Lives
    <3> QED BY <1>2, <3>1 DEF IInv, NobodyLeft
  <2>3. CASE phase' # "done"
    BY <1>2, <2>3 DEF IInv, NobodyLeft
  <2> QED BY <2>1, <2>2, <2>3
<1> QED BY <1>1, <1>3, <1>4 DEF IInv

\* The driver of a kernel reaps it on every way out but one.
LEMMA KernelLeavesNobody ==
  ASSUME IInv, KernelNext
  PROVE  IInv'
<1>1. op = "stdio" /\ UNCHANGED <<op, segmentVars>> /\ StdioNext
  BY DEF KernelNext, InKernel
<1>2. SegmentInv'
  BY <1>1 DEF IInv, SegmentInv, Pipes, Lives, Honest, segmentVars
<1>3. /\ step' = "launch" => step = "launch" /\ UNCHANGED kernel
      /\ step' = "done" => \/ step = "launch" /\ UNCHANGED kernel
                           \/ step = "done" /\ (UNCHANGED kernel \/ kernel' = "exited")
                           \/ kernel' = "exited"
  <2>1. CASE Launch \/ LaunchRefused
    BY <2>1 DEF Launch, LaunchRefused, kernelVars
  <2>2. CASE WriteUnit \/ WriteFails \/ Written
    BY <2>2 DEF WriteUnit, WriteFails, Written, Fail
  <2>3. CASE DrainBuffer
    BY <2>3 DEF DrainBuffer, Fail, Answered
  <2>4. CASE TryWait \/ CheckDeadline \/ Reap
    BY <2>4 DEF TryWait, CheckDeadline, Reap, Fail
  <2>5. CASE ReadOutput \/ KernelReads \/ TimePasses
    BY <2>5 DEF ReadOutput, KernelReads, TimePasses, driverVars, kernelVars
  <2>6. CASE KernelExits \/ \E m \in Messages : KernelPublishes(m)
    BY <2>6, <1>1 DEF KernelExits, KernelPublishes, driverVars, IInv, Served
  <2> QED BY <1>1, <2>1, <2>2, <2>3, <2>4, <2>5, <2>6 DEF StdioNext
<1>4. Served'
  BY <1>1, <1>3 DEF IInv, Served, segmentVars
<1>5. NobodyLeft'
  BY <1>1, <1>3 DEF IInv, Served, NobodyLeft
<1> QED BY <1>2, <1>4, <1>5 DEF IInv

\* A new request, and the host after an answer, find nothing begun.
LEMMA BetweenKeeps ==
  ASSUME IInv, (\E o \in Ops : Ask(o)) \/ Deny \/ ExecDone \/ ModuleDone \/ KernelDone
  PROVE  IInv'
<1>1. CASE \E o \in Ops : Ask(o)
  <2>1. op = "none" /\ UNCHANGED <<segmentVars, stdioVars>>
    BY <1>1 DEF Ask
  <2>2. phase = "start" /\ step = "launch"
    BY <2>1 DEF IInv, Served
  <2> QED BY <2>1, <2>2 DEF IInv, SegmentInv, Pipes, Lives, Honest, Served, NobodyLeft,
                            segmentVars, stdioVars, driverVars, kernelVars
<1>2. CASE \E end : Answer(end)
  <2>1. op' = "none" /\ SegmentReset /\ StdioReset
    BY <1>2 DEF Answer
  <2>2. SegmentInv'
    <3>1. Pipes'
      BY <2>1 DEF SegmentReset, Pipes
    <3>2. Lives'
      BY <2>1, Zenon DEF SegmentReset, Lives, Honest
    <3> QED BY <3>1, <3>2 DEF SegmentInv
  <2> QED BY <2>1, <2>2 DEF SegmentReset, StdioReset, IInv, Served, NobodyLeft
<1> QED BY <1>1, <1>2 DEF Deny, ExecDone, ModuleDone, KernelDone

\* The invariant holds in every state, for pipes and bounds of any size.
THEOREM RunsInductive == Spec => []IInv
<1>1. Init => IInv
  <2>1. Init => SegmentInv
    <3>1. Init => Pipes
      BY DEF Init, SegmentInit, Pipes
    <3>2. Init => Lives
      BY Zenon DEF Init, SegmentInit, Lives, Honest
    <3> QED BY <3>1, <3>2 DEF SegmentInv
  <2> QED BY <2>1 DEF Init, SegmentInit, StdioInit, IInv, Served, NobodyLeft
<1>2. IInv /\ [Next]_vars => IInv'
  <2> SUFFICES ASSUME IInv, [Next]_vars
               PROVE  IInv'
    OBVIOUS
  <2>1. CASE UNCHANGED vars
    BY <2>1 DEF vars, segmentVars, stdioVars, driverVars, kernelVars, IInv, SegmentInv,
                Pipes, Lives, Honest, Served, NobodyLeft
  <2> QED BY <2>1, SegmentLeavesNobody, KernelLeavesNobody, BetweenKeeps DEF Next
<1> QED BY <1>1, <1>2, PTL DEF Spec

\* The outcome is the child's: it ended, and all it and its descendants wrote was
\* read (run_segment).
THEOREM HonestAlways == Spec => []Honest
<1>1. IInv => Honest
  BY DEF IInv, SegmentInv, Lives
<1> QED BY <1>1, RunsInductive, PTL

\* No child is left running behind an answer, except by a backend that could not
\* wait for it (stdio_driver.rs: "no zombie is left behind").
THEOREM NobodyLeftAlways == Spec => []NobodyLeft
<1>1. IInv => NobodyLeft
  BY DEF IInv
<1> QED BY <1>1, RunsInductive, PTL

-----------------------------------------------------------------------------
(* Outputs of a kernel.                                                    *)

\* Two sequences of which one is a stretch of the other that has all of its
\* occurrences of x.
LEMMA SameCount ==
  ASSUME NEW M, NEW s \in Seq(M), NEW t \in Seq(M), NEW b \in Nat, NEW x,
         b + Len(s) <= Len(t), \A i \in 1 .. Len(s) : s[i] = t[b + i],
         \A j \in 1 .. Len(t) : t[j] = x => b < j /\ j <= b + Len(s)
  PROVE  Count(s, x) = Count(t, x)
<1> DEFINE S == {i \in 1 .. Len(s) : s[i] = x}
           T == {j \in 1 .. Len(t) : t[j] = x}
           f == [i \in S |-> b + i]
<1>0. Len(s) \in Nat /\ Len(t) \in Nat
  OBVIOUS
<1>1. IsFiniteSet(S)
  <2>1. IsFiniteSet(1 .. Len(s))
    <3>1. 1 \in Int /\ Len(s) \in Int
      BY <1>0
    <3> QED BY <3>1, FS_Interval
  <2> QED BY <2>1, FS_Subset
<1>2. f \in Bijection(S, T)
  <2>1. ASSUME NEW i \in S
        PROVE  b + i \in T
    <3>1. i \in 1 .. Len(s) /\ s[i] = x
      OBVIOUS
    <3>2. b + i \in 1 .. Len(t)
      BY <1>0, <3>1
    <3> QED BY <3>1, <3>2
  <2>2. \A i, k \in S : b + i = b + k => i = k
    OBVIOUS
  <2>3. ASSUME NEW j \in T
        PROVE  \E i \in S : b + i = j
    <3>1. j \in 1 .. Len(t) /\ t[j] = x
      OBVIOUS
    <3>2. j - b \in 1 .. Len(s) /\ b + (j - b) = j
      BY <1>0, <3>1
    <3>3. s[j - b] = x
      BY <3>1, <3>2
    <3> QED BY <3>2, <3>3
  <2> HIDE DEF S, T
  <2>4. f \in [S -> T]
    BY <2>1
  <2>5. f \in Injection(S, T)
    BY <2>2, <2>4 DEF Injection, IsInjective
  <2>6. f \in Surjection(S, T)
    BY <2>3, <2>4 DEF Surjection
  <2> QED BY <2>5, <2>6 DEF Bijection
<1>3. Cardinality(S) = Cardinality(T)
  <2> HIDE DEF S, T, f
  <2>1. ExistsBijection(S, T)
    BY <1>2 DEF ExistsBijection
  <2> QED BY <1>1, <2>1, FS_Bijection
<1>4. DOMAIN s = 1 .. Len(s) /\ DOMAIN t = 1 .. Len(t)
  OBVIOUS
<1> QED BY <1>3, <1>4 DEF Count

\* Nothing is counted that does not occur.
LEMMA CountNone ==
  ASSUME NEW M, NEW s \in Seq(M), NEW x, \A i \in 1 .. Len(s) : s[i] # x
  PROVE  Count(s, x) = 0
<1>1. DOMAIN s = 1 .. Len(s)
  OBVIOUS
<1>2. {i \in DOMAIN s : s[i] = x} = {}
  BY <1>1
<1> QED BY <1>2, FS_EmptySet DEF Count

\* What only the segment makes a kernel publish.
OfSegment == {"stream", "execute_reply"}

\* What the driver passed over for a request or has not looked at yet is the
\* last stretch of what the reader took; this many messages came before it.
Before == taken - Len(seen) - Len(stdout_buf)

Channels ==
  /\ published \in Seq(Messages) /\ taken \in 0 .. Len(published)
  /\ stdout_buf \in Seq(Messages) /\ seen \in Seq(Messages) /\ outputs \in Seq(Messages)
  /\ overrun \in BOOLEAN /\ left \in Nat /\ stdin_pipe \in Nat /\ read \in Nat

\* The kernel answers what it was asked, once, and is done with the segment then.
Ordered ==
  /\ \A i \in 1 .. Len(published) : published[i] \in OfSegment => HasExec
  /\ \A i, j \in 1 .. Len(published) :
       i < j /\ published[i] = "execute_reply" => published[j] \notin OfSegment

\* It has nothing of the segment before the driver has sent it.
Asked ==
  /\ request \in Requests
  /\ request = "kernel_info_request" => read + stdin_pipe + left = 1
  /\ step \in {"launch", "send"} => seen = <<>>
  /\ step \in {"drain", "wait", "deadline"} => request # "shutdown_request"

\* While the segment runs, all that is its own is still in hand.
InHand ==
  request = "execute_request" /\ ~ overrun =>
    /\ Before \in Nat
    /\ \A i \in 1 .. Len(seen) : seen[i] = published[Before + i] /\ seen[i] # "execute_reply"
    /\ \A i \in 1 .. Len(stdout_buf) : stdout_buf[i] = published[Before + Len(seen) + i]
    /\ \A i \in 1 .. Len(published) : i <= Before => published[i] \notin OfSegment

OInv == Channels /\ Ordered /\ Asked /\ InHand /\ OutputsWhole

\* A kernel that was not sent the segment has published nothing of it.
LEMMA NothingBefore ==
  ASSUME OInv, request = "kernel_info_request"
  PROVE  \A i \in 1 .. Len(published) : published[i] \notin OfSegment
<1>1. ~ HasExec
  BY StdioKernelAssumption DEF OInv, Channels, Asked, HasExec
<1> QED BY <1>1 DEF OInv, Ordered

\* The reply to the segment comes with everything in front of it.
LEMMA AnswerWhole ==
  ASSUME OInv, request = "execute_request", step = "drain", ~ overrun,
         Contains(stdout_buf, "execute_reply"), Answered(stdout_buf), stdout_buf' = <<>>,
         UNCHANGED <<taken, overrun, kernelVars>>
  PROVE  OInv'
<1> DEFINE B == stdout_buf
           at == CHOOSE i \in DOMAIN B :
                   B[i] = "execute_reply" /\ \A j \in 1 .. i - 1 : B[j] # "execute_reply"
<1>0. /\ B \in Seq(Messages) /\ seen \in Seq(Messages) /\ published \in Seq(Messages)
      /\ Len(B) \in Nat /\ Len(seen) \in Nat /\ Len(published) \in Nat /\ DOMAIN B = 1 .. Len(B)
      /\ taken \in Nat /\ taken <= Len(published)
  BY DEF OInv, Channels
<1>1. /\ at \in 1 .. Len(B) /\ B[at] = "execute_reply"
      /\ \A j \in 1 .. at - 1 : B[j] # "execute_reply"
  <2> DEFINE P(i) == B[i] = "execute_reply" /\ \A j \in 1 .. i - 1 : B[j] # "execute_reply"
             R == {i \in 1 .. Len(B) : B[i] = "execute_reply"}
  <2>1. R # {} /\ R \in SUBSET Nat
    BY <1>0 DEF Contains
  <2>2. PICK k \in R : \A j \in R : k <= j
    <3> HIDE DEF R
    <3> QED BY <2>1, LeastExists
  <2>3. k \in DOMAIN B /\ P(k)
    BY <1>0, <2>2
  <2>4. at \in DOMAIN B /\ P(at)
    <3>1. at = CHOOSE i \in DOMAIN B : P(i)
      OBVIOUS
    <3> HIDE DEF P, at
    <3> QED BY <2>3, <3>1
  <2> QED BY <1>0, <2>4
<1> DEFINE front == SubSeq(B, 1, at - 1)
           all == seen \o front
<1>2. /\ step' = "send" /\ seen' = <<>> /\ request' = "shutdown_request" /\ left' = 1
      /\ outcome' = "ok" /\ outputs' = all
  BY Zenon DEF Answered, ReplyTo
<1>3. /\ front \in Seq(Messages) /\ Len(front) = at - 1
      /\ \A i \in 1 .. at - 1 : front[i] = B[i]
  <2>1. \A i \in 1 .. at - 1 : B[i] \in Messages
    BY <1>0, <1>1
  <2>2. 1 \in Int /\ at - 1 \in Int /\ at - 1 - 1 + 1 = at - 1 /\ (1 <= at - 1 \/ at - 1 = 0)
    BY <1>0, <1>1
  <2> HIDE DEF at
  <2>3. /\ front \in Seq(Messages) /\ Len(front) = IF 1 <= at - 1 THEN at - 1 - 1 + 1 ELSE 0
        /\ \A i \in 1 .. at - 1 - 1 + 1 : front[i] = B[1 + i - 1]
    BY <2>1, <2>2, SubSeqProperties
  <2>4. \A i \in 1 .. at - 1 : 1 + i - 1 = i
    BY <2>2
  <2> QED BY <2>2, <2>3, <2>4
<1> HIDE DEF at, front
<1>4. /\ all \in Seq(Messages) /\ Len(all) = Len(seen) + at - 1
      /\ \A i \in 1 .. Len(seen) : all[i] = seen[i]
      /\ \A i \in 1 .. at - 1 : all[Len(seen) + i] = B[i]
  <2>1. /\ all \in Seq(Messages) /\ Len(all) = Len(seen) + Len(front)
        /\ \A i \in 1 .. Len(seen) + Len(front) :
             all[i] = IF i <= Len(seen) THEN seen[i] ELSE front[i - Len(seen)]
    <3>1. seen \in Seq(Messages) /\ front \in Seq(Messages)
      BY <1>0, <1>3
    <3> QED BY <3>1, ConcatProperties
  <2> HIDE DEF all
  <2>2. Len(all) = Len(seen) + at - 1
    BY <1>0, <1>1, <1>3, <2>1
  <2>3. ASSUME NEW i \in 1 .. Len(seen)
        PROVE  all[i] = seen[i]
    <3>1. i \in 1 .. Len(seen) + Len(front) /\ i <= Len(seen)
      BY <1>0, <1>1, <1>3
    <3> QED BY <2>1, <3>1
  <2>4. ASSUME NEW i \in 1 .. at - 1
        PROVE  all[Len(seen) + i] = B[i]
    <3>1. /\ Len(seen) + i \in 1 .. Len(seen) + Len(front) /\ ~ (Len(seen) + i <= Len(seen))
          /\ (Len(seen) + i) - Len(seen) = i
      BY <1>0, <1>1, <1>3
    <3> QED BY <1>3, <2>1, <3>1
  <2> QED BY <2>1, <2>2, <2>3, <2>4
<1> HIDE DEF all
<1>5. /\ Before \in Nat /\ Before + Len(seen) + Len(B) <= Len(published)
      /\ \A i \in 1 .. Len(seen) : seen[i] = published[Before + i] /\ seen[i] # "execute_reply"
      /\ \A i \in 1 .. Len(B) : B[i] = published[Before + Len(seen) + i]
      /\ \A i \in 1 .. Len(published) : i <= Before => published[i] \notin OfSegment
  <2>1. /\ Before \in Nat
        /\ \A i \in 1 .. Len(seen) : seen[i] = published[Before + i] /\ seen[i] # "execute_reply"
        /\ \A i \in 1 .. Len(B) : B[i] = published[Before + Len(seen) + i]
        /\ \A i \in 1 .. Len(published) : i <= Before => published[i] \notin OfSegment
    BY DEF OInv, InHand
  <2>2. Before + Len(seen) + Len(B) = taken
    BY <1>0 DEF Before
  <2> QED BY <1>0, <2>1, <2>2
<1> DEFINE last == Before + Len(seen) + at
<1>6. last \in 1 .. Len(published) /\ published[last] = "execute_reply"
  BY <1>0, <1>1, <1>5
<1>7. \A j \in 1 .. Len(published) : published[j] = "stream" => Before < j /\ j <= Before + Len(all)
  <2> SUFFICES ASSUME NEW j \in 1 .. Len(published), published[j] = "stream"
               PROVE  Before < j /\ j <= Before + Len(all)
    OBVIOUS
  <2>1. Before < j
    BY <1>0, <1>5 DEF OfSegment
  <2>2. ~ (last < j)
    <3> HIDE DEF last
    <3> QED BY <1>6 DEF OInv, Ordered, OfSegment
  <2>3. j # last
    <3> HIDE DEF last
    <3> QED BY <1>6
  <2>4. last \in Nat /\ last = Before + Len(all) + 1
    BY <1>0, <1>1, <1>4, <1>5
  <2>5. Before \in Nat /\ Len(all) \in Nat
    BY <1>4, <1>5
  <2> HIDE DEF last
  <2> QED BY <2>1, <2>2, <2>3, <2>4, <2>5
<1>8. \A i \in 1 .. Len(all) : all[i] = published[Before + i] /\ all[i] # "execute_reply"
  <2> SUFFICES ASSUME NEW i \in 1 .. Len(all)
               PROVE  all[i] = published[Before + i] /\ all[i] # "execute_reply"
    OBVIOUS
  <2>1. CASE i <= Len(seen)
    <3>1. i \in 1 .. Len(seen)
      BY <1>0, <2>1
    <3> QED BY <1>4, <1>5, <3>1
  <2>2. CASE ~ (i <= Len(seen))
    <3> DEFINE k == i - Len(seen)
    <3>1. k \in 1 .. at - 1 /\ k \in 1 .. Len(B) /\ Len(seen) + k = i
          /\ Before + Len(seen) + k = Before + i
      BY <1>0, <1>1, <1>4, <1>5, <2>2
    <3> HIDE DEF k
    <3>2. all[i] = B[k]
      BY <1>4, <3>1
    <3>3. B[k] = published[Before + i]
      BY <1>5, <3>1
    <3>4. B[k] # "execute_reply"
      BY <1>1, <3>1
    <3> QED BY <3>2, <3>3, <3>4
  <2> QED BY <2>1, <2>2
<1>9. Count(all, "stream") = Count(published, "stream")
  <2>1. Before + Len(all) <= Len(published)
    BY <1>0, <1>1, <1>4, <1>5
  <2>2. \A i \in 1 .. Len(all) : all[i] = published[Before + i]
    BY <1>8
  <2>3. all \in Seq(Messages) /\ published \in Seq(Messages) /\ Before \in Nat
    BY <1>0, <1>4, <1>5
  <2> HIDE DEF last
  <2> QED BY <1>7, <2>1, <2>2, <2>3, SameCount
<1>10. Count(all, "execute_reply") = 0
  BY <1>4, <1>8, CountNone
<1>11. Sent("execute_reply")
  <2> HIDE DEF last
  <2> QED BY <1>6 DEF Sent, Contains
<1>12. UNCHANGED <<published, stdin_pipe, read, taken, overrun>>
  BY DEF kernelVars
<1>13. OutputsWhole'
  BY <1>2, <1>9, <1>10, <1>11, <1>12 DEF OutputsWhole, Sent, Count
<1>14. Channels'
  BY <1>2, <1>4, <1>12 DEF OInv, Channels
<1>15. Ordered' /\ Asked' /\ InHand'
  BY <1>2, <1>12 DEF OInv, Ordered, Asked, InHand, HasExec, Requests
<1> QED BY <1>13, <1>14, <1>15 DEF OInv

\* One turn of collect_until at the buffer.
LEMMA DrainKeeps ==
  ASSUME OInv, DrainBuffer
  PROVE  OInv'
<1>0. /\ step = "drain" /\ request \in {"kernel_info_request", "execute_request"}
      /\ UNCHANGED <<taken, overrun, kernelVars>>
      /\ published \in Seq(Messages) /\ stdout_buf \in Seq(Messages) /\ seen \in Seq(Messages)
      /\ Len(stdout_buf) \in Nat /\ Len(seen) \in Nat /\ taken \in Nat /\ Len(published) \in Nat
      /\ overrun \in BOOLEAN
  BY DEF DrainBuffer, OInv, Asked, Requests, Channels
<1>1. CASE overrun \/ Contains(stdout_buf, "junk")
  <2>1. /\ outcome' \in Errors /\ step' = "reap"
        /\ UNCHANGED <<stdout_buf, request, left, seen, outputs>>
    BY <1>0, <1>1 DEF DrainBuffer, Fail, Errors
  <2>2. UNCHANGED <<published, stdin_pipe, read, taken, overrun>> /\ outcome' # "ok"
    BY <1>0, <2>1 DEF kernelVars, Errors
  <2> QED BY <2>1, <2>2 DEF OInv, Channels, Ordered, Asked, InHand, HasExec, Before, OutputsWhole
<1>2. CASE /\ ~ overrun /\ ~ Contains(stdout_buf, "junk")
           /\ Contains(stdout_buf, ReplyTo(request))
  <2>1. stdout_buf' = <<>> /\ Answered(stdout_buf)
    BY <1>2 DEF DrainBuffer
  <2>2. CASE request = "execute_request"
    <3>1. Contains(stdout_buf, "execute_reply")
      BY <1>2, <2>2 DEF ReplyTo
    <3> QED BY <1>0, <1>2, <2>1, <2>2, <3>1, AnswerWhole
  <2>3. CASE request = "kernel_info_request"
    <3>1. /\ step' = "send" /\ seen' = <<>> /\ request' = "execute_request"
          /\ left' = ExecUnits /\ UNCHANGED <<outcome, outputs>>
      BY <2>1, <2>3 DEF Answered
    <3>2. UNCHANGED <<published, stdin_pipe, read, taken, overrun>>
      BY <1>0 DEF kernelVars
    <3>3. Before' = taken
      BY <1>0, <2>1, <3>1, <3>2 DEF Before
    <3>4. InHand'
      BY <1>0, <2>1, <2>3, <3>1, <3>2, <3>3, NothingBefore DEF InHand
    <3>5. Channels' /\ Ordered' /\ Asked' /\ OutputsWhole'
      BY <2>1, <3>1, <3>2, StdioKernelAssumption
         DEF OInv, Channels, Ordered, Asked, HasExec, Requests, OutputsWhole, Sent
    <3> QED BY <3>4, <3>5 DEF OInv
  <2> QED BY <1>0, <2>2, <2>3
<1>3. CASE /\ ~ overrun /\ ~ Contains(stdout_buf, "junk")
           /\ ~ Contains(stdout_buf, ReplyTo(request))
  <2>1. /\ stdout_buf' = <<>> /\ seen' = seen \o stdout_buf /\ step' = "wait"
        /\ UNCHANGED <<request, left, outcome, outputs>>
    BY <1>3 DEF DrainBuffer
  <2>2. UNCHANGED <<published, stdin_pipe, read, taken, overrun>>
    BY <1>0 DEF kernelVars
  <2>3. /\ seen' \in Seq(Messages) /\ Len(seen') = Len(seen) + Len(stdout_buf)
        /\ \A i \in 1 .. Len(seen) + Len(stdout_buf) :
             seen'[i] = IF i <= Len(seen) THEN seen[i] ELSE stdout_buf[i - Len(seen)]
    BY <1>0, <2>1, ConcatProperties
  <2>4. Before' = Before
    BY <1>0, <2>1, <2>2, <2>3 DEF Before
  <2>5. InHand'
    <3> SUFFICES ASSUME request = "execute_request", ~ overrun
                 PROVE  /\ Before \in Nat
                        /\ \A i \in 1 .. Len(seen') :
                             seen'[i] = published[Before + i] /\ seen'[i] # "execute_reply"
                        /\ \A i \in 1 .. Len(published) :
                             i <= Before => published[i] \notin OfSegment
      BY <2>1, <2>2, <2>4 DEF InHand
    <3>1. /\ Before \in Nat
          /\ \A i \in 1 .. Len(seen) : seen[i] = published[Before + i] /\ seen[i] # "execute_reply"
          /\ \A i \in 1 .. Len(stdout_buf) : stdout_buf[i] = published[Before + Len(seen) + i]
          /\ \A i \in 1 .. Len(published) : i <= Before => published[i] \notin OfSegment
      BY DEF OInv, InHand
    <3>2. \A i \in 1 .. Len(stdout_buf) : stdout_buf[i] # "execute_reply"
      BY <1>3 DEF Contains, ReplyTo
    <3>3. ASSUME NEW i \in 1 .. Len(seen')
          PROVE  seen'[i] = published[Before + i] /\ seen'[i] # "execute_reply"
      <4>1. CASE i <= Len(seen)
        <5>1. i \in 1 .. Len(seen) /\ i \in 1 .. Len(seen) + Len(stdout_buf)
          BY <1>0, <4>1
        <5> QED BY <2>3, <3>1, <4>1, <5>1
      <4>2. CASE ~ (i <= Len(seen))
        <5> DEFINE k == i - Len(seen)
        <5>1. /\ k \in 1 .. Len(stdout_buf) /\ i \in 1 .. Len(seen) + Len(stdout_buf)
              /\ Before + Len(seen) + k = Before + i
          BY <1>0, <2>3, <3>1, <4>2
        <5>2. seen'[i] = stdout_buf[k]
          BY <2>3, <4>2, <5>1
        <5> HIDE DEF k
        <5>3. stdout_buf[k] = published[Before + i] /\ stdout_buf[k] # "execute_reply"
          BY <3>1, <3>2, <5>1
        <5> QED BY <5>2, <5>3
      <4> QED BY <4>1, <4>2
    <3> QED BY <3>1, <3>3
  <2>6. Channels' /\ Ordered' /\ Asked' /\ OutputsWhole'
    BY <2>1, <2>2, <2>3, <1>0 DEF OInv, Channels, Ordered, Asked, HasExec, OutputsWhole, Sent
  <2> QED BY <2>5, <2>6 DEF OInv
<1> QED BY <1>1, <1>2, <1>3

\* The reader appends what it takes.
LEMMA ReaderKeeps ==
  ASSUME OInv, ReadOutput
  PROVE  OInv'
<1>0. /\ taken \in Nat /\ taken < Len(published) /\ taken' = taken + 1 /\ ~ overrun
      /\ published \in Seq(Messages) /\ stdout_buf \in Seq(Messages) /\ seen \in Seq(Messages)
      /\ Len(stdout_buf) \in Nat /\ Len(seen) \in Nat /\ Len(published) \in Nat
      /\ UNCHANGED <<step, request, left, seen, outcome, outputs, stdin_pipe, read, published>>
  BY DEF OInv, Channels, ReadOutput, driverVars, kernelVars
<1>1. Ordered' /\ Asked' /\ OutputsWhole'
  BY <1>0 DEF OInv, Ordered, Asked, HasExec, OutputsWhole, Sent
<1>2. CASE overrun' = TRUE /\ stdout_buf' = stdout_buf
  <2>1. Channels' /\ InHand'
    BY <1>0, <1>2 DEF OInv, Channels, InHand
  <2> QED BY <1>1, <2>1 DEF OInv
<1>3. CASE stdout_buf' = Append(stdout_buf, published[taken + 1]) /\ overrun' = overrun
  <2>1. published[taken + 1] \in Messages /\ taken + 1 \in 1 .. Len(published)
    BY <1>0
  <2>2. /\ stdout_buf' \in Seq(Messages) /\ Len(stdout_buf') = Len(stdout_buf) + 1
        /\ \A i \in 1 .. Len(stdout_buf) : stdout_buf'[i] = stdout_buf[i]
        /\ stdout_buf'[Len(stdout_buf) + 1] = published[taken + 1]
    BY <1>0, <1>3, <2>1, AppendProperties
  <2>3. Before' = Before
    BY <1>0, <2>2 DEF Before
  <2>4. InHand'
    <3> SUFFICES ASSUME request = "execute_request",
                        NEW i \in 1 .. Len(stdout_buf')
                 PROVE  stdout_buf'[i] = published[Before + Len(seen) + i]
      BY <1>0, <2>3 DEF OInv, InHand
    <3>1. CASE i \in 1 .. Len(stdout_buf)
      BY <1>0, <2>2, <3>1 DEF OInv, InHand
    <3>2. CASE i = Len(stdout_buf) + 1
      <4>1. Before + Len(seen) + i = taken + 1
        BY <1>0, <3>2 DEF Before
      <4> QED BY <2>2, <3>2, <4>1
    <3> QED BY <1>0, <2>2, <3>1, <3>2
  <2>5. Channels'
    BY <1>0, <1>3, <2>2 DEF OInv, Channels
  <2> QED BY <1>1, <2>4, <2>5 DEF OInv
<1> QED BY <1>0, <1>2, <1>3 DEF ReadOutput

\* Behind its reply a kernel publishes nothing of the segment any more.
LEMMA KernelKeeps ==
  ASSUME OInv, NEW m \in Messages, KernelPublishes(m)
  PROVE  OInv'
<1>0. /\ taken \in 0 .. Len(published) /\ published' = Append(published, m)
      /\ published \in Seq(Messages) /\ stdout_buf \in Seq(Messages) /\ seen \in Seq(Messages)
      /\ Len(stdout_buf) \in Nat /\ Len(seen) \in Nat /\ Len(published) \in Nat
      /\ UNCHANGED <<step, request, left, seen, outcome, outputs, stdin_pipe, read, taken,
                     stdout_buf, overrun>>
  BY DEF OInv, Channels, KernelPublishes, driverVars, readerVars
<1> DEFINE n == Len(published)
<1>1. /\ published' \in Seq(Messages) /\ Len(published') = n + 1
      /\ \A i \in 1 .. n : published'[i] = published[i]
      /\ published'[n + 1] = m
  BY <1>0, AppendProperties
<1>2. /\ m \in OfSegment => HasExec
      /\ m \in OfSegment => \A i \in 1 .. n : published[i] # "execute_reply"
  BY <1>0 DEF KernelPublishes, MayPublish, OfSegment, Sent, Contains
<1>3. Channels'
  BY <1>0, <1>1 DEF OInv, Channels
<1>4. Ordered'
  <2>1. \A i \in 1 .. n + 1 : i \in 1 .. n \/ i = n + 1
    BY <1>0
  <2>2. \A i \in 1 .. n + 1 : published'[i] \in OfSegment => HasExec
    BY <1>1, <1>2, <2>1 DEF OInv, Ordered
  <2>3. ASSUME NEW i \in 1 .. n + 1, NEW j \in 1 .. n + 1, i < j,
               published'[i] = "execute_reply"
        PROVE  published'[j] \notin OfSegment
    <3>1. i \in 1 .. n
      BY <1>0, <2>3
    <3> QED BY <1>1, <1>2, <2>1, <2>3, <3>1 DEF OInv, Ordered
  <2> QED BY <1>0, <1>1, <2>2, <2>3 DEF Ordered, HasExec
<1>5. Asked'
  BY <1>0 DEF OInv, Asked
<1>6. InHand'
  <2> SUFFICES ASSUME request = "execute_request", ~ overrun
               PROVE  InHand'
    BY <1>0 DEF InHand
  <2>1. /\ Before \in Nat
        /\ \A i \in 1 .. Len(seen) : seen[i] = published[Before + i] /\ seen[i] # "execute_reply"
        /\ \A i \in 1 .. Len(stdout_buf) : stdout_buf[i] = published[Before + Len(seen) + i]
        /\ \A i \in 1 .. n : i <= Before => published[i] \notin OfSegment
    BY DEF OInv, InHand
  <2>2. Before' = Before /\ Before + Len(seen) + Len(stdout_buf) <= n
    BY <1>0, <2>1 DEF Before
  <2>3. \A i \in 1 .. Len(seen) : Before + i \in 1 .. n
    BY <1>0, <2>1, <2>2
  <2>4. \A i \in 1 .. Len(stdout_buf) : Before + Len(seen) + i \in 1 .. n
    BY <1>0, <2>1, <2>2
  <2>5. \A i \in 1 .. Len(published') : i <= Before => i \in 1 .. n
    BY <1>0, <1>1, <2>1, <2>2
  <2> QED BY <1>0, <1>1, <2>1, <2>2, <2>3, <2>4, <2>5 DEF InHand
<1>7. OutputsWhole'
  <2> SUFFICES ASSUME outcome = "ok"
               PROVE  OutputsWhole'
    BY <1>0 DEF OutputsWhole
  <2>1. Sent("execute_reply") /\ Count(outputs, "stream") = Count(published, "stream")
    BY DEF OInv, OutputsWhole
  <2>2. m # "stream"
    BY <1>2, <2>1 DEF OfSegment, Sent, Contains
  <2>3. {i \in DOMAIN published' : published'[i] = "stream"}
          = {i \in DOMAIN published : published[i] = "stream"}
    <3>1. DOMAIN published = 1 .. n /\ DOMAIN published' = 1 .. n + 1
      BY <1>0, <1>1
    <3> QED BY <1>0, <1>1, <2>2, <3>1
  <2>4. Count(published', "stream") = Count(published, "stream")
    BY <2>3 DEF Count
  <2>5. Sent("execute_reply")'
    BY <1>0, <1>1, <2>1 DEF Sent, Contains
  <2> QED BY <1>0, <2>1, <2>4, <2>5, outputs' = outputs DEF OInv, OutputsWhole
<1> QED BY <1>3, <1>4, <1>5, <1>6, <1>7 DEF OInv

\* The other steps leave the messages where they are.
LEMMA ElsewhereKeeps ==
  ASSUME OInv,
         \/ Launch \/ LaunchRefused \/ WriteUnit \/ WriteFails \/ Written \/ TryWait
         \/ CheckDeadline \/ Reap \/ KernelReads \/ KernelExits \/ TimePasses
  PROVE  OInv'
<1>1. UNCHANGED <<published, taken, stdout_buf, overrun, request, outputs>>
  BY DEF Launch, LaunchRefused, WriteUnit, WriteFails, Written, TryWait, CheckDeadline, Reap,
         KernelReads, KernelExits, TimePasses, Fail, driverVars, kernelVars, readerVars
<1>2. seen' = seen
  <2>1. CASE Written
    BY <2>1 DEF Written, OInv, Asked
  <2>2. CASE ~ Written
    BY <2>2 DEF Launch, LaunchRefused, WriteUnit, WriteFails, TryWait, CheckDeadline, Reap,
                KernelReads, KernelExits, TimePasses, Fail, driverVars
  <2> QED BY <2>1, <2>2
<1>3. outcome' = "ok" => outcome = "ok"
  BY DEF Launch, LaunchRefused, WriteUnit, WriteFails, Written, TryWait, CheckDeadline, Reap,
         KernelReads, KernelExits, TimePasses, Fail, driverVars
<1>4. /\ left \in Nat /\ stdin_pipe \in Nat /\ read \in Nat
      /\ left' \in Nat /\ stdin_pipe' \in Nat /\ read' \in Nat /\ read <= read'
      /\ read' + stdin_pipe' + left' = read + stdin_pipe + left
  <2>1. left \in Nat /\ stdin_pipe \in Nat /\ read \in Nat
    BY DEF OInv, Channels
  <2>2. CASE WriteUnit
    BY <2>1, <2>2 DEF WriteUnit
  <2>3. CASE KernelReads
    BY <2>1, <2>3 DEF KernelReads, driverVars
  <2>4. CASE ~ WriteUnit /\ ~ KernelReads
    BY <2>1, <2>4 DEF Launch, LaunchRefused, WriteFails, Written, TryWait, CheckDeadline, Reap,
                      KernelExits, TimePasses, Fail, driverVars, kernelVars
  <2> QED BY <2>1, <2>2, <2>3, <2>4
<1>5. /\ step' \in {"launch", "send"} => step \in {"launch", "send"}
      /\ step' \in {"drain", "wait", "deadline"} => request # "shutdown_request"
  BY DEF OInv, Asked, Launch, LaunchRefused, WriteUnit, WriteFails, Written, TryWait,
         CheckDeadline, Reap, KernelReads, KernelExits, TimePasses, Fail, driverVars
<1>6. HasExec => HasExec'
  BY <1>4, StdioKernelAssumption DEF HasExec
<1>7. Channels' /\ Asked'
  BY <1>1, <1>2, <1>4, <1>5 DEF OInv, Channels, Asked
<1>8. Ordered' /\ InHand' /\ OutputsWhole'
  BY <1>1, <1>2, <1>3, <1>6 DEF OInv, Ordered, InHand, Before, OutputsWhole, Sent
<1> QED BY <1>7, <1>8 DEF OInv

\* A kernel that has not begun.
LEMMA FreshKernel ==
  /\ Init => OInv
  /\ StdioReset => OInv'
<1>0. <<>> \in Seq(Messages) /\ Len(<<>>) = 0 /\ 0 \in 0 .. Len(<<>>) /\ 0 \in Nat /\ 1 \in Nat
  OBVIOUS
<1>1. Init => OInv
  <2> SUFFICES ASSUME Init
               PROVE  OInv
    OBVIOUS
  <2>1. /\ step = "launch" /\ request = "kernel_info_request" /\ left = 1
        /\ stdin_pipe = 0 /\ read = 0 /\ published = <<>> /\ taken = 0 /\ stdout_buf = <<>>
        /\ overrun = FALSE /\ seen = <<>> /\ outcome = "none" /\ outputs = <<>>
    BY DEF Init, StdioInit
  <2>2. Channels
    BY <1>0, <2>1, Zenon DEF Channels
  <2>3. Ordered /\ Asked /\ InHand /\ OutputsWhole
    BY <1>0, <2>1 DEF Ordered, Asked, InHand, OutputsWhole, Requests
  <2> QED BY <2>2, <2>3 DEF OInv
<1>2. StdioReset => OInv'
  <2> SUFFICES ASSUME StdioReset
               PROVE  OInv'
    OBVIOUS
  <2>1. /\ step' = "launch" /\ request' = "kernel_info_request" /\ left' = 1
        /\ stdin_pipe' = 0 /\ read' = 0 /\ published' = <<>> /\ taken' = 0 /\ stdout_buf' = <<>>
        /\ overrun' = FALSE /\ seen' = <<>> /\ outcome' = "none" /\ outputs' = <<>>
    BY DEF StdioReset
  <2>2. Channels'
    BY <1>0, <2>1, Zenon DEF Channels
  <2>3. Ordered' /\ Asked' /\ InHand' /\ OutputsWhole'
    BY <1>0, <2>1 DEF Ordered, Asked, InHand, OutputsWhole, Requests
  <2> QED BY <2>2, <2>3 DEF OInv
<1> QED BY <1>1, <1>2

\* A segment that is answered is answered with all that its kernel published for
\* it, in whatever batches that arrived and for any cap, pipe and segment.
THEOREM OutputsAreWhole == Spec => []OutputsWhole
<1>1. Init => OInv
  BY FreshKernel
<1>2. OInv /\ [Next]_vars => OInv'
  <2> SUFFICES ASSUME OInv, [Next]_vars
               PROVE  OInv'
    OBVIOUS
  <2>1. CASE UNCHANGED stdioVars
    BY <2>1 DEF stdioVars, driverVars, kernelVars, readerVars, OInv, Channels, Ordered, Asked,
                InHand, Before, HasExec, OutputsWhole, Sent
  <2>2. CASE KernelNext
    <3>1. StdioNext
      BY <2>2 DEF KernelNext, InKernel
    <3> QED BY <3>1, DrainKeeps, ReaderKeeps, KernelKeeps, ElsewhereKeeps DEF StdioNext
  <2>3. CASE StdioReset
    BY <2>3, FreshKernel
  <2>4. UNCHANGED stdioVars \/ KernelNext \/ StdioReset
    <3>1. CASE UNCHANGED vars
      BY <3>1 DEF vars
    <3>2. CASE (\E o \in Ops : Ask(o)) \/ ExecNext \/ ModuleNext
      BY <3>2 DEF Ask, ExecNext, ModuleNext, InSegment
    <3>3. CASE Deny \/ ExecDone \/ ModuleDone \/ KernelDone
      BY <3>3 DEF Deny, ExecDone, ModuleDone, KernelDone, Answer
    <3> QED BY <3>1, <3>2, <3>3 DEF Next
  <2> QED BY <2>1, <2>2, <2>3, <2>4
<1>3. OInv => OutputsWhole
  BY DEF OInv
<1> QED BY <1>1, <1>2, <1>3, PTL DEF Spec

-----------------------------------------------------------------------------
(* EventRunner: a runner that is alone on its checkpoint resumes without   *)
(* skipping an event, through failed calls, crashes and power losses, and  *)
(* a checkpoint is never torn.                                             *)
(*                                                                         *)
(* The cursor is kept as its digits, so that the proofs need that reading  *)
(* gives back what was written (ReadsBack), for every number and base.     *)

\* What a checkpoint file may hold.
Cells == Seq(0 .. Base - 1)

\* Division by the base leaves a smaller number, and the remainder is a digit.
LEMMA Divided ==
  ASSUME NEW n \in Nat
  PROVE  /\ n \div Base \in Nat /\ n % Base \in 0 .. Base - 1
         /\ n = (n \div Base) * Base + (n % Base)
         /\ n >= Base => n \div Base < n
<1>0. Base \in Nat /\ Base > 1
  BY RunnerAssumption
<1>1. n \div Base \in Nat /\ n % Base \in 0 .. Base - 1
  BY <1>0
<1>2. n % Base = n - Base * (n \div Base)
  BY <1>0, SMTT(60)
<1>4. n = (n \div Base) * Base + (n % Base)
  <2> DEFINE q == n \div Base
             r == n % Base
  <2>1. q \in Nat /\ r \in Nat /\ r = n - Base * q
    BY <1>1, <1>2
  <2> HIDE DEF q, r
  <2>2. Base * q = q * Base /\ q * Base \in Nat
    BY <1>0, <2>1
  <2>3. n = q * Base + r
    BY <2>1, <2>2
  <2> QED BY <2>3 DEF q, r
<1>5. n >= Base => n \div Base < n
  BY <1>0
<1> QED BY <1>1, <1>4, <1>5

\* A file of one digit.
LEMMA OneDigit ==
  ASSUME NEW n \in Nat, n < Base
  PROVE  <<n>> \in Cells
<1>1. n \in 0 .. Base - 1
  BY RunnerAssumption
<1> QED BY <1>1 DEF Cells

\* A digit behind others.
LEMMA Longer ==
  ASSUME NEW s \in Cells, NEW c \in 0 .. Base - 1
  PROVE  /\ Append(s, c) \in Cells /\ Len(Append(s, c)) = Len(s) + 1
         /\ \A k \in 1 .. Len(s) : Append(s, c)[k] = s[k]
         /\ Append(s, c)[Len(s) + 1] = c
<1> DEFINE D == 0 .. Base - 1
<1>1. s \in Seq(D) /\ c \in D
  BY DEF Cells
<1> HIDE DEF D
<1>2. /\ Append(s, c) \in Seq(D) /\ Len(Append(s, c)) = Len(s) + 1
      /\ \A k \in 1 .. Len(s) : Append(s, c)[k] = s[k]
      /\ Append(s, c)[Len(s) + 1] = c
  BY <1>1
<1> QED BY <1>2 DEF D, Cells

\* to_string writes the digits of what is above the last one, and then that one.
LEMMA DigitsDef ==
  /\ Digits \in [Nat -> Cells]
  /\ \A n \in Nat : Digits[n] = IF n < Base THEN <<n>> ELSE Append(Digits[n \div Base], n % Base)
<1> DEFINE body(f) == [n \in Nat |-> IF n < Base THEN <<n>> ELSE Append(f[n \div Base], n % Base)]
           first == [n \in Nat |-> IF n < Base THEN <<n>> ELSE <<>>]
           above == [n \in Nat |-> n \div Base]
           turn == [p \in Nat \X Cells |-> Append(p[2], p[1] % Base)]
           small == {n \in Nat : n < Base}
<1>0. Base \in Nat /\ Base > 1
  BY RunnerAssumption
<1>1. first \in [Nat -> Cells] /\ turn \in [Nat \X Cells -> Cells]
  <2>1. ASSUME NEW n \in Nat PROVE first[n] \in Cells
    BY <1>0, OneDigit, <<>> \in Cells DEF Cells
  <2>2. ASSUME NEW p \in Nat \X Cells PROVE Append(p[2], p[1] % Base) \in Cells
    <3>1. p[1] \in Nat /\ p[2] \in Cells
      OBVIOUS
    <3>2. p[1] % Base \in 0 .. Base - 1
      BY <3>1, Divided
    <3> QED BY <3>1, <3>2, Longer
  <2> QED BY <2>1, <2>2
<1>2. \A n \in Nat \ small : above[n] \in Nat /\ above[n] < n
  BY <1>0, Divided
<1>3. /\ \A n \in Nat : above[n] = n \div Base
      /\ \A n \in small : first[n] = <<n>>
      /\ \A n \in Nat, s \in Cells : turn[<<n, s>>] = Append(s, n % Base)
  OBVIOUS
<1>4. \A n \in Nat : n \in small <=> n < Base
  OBVIOUS
<1> HIDE DEF first, above, turn, small
<1>5. PICK f \in [Nat -> Cells] : SolvesAll(f, small, first, above, turn)
  BY <1>1, <1>2, Solved
<1>6. ASSUME NEW n \in Nat
      PROVE  f[n] = IF n < Base THEN <<n>> ELSE Append(f[n \div Base], n % Base)
  <2>1. f[n] = IF n \in small THEN first[n] ELSE turn[<<n, f[above[n]]>>]
    BY <1>5 DEF SolvesAll
  <2>2. CASE n \in small
    <3>1. f[n] = first[n] /\ first[n] = <<n>> /\ n < Base
      BY <1>3, <1>4, <2>1, <2>2
    <3> QED BY <3>1
  <2>3. CASE n \notin small
    <3>1. f[n \div Base] \in Cells
      BY <1>5, Divided
    <3>2. f[n] = turn[<<n, f[n \div Base]>>]
      BY <1>3, <2>1, <2>3
    <3> QED BY <1>3, <1>4, <2>3, <3>1, <3>2
  <2> QED BY <2>2, <2>3
<1>7. f = body(f)
  BY <1>5, <1>6
<1>8. Digits = CHOOSE g : g = body(g)
  BY DEF Digits
<1>9. Digits = body(Digits)
  BY <1>7, <1>8
<1>10. \A n \in Nat : Digits[n] = IF n < Base THEN <<n>> ELSE Append(Digits[n \div Base], n % Base)
  BY <1>9
<1>11. \A n \in Nat : Digits[n] \in Cells
  <2> DEFINE T == {n \in Nat : Digits[n] \notin Cells}
  <2> SUFFICES ASSUME T # {}
               PROVE  FALSE
    OBVIOUS
  <2>1. PICK n \in T : \A j \in T : n <= j
    <3>1. T \in SUBSET Nat
      OBVIOUS
    <3> HIDE DEF T
    <3> QED BY <3>1, LeastExists
  <2>2. n \in Nat /\ Digits[n] \notin Cells
    OBVIOUS
  <2>3. CASE n < Base
    BY <1>0, <1>10, <2>2, <2>3, OneDigit
  <2>4. CASE n >= Base
    <3>1. n \div Base \in Nat /\ n \div Base < n /\ n % Base \in 0 .. Base - 1
      BY <2>2, <2>4, Divided
    <3>2. Digits[n \div Base] \in Cells
      <4>1. n \div Base \notin T
        BY <2>1, <2>2, <3>1
      <4> QED BY <3>1, <4>1
    <3>3. Digits[n] = Append(Digits[n \div Base], n % Base)
      <4>1. ~ (n < Base)
        BY <1>0, <2>2, <2>4
      <4> HIDE DEF T
      <4> QED BY <1>10, <2>2, <4>1
    <3>4. Append(Digits[n \div Base], n % Base) \in Cells
      BY <3>1, <3>2, Longer
    <3> QED BY <2>2, <3>3, <3>4
  <2> QED BY <1>0, <2>2, <2>3, <2>4
<1>12. Digits \in [Nat -> Cells]
  BY <1>9, <1>11
<1> QED BY <1>10, <1>12

\* parse reads from the left: a function that starts at 0 and takes one digit at
\* a time is what Parsed computes.
LEMMA ParsedIs ==
  ASSUME NEW s \in Cells, NEW f \in [0 .. Len(s) -> Nat],
         f[0] = 0, \A k \in 1 .. Len(s) : f[k] = f[k - 1] * Base + s[k]
  PROVE  Parsed(s) = f[Len(s)]
<1> DEFINE body(h) == [i \in 0 .. Len(s) |-> IF i = 0 THEN 0 ELSE h[i - 1] * Base + s[i]]
           g == CHOOSE h : h = body(h)
<1>0. Len(s) \in Nat
  BY DEF Cells
<1>1. Parsed(s) = g[Len(s)]
  BY DEF Parsed
<1>2. f = body(f)
  <2>1. ASSUME NEW i \in 0 .. Len(s)
        PROVE  f[i] = IF i = 0 THEN 0 ELSE f[i - 1] * Base + s[i]
    <3>1. CASE i = 0
      BY <3>1
    <3>2. CASE i # 0
      <4>1. i \in 1 .. Len(s)
        BY <1>0, <3>2
      <4> QED BY <3>2, <4>1
    <3> QED BY <3>1, <3>2
  <2> QED BY <2>1
<1>3. g = body(g)
  BY <1>2
<1> HIDE DEF g
<1>4. \A i \in 0 .. Len(s) : g[i] = IF i = 0 THEN 0 ELSE g[i - 1] * Base + s[i]
  BY <1>3
<1>5. \A i \in Nat : i <= Len(s) => g[i] = f[i]
  <2> DEFINE T == {i \in Nat : i <= Len(s) /\ g[i] # f[i]}
  <2> SUFFICES ASSUME T # {}
               PROVE  FALSE
    OBVIOUS
  <2>1. PICK i \in T : \A j \in T : i <= j
    <3>1. T \in SUBSET Nat
      OBVIOUS
    <3> HIDE DEF T
    <3> QED BY <3>1, LeastExists
  <2>2. i \in Nat /\ i \in 0 .. Len(s) /\ g[i] # f[i]
    BY <1>0
  <2>3. CASE i = 0
    BY <1>4, <2>2, <2>3
  <2>4. CASE i # 0
    <3>1. i \in 1 .. Len(s) /\ i - 1 \in Nat /\ i - 1 < i /\ i - 1 <= Len(s)
      BY <1>0, <2>2, <2>4
    <3>2. i - 1 \notin T
      BY <2>1, <2>2, <3>1
    <3>3. g[i - 1] = f[i - 1]
      BY <3>1, <3>2
    <3>4. g[i] = g[i - 1] * Base + s[i]
      BY <1>4, <2>2, <2>4
    <3> QED BY <2>2, <3>1, <3>3, <3>4
  <2> QED BY <2>3, <2>4
<1> QED BY <1>0, <1>1, <1>5

\* One digit is its own value.
LEMMA ParsedOne ==
  ASSUME NEW n \in Nat, n < Base
  PROVE  Parsed(<<n>>) = n
<1> DEFINE f == [k \in 0 .. 1 |-> IF k = 0 THEN 0 ELSE n]
<1>1. <<n>> \in Cells /\ Len(<<n>>) = 1 /\ Base \in Nat
  BY OneDigit, RunnerAssumption
<1>2. f \in [0 .. Len(<<n>>) -> Nat] /\ f[0] = 0 /\ f[1] = n
  BY <1>1
<1>3. \A k \in 1 .. Len(<<n>>) : f[k] = f[k - 1] * Base + <<n>>[k]
  <2>1. 0 * Base + n = n
    BY <1>1
  <2> QED BY <1>1, <1>2, <2>1
<1> HIDE DEF f
<1> QED BY <1>1, <1>2, <1>3, ParsedIs

\* A digit behind others moves them up one place.
LEMMA ParsedMore ==
  ASSUME NEW s \in Cells, NEW c \in 0 .. Base - 1
  PROVE  Parsed(s) \in Nat /\ Parsed(Append(s, c)) = Parsed(s) * Base + c
<1> DEFINE n == Len(s)
           turn == [p \in (1 .. n) \X Nat |-> p[2] * Base + s[p[1]]]
           t == Append(s, c)
<1>0. n \in Nat /\ Base \in Nat /\ c \in Nat
  BY RunnerAssumption DEF Cells
<1>1. \A k \in 1 .. n : s[k] \in Nat
  BY <1>0 DEF Cells
<1>2. turn \in [(1 .. n) \X Nat -> Nat]
  <2>1. ASSUME NEW p \in (1 .. n) \X Nat
        PROVE  p[2] * Base + s[p[1]] \in Nat
    <3>1. p[2] \in Nat /\ s[p[1]] \in Nat
      BY <1>1
    <3>2. p[2] * Base \in Nat
      BY <1>0, <3>1
    <3> QED BY <3>1, <3>2
  <2> QED BY <2>1
<1>3. \A k \in 1 .. n, v \in Nat : turn[<<k, v>>] = v * Base + s[k]
  OBVIOUS
<1> HIDE DEF n, turn
<1>4. PICK f \in [0 .. n -> Nat] : Iterates(f, n, 0, turn)
  <2>1. 0 \in Nat
    OBVIOUS
  <2> QED BY <1>0, <1>2, <2>1, Iterated
<1>5. \A k \in 1 .. n : f[k - 1] \in Nat /\ f[k] = f[k - 1] * Base + s[k]
  <2>1. \A k \in 1 .. n : k - 1 \in 0 .. n
    BY <1>0
  <2> QED BY <1>3, <1>4, <2>1 DEF Iterates
<1>6. Parsed(s) = f[n]
  BY <1>4, <1>5, ParsedIs DEF n, Iterates
<1>7. f[n] \in Nat /\ f[n] * Base + c \in Nat
  <2>1. f[n] \in Nat
    BY <1>0
  <2>2. f[n] * Base \in Nat
    BY <1>0, <2>1
  <2> QED BY <1>0, <2>1, <2>2
<1> DEFINE last == f[n] * Base + c
           g == [k \in 0 .. n + 1 |-> IF k = n + 1 THEN last ELSE f[k]]
<1>8. /\ t \in Cells /\ Len(t) = n + 1 /\ t[n + 1] = c
      /\ \A k \in 1 .. n : t[k] = s[k]
  BY Longer DEF n
<1> HIDE DEF t, last
<1>9. g \in [0 .. Len(t) -> Nat] /\ g[0] = 0 /\ g[n + 1] = last
  BY <1>0, <1>4, <1>7, <1>8 DEF last, Iterates
<1>10. ASSUME NEW k \in 1 .. Len(t)
       PROVE  g[k] = g[k - 1] * Base + t[k]
  <2>1. CASE k = n + 1
    <3>1. g[k - 1] = f[n]
      BY <1>0, <2>1
    <3> HIDE DEF g
    <3> QED BY <1>0, <1>8, <1>9, <2>1, <3>1 DEF last
  <2>2. CASE k # n + 1
    <3>1. k \in 1 .. n /\ g[k] = f[k] /\ g[k - 1] = f[k - 1]
      BY <1>0, <1>8, <2>2
    <3> HIDE DEF g
    <3> QED BY <1>5, <1>8, <3>1
  <2> QED BY <2>1, <2>2
<1> HIDE DEF g
<1>11. Parsed(t) = g[n + 1]
  BY <1>8, <1>9, <1>10, ParsedIs
<1> QED BY <1>6, <1>7, <1>9, <1>11 DEF last, t

\* What store writes is what load reads, and it is never empty.
LEMMA ReadsBack ==
  ASSUME NEW n \in Nat
  PROVE  Digits[n] \in Cells /\ Digits[n] # <<>> /\ Parsed(Digits[n]) = n
<1> DEFINE T == {k \in Nat : Digits[k] = <<>> \/ Parsed(Digits[k]) # k}
<1>1. ASSUME T # {}
      PROVE  FALSE
  <2>1. PICK k \in T : \A j \in T : k <= j
    <3>1. T \in SUBSET Nat
      OBVIOUS
    <3> HIDE DEF T
    <3> QED BY <1>1, <3>1, LeastExists
  <2>2. k \in Nat /\ (Digits[k] = <<>> \/ Parsed(Digits[k]) # k)
    OBVIOUS
  <2>3. CASE k < Base
    <3>1. Digits[k] = <<k>>
      BY <2>2, <2>3, DigitsDef
    <3> QED BY <2>2, <2>3, <3>1, ParsedOne
  <2>4. CASE ~ (k < Base)
    <3>0. Base \in Nat
      BY RunnerAssumption
    <3> DEFINE q == k \div Base
               r == k % Base
    <3>1. q \in Nat /\ r \in 0 .. Base - 1 /\ k = q * Base + r /\ q < k
      <4>1. /\ k \div Base \in Nat /\ k % Base \in 0 .. Base - 1
            /\ k = (k \div Base) * Base + (k % Base)
            /\ k >= Base => k \div Base < k
        BY <2>2, Divided
      <4>2. k >= Base
        BY <2>2, <2>4, <3>0
      <4> QED BY <4>1, <4>2
    <3>2. Digits[k] = Append(Digits[q], r)
      BY <2>2, <2>4, DigitsDef
    <3> HIDE DEF q, r
    <3>3. q \notin T
      BY <2>1, <2>2, <3>1
    <3>4. Digits[q] \in Cells /\ Parsed(Digits[q]) = q
      BY <3>1, <3>3, DigitsDef
    <3> HIDE DEF T
    <3>5. Parsed(Digits[k]) = k
      BY <3>1, <3>2, <3>4, ParsedMore
    <3>6. Len(Append(Digits[q], r)) = Len(Digits[q]) + 1 /\ Len(Digits[q]) \in Nat
      BY <3>1, <3>4, Longer DEF Cells
    <3>7. Digits[k] # <<>>
      BY <3>2, <3>6
    <3> QED BY <2>2, <3>5, <3>7
  <2> QED BY <2>3, <2>4
<1> QED BY <1>1, DigitsDef

-----------------------------------------------------------------------------
(* One runner on its checkpoint.  Two of them share the temporary file's   *)
(* name, and what follows does not hold of them.                           *)

OneWriter == \A v, w \in Writers : v = w

Storing == {"check", "create", "write", "sync", "rename"}

\* What a directory may name is synced, and holds a cursor up to which every
\* event was accepted.
Wrote(i, bytes, done, accepted) ==
  i # None => done[i] /\ \E k \in Nat : bytes[i] = Digits[k] /\ 1 .. k \subseteq accepted

Files ==
  /\ Wrote(path, content, synced, handled) /\ Wrote(durable, content, synced, handled)
  /\ tmp # None => tmp \notin {path, durable}

\* A run is where the checkpoint is, hands its batch out in order, and fills a
\* file that no directory names yet.
Runs(w) ==
  /\ pc[w] \notin {"off", "load"} => cursor[w] = Published
  /\ pc[w] = "handle" => /\ cursor[w] < next[w] /\ next[w] <= upto[w] /\ upto[w] <= latest
                         /\ 1 .. (next[w] - 1) \subseteq handled
  /\ pc[w] \in Storing => 1 .. upto[w] \subseteq handled
  /\ IF pc[w] \in {"write", "sync", "rename"} THEN fd[w] = tmp /\ tmp # None ELSE fd[w] = None
  /\ pc[w] = "write" => content[tmp] = <<>>
  /\ pc[w] \in {"sync", "rename"} => content[tmp] = Digits[upto[w]]
  /\ pc[w] = "rename" => synced[tmp]

RunnerInv == RunnerTypeOK /\ Files /\ \A w \in Writers : Runs(w)

\* What a directory names can be read, and claims only accepted events.
LEMMA WroteReads ==
  ASSUME NEW i \in Inodes \cup {None}, Wrote(i, content, synced, handled)
  PROVE  Readable(i) /\ Stored(i) \in Nat /\ 1 .. Stored(i) \subseteq handled
<1>1. CASE i = None
  BY <1>1 DEF Readable, Stored
<1>2. CASE i # None
  <2>1. PICK k \in Nat : content[i] = Digits[k] /\ 1 .. k \subseteq handled
    BY <1>2 DEF Wrote
  <2>2. Parsed(Digits[k]) = k /\ Digits[k] # <<>>
    BY ReadsBack
  <2> QED BY <1>2, <2>1, <2>2 DEF Readable, Stored
<1> QED BY <1>1, <1>2

\* The checkpoint in particular.
LEMMA PublishedAccepted ==
  ASSUME RunnerInv
  PROVE  Readable(path) /\ Published \in Nat /\ 1 .. Published \subseteq handled
<1>1. path \in Inodes \cup {None} /\ Wrote(path, content, synced, handled)
  BY DEF RunnerInv, RunnerTypeOK, Files
<1> QED BY <1>1, WroteReads DEF Published

\* What is written over nothing is what was written.
LEMMA EmptyOverlay ==
  ASSUME NEW n \in Nat
  PROVE  Overlay(Digits[n], <<>>) = Digits[n]
<1> DEFINE s == Digits[n]
           D == 0 .. Base - 1
<1>1. s \in Seq(D) /\ Len(s) + 1 \in Nat /\ Len(<<>>) = 0 /\ 0 < Len(s) + 1
  BY ReadsBack DEF Cells
<1> HIDE DEF s, D
<1>2. SubSeq(<<>>, Len(s) + 1, 0) = <<>>
  BY <1>1
<1>3. s \o <<>> = s
  BY <1>1
<1> QED BY <1>1, <1>2, <1>3 DEF Overlay, s

\* No inode stands for no file.
LEMMA NoInode == None \notin Inodes
BY RunnerAssumption DEF Inodes

\* There is room for a new temporary file.
LEMMA FreshInode ==
  ASSUME RunnerTypeOK, OneWriter, NEW w \in Writers, tmp = None, fd[w] = None
  PROVE  \E j \in Inodes : j \notin InUse
<1>1. Cardinality(Writers) \in Nat
  BY RunnerAssumption, FS_CardinalityType
<1>2. {1, 2, 3} \subseteq Inodes
  BY <1>1 DEF Inodes
<1>3. InUse = {path, durable, None}
  BY DEF InUse, OneWriter
<1>4. \A j \in {1, 2, 3} : j # None
  BY RunnerAssumption
<1>5. \E j \in {1, 2, 3} : j \notin {path, durable}
  OBVIOUS
<1> QED BY <1>2, <1>3, <1>4, <1>5

\* The invariant holds at first.
LEMMA Starting ==
  ASSUME OneWriter, RunnerInit
  PROVE  RunnerInv
<1>1. RunnerTypeOK
  <2>1. <<>> \in Seq(0 .. Base - 1)
    OBVIOUS
  <2> QED BY <2>1, RunnerAssumption DEF RunnerInit, RunnerTypeOK, Steps
<1>2. Files
  BY DEF RunnerInit, Files, Wrote
<1>3. \A w \in Writers : Runs(w)
  BY DEF RunnerInit, Runs, Storing
<1> QED BY <1>1, <1>2, <1>3 DEF RunnerInv

\* The types are kept by every step.
LEMMA TypeKept ==
  ASSUME OneWriter, RunnerInv, RunnerNext
  PROVE  RunnerTypeOK'
<1> USE DEF RunnerTypeOK, Steps, GoTo, logVars, takenVars, fileVars
<1>0. /\ RunnerTypeOK /\ Base \in Nat /\ MaxBatch \in Nat /\ MaxCursor \in Nat
      /\ MaxStarts \in Nat /\ MaxOutages \in Nat
  BY RunnerAssumption DEF RunnerInv
<1>1. ASSUME NEW w \in Writers, Start(w)
      PROVE  RunnerTypeOK'
  BY <1>0, <1>1 DEF Start
<1>2. ASSUME NEW w \in Writers, Load(w)
      PROVE  RunnerTypeOK'
  <2>1. cursor' \in [Writers -> Nat] /\ pc' \in [Writers -> Steps]
    BY <1>0, <1>2, PublishedAccepted DEF Load
  <2>2. UNCHANGED <<logVars, handled, upto, next, fileVars, starts, outages>>
    BY <1>2 DEF Load
  <2> QED BY <1>0, <2>1, <2>2
<1>3. ASSUME NEW w \in Writers, NEW n \in 1 .. MaxBatch, PollBatch(w, n)
      PROVE  RunnerTypeOK'
  <2>1. upto' \in [Writers -> Nat]
    BY <1>0, <1>3 DEF PollBatch
  <2>2. next' \in [Writers -> Nat]
    BY <1>0, <1>3 DEF PollBatch
  <2>3. pc' \in [Writers -> Steps]
    BY <1>0, <1>3 DEF PollBatch
  <2>4. UNCHANGED <<logVars, handled, cursor, fileVars, starts, outages>>
    BY <1>3 DEF PollBatch
  <2> QED BY <1>0, <2>1, <2>2, <2>3, <2>4
<1>4. ASSUME NEW w \in Writers, PollEnds(w) \/ Reject(w)
      PROVE  RunnerTypeOK'
  BY <1>0, <1>4 DEF PollEnds, Reject
<1>5. ASSUME NEW w \in Writers, Handle(w)
      PROVE  RunnerTypeOK'
  <2>1. /\ cursor[w] \in Nat /\ next[w] \in Nat /\ upto[w] \in Nat /\ latest \in Nat
        /\ cursor[w] < next[w] /\ next[w] <= upto[w] /\ upto[w] <= latest
    BY <1>0, <1>5 DEF RunnerInv, Runs, Handle
  <2>2. next[w] \in 1 .. latest
    BY <2>1
  <2>3. handled' \subseteq 1 .. latest'
    BY <1>0, <1>5, <2>2 DEF Handle
  <2>4. next' \in [Writers -> Nat]
    BY <1>0, <1>5 DEF Handle
  <2>5. pc' \in [Writers -> Steps]
    BY <1>0, <1>5 DEF Handle
  <2>6. UNCHANGED <<logVars, cursor, upto, fileVars, starts, outages>>
    BY <1>5 DEF Handle
  <2> QED BY <1>0, <2>3, <2>4, <2>5, <2>6
<1>6. ASSUME NEW w \in Writers, Check(w)
      PROVE  RunnerTypeOK'
  <2>1. cursor' \in [Writers -> Nat] /\ pc' \in [Writers -> Steps]
    BY <1>0, <1>6, PublishedAccepted DEF Check
  <2>2. UNCHANGED <<logVars, handled, upto, next, fileVars, starts, outages>>
    BY <1>6 DEF Check
  <2> QED BY <1>0, <2>1, <2>2
<1>7. ASSUME NEW w \in Writers, Create(w)
      PROVE  RunnerTypeOK'
  <2> DEFINE i == IF tmp # None THEN tmp ELSE CHOOSE j \in Inodes : j \notin InUse
  <2>1. i \in Inodes
    <3>1. CASE tmp # None
      BY <1>0, <3>1
    <3>2. CASE tmp = None
      <4>1. fd[w] = None
        BY <1>7 DEF RunnerInv, Runs, Create
      <4> QED BY <1>0, <3>2, <4>1, FreshInode
    <3> QED BY <3>1, <3>2
  <2>2. /\ fd' = [fd EXCEPT ![w] = i] /\ tmp' = i
        /\ content' = [content EXCEPT ![i] = <<>>] /\ synced' = [synced EXCEPT ![i] = FALSE]
    BY <1>7 DEF Create
  <2> HIDE DEF i
  <2>3. <<>> \in Seq(0 .. Base - 1)
    OBVIOUS
  <2>4. UNCHANGED <<logVars, takenVars, path, durable, starts, outages>> /\ GoTo(w, "write")
    BY <1>7 DEF Create
  <2> QED BY <1>0, <2>1, <2>2, <2>3, <2>4
<1>8. ASSUME NEW w \in Writers, Write(w)
      PROVE  RunnerTypeOK'
  <2>1. fd[w] = tmp /\ tmp \in Inodes /\ content[tmp] = <<>>
    BY <1>0, <1>8 DEF RunnerInv, Runs, Write
  <2>2. Overlay(Digits[upto[w]], <<>>) = Digits[upto[w]]
    BY <1>0, EmptyOverlay
  <2>3. Digits[upto[w]] \in Seq(0 .. Base - 1)
    BY <1>0, ReadsBack DEF Cells
  <2>4. content' = [content EXCEPT ![tmp] = Digits[upto[w]]]
    BY <1>0, <1>8, <2>1, <2>2 DEF Write
  <2> QED BY <1>0, <1>8, <2>1, <2>3, <2>4 DEF Write
<1>9. ASSUME NEW w \in Writers, Sync(w)
      PROVE  RunnerTypeOK'
  BY <1>0, <1>9 DEF Sync
<1>10. ASSUME NEW w \in Writers, Rename(w)
      PROVE  RunnerTypeOK'
  <2>1. /\ cursor' \in [Writers -> Nat] /\ pc' \in [Writers -> Steps]
        /\ fd' \in [Writers -> Inodes \cup {None}]
    BY <1>0, <1>10 DEF Rename
  <2>2. /\ {path, tmp}' \subseteq Inodes \cup {None}
        /\ UNCHANGED <<logVars, handled, upto, next, durable, content, synced, starts, outages>>
    BY <1>0, <1>10 DEF Rename
  <2> QED BY <1>0, <2>1, <2>2
<1>11. ASSUME NEW w \in Writers, IoError(w) \/ Crash(w)
      PROVE  RunnerTypeOK'
  <2>1. /\ pc' \in [Writers -> Steps] /\ fd' \in [Writers -> Inodes \cup {None}]
        /\ tmp' \in Inodes \cup {None}
    BY <1>0, <1>11 DEF IoError, Crash
  <2>2. UNCHANGED <<logVars, takenVars, path, durable, content, synced, starts, outages>>
    BY <1>11 DEF IoError, Crash
  <2> QED BY <1>0, <2>1, <2>2
<1>12. CASE Record \/ Evict \/ Flush
  <2>1. /\ oldest' \in 1 .. MaxCursor + 1 /\ latest' \in 0 .. MaxCursor
        /\ latest <= latest'
    BY <1>0, <1>12 DEF Record, Evict, Flush
  <2>2. handled' = handled
    BY <1>12 DEF Record, Evict, Flush
  <2>3. handled' \subseteq 1 .. latest'
    BY <1>0, <2>1, <2>2
  <2>4. UNCHANGED <<takenVars, pc, path, tmp, content, synced, fd, starts, outages>>
    BY <1>12 DEF Record, Evict, Flush
  <2>5. durable' \in Inodes \cup {None}
    BY <1>0, <1>12 DEF Record, Evict, Flush
  <2> QED BY <1>0, <2>1, <2>3, <2>4, <2>5
<1>13. CASE PowerLoss
  <2>1. content' \in [Inodes -> Seq(0 .. Base - 1)]
    <3>1. PICK kept \in 0 .. Len(Digits[MaxCursor]) :
            content' = [i \in Inodes |->
              IF synced[i] \/ kept > Len(content[i]) THEN content[i]
              ELSE SubSeq(content[i], 1, kept)]
      BY <1>13 DEF PowerLoss
    <3>2. kept \in Nat
      BY <1>0, ReadsBack DEF Cells
    <3>3. ASSUME NEW s \in Seq(0 .. Base - 1), ~ (kept > Len(s))
          PROVE  SubSeq(s, 1, kept) \in Seq(0 .. Base - 1)
      <4> DEFINE D == 0 .. Base - 1
      <4>1. s \in Seq(D) /\ kept <= Len(s)
        BY <3>2, <3>3
      <4> HIDE DEF D
      <4>2. SubSeq(s, 1, kept) \in Seq(D)
        BY <3>2, <4>1
      <4> QED BY <4>2 DEF D
    <3> QED BY <1>0, <3>1, <3>3
  <2>2. {path, tmp, durable}' \subseteq Inodes \cup {None}
    BY <1>0, <1>13 DEF PowerLoss
  <2> QED BY <1>0, <1>13, <2>1, <2>2 DEF PowerLoss
<1> QED BY <1>1, <1>2, <1>3, <1>4, <1>5, <1>6, <1>7, <1>8, <1>9, <1>10, <1>11, <1>12, <1>13
        DEF RunnerNext, Step

\* A file that is left alone still holds what it held.
LEMMA WroteStill ==
  ASSUME NEW i, NEW bytes, NEW done, NEW accepted, NEW bytes2, NEW done2, NEW accepted2,
         Wrote(i, bytes, done, accepted), accepted \subseteq accepted2,
         i # None => bytes2[i] = bytes[i] /\ (done[i] => done2[i])
  PROVE  Wrote(i, bytes2, done2, accepted2)
BY DEF Wrote

\* Every step leaves the directories with files that were written whole.
LEMMA FilesKept ==
  ASSUME OneWriter, RunnerInv, RunnerNext
  PROVE  Files'
<1> USE DEF logVars, takenVars, fileVars
<1>0. /\ RunnerTypeOK /\ Files
  BY DEF RunnerInv
<1>a. path \in Inodes \cup {None} /\ durable \in Inodes \cup {None}
  BY <1>0 DEF RunnerTypeOK
<1>1. ASSUME path' = path, durable' = durable, handled \subseteq handled',
             tmp' # None => tmp' \notin {path, durable},
             \A i \in {path, durable} \ {None} :
               content'[i] = content[i] /\ (synced[i] => synced'[i])
      PROVE  Files'
  <2>1. Wrote(path, content', synced', handled')
    <3>1. path # None => content'[path] = content[path] /\ (synced[path] => synced'[path])
      BY <1>1
    <3> QED BY <1>0, <1>1, <3>1, WroteStill DEF Files
  <2>2. Wrote(durable, content', synced', handled')
    <3>1. durable # None =>
            content'[durable] = content[durable] /\ (synced[durable] => synced'[durable])
      BY <1>1
    <3> QED BY <1>0, <1>1, <3>1, WroteStill DEF Files
  <2> QED BY <1>1, <2>1, <2>2 DEF Files
<1>2. ASSUME NEW w \in Writers, Start(w) \/ Load(w) \/ PollEnds(w) \/ Reject(w) \/ Check(w)
      PROVE  Files'
  <2>1. UNCHANGED <<handled, fileVars>>
    BY <1>2 DEF Start, Load, PollEnds, Reject, Check
  <2> QED BY <1>0, <1>1, <2>1 DEF Files
<1>3. ASSUME NEW w \in Writers, NEW n \in 1 .. MaxBatch, PollBatch(w, n)
      PROVE  Files'
  BY <1>0, <1>1, <1>3 DEF PollBatch, Files
<1>4. ASSUME NEW w \in Writers, Handle(w)
      PROVE  Files'
  BY <1>0, <1>1, <1>4 DEF Handle, Files
<1>5. ASSUME NEW w \in Writers, Create(w)
      PROVE  Files'
  <2> DEFINE i == IF tmp # None THEN tmp ELSE CHOOSE j \in Inodes : j \notin InUse
  <2>1. i \notin {path, durable}
    <3>1. CASE tmp # None
      BY <1>0, <3>1 DEF Files
    <3>2. CASE tmp = None
      <4>1. fd[w] = None
        BY <1>5 DEF RunnerInv, Runs, Create
      <4> QED BY <1>0, <3>2, <4>1, FreshInode DEF InUse
    <3> QED BY <3>1, <3>2
  <2>2. /\ tmp' = i /\ path' = path /\ durable' = durable /\ handled' = handled
        /\ content' = [content EXCEPT ![i] = <<>>] /\ synced' = [synced EXCEPT ![i] = FALSE]
    BY <1>5 DEF Create
  <2> HIDE DEF i
  <2>3. \A j \in {path, durable} \ {None} : content'[j] = content[j] /\ synced'[j] = synced[j]
    BY <1>0, <1>a, <2>1, <2>2 DEF RunnerTypeOK
  <2> QED BY <1>1, <2>1, <2>2, <2>3
<1>6. ASSUME NEW w \in Writers, Write(w) \/ Sync(w)
      PROVE  Files'
  <2>1. fd[w] = tmp /\ tmp \notin {path, durable}
    BY <1>0, <1>6 DEF RunnerInv, Runs, Write, Sync, Files
  <2>2. \A j \in {path, durable} \ {None} : content'[j] = content[j] /\ synced'[j] = synced[j]
    BY <1>0, <1>6, <1>a, <2>1 DEF RunnerTypeOK, Write, Sync
  <2>3. UNCHANGED <<handled, path, tmp, durable>>
    BY <1>6 DEF Write, Sync
  <2> QED BY <1>1, <2>1, <2>2, <2>3
<1>7. ASSUME NEW w \in Writers, Rename(w)
      PROVE  Files'
  <2>1. /\ content[tmp] = Digits[upto[w]] /\ synced[tmp] /\ 1 .. upto[w] \subseteq handled
        /\ upto[w] \in Nat
    BY <1>0, <1>7 DEF RunnerInv, RunnerTypeOK, Runs, Rename, Storing
  <2>2. Wrote(tmp, content, synced, handled)
    BY <2>1 DEF Wrote
  <2>3. path' = tmp /\ tmp' = None /\ UNCHANGED <<durable, content, synced, handled>>
    BY <1>7 DEF Rename
  <2> QED BY <1>0, <2>2, <2>3 DEF Files
<1>8. ASSUME NEW w \in Writers, IoError(w) \/ Crash(w)
      PROVE  Files'
  <2>1. UNCHANGED <<handled, path, durable, content, synced>> /\ tmp' \in {None, tmp}
    BY <1>8 DEF IoError, Crash
  <2> QED BY <1>0, <1>1, <2>1 DEF Files
<1>9. CASE Record \/ Evict
  <2>1. UNCHANGED <<handled, fileVars>>
    BY <1>9 DEF Record, Evict
  <2> QED BY <1>0, <1>1, <2>1 DEF Files
<1>10. CASE Flush
  BY <1>0, <1>10 DEF Flush, Files
<1>11. CASE PowerLoss
  <2>1. \A j \in {path, durable} \ {None} : synced[j] => content'[j] = content[j] /\ synced'[j]
    BY <1>11, <1>a DEF PowerLoss
  <2>2. handled' = handled /\ path' \in {path, durable} /\ durable' = path'
        /\ (tmp' # None => tmp' # path')
    BY <1>11 DEF PowerLoss
  <2>3. Wrote(path', content, synced, handled) /\ (path' # None => synced[path'])
    BY <1>0, <2>2 DEF Files, Wrote
  <2>4. path' # None => content'[path'] = content[path'] /\ (synced[path'] => synced'[path'])
    BY <2>1, <2>2, <2>3
  <2>5. Wrote(path', content', synced', handled')
    BY <2>2, <2>3, <2>4, WroteStill
  <2> QED BY <2>2, <2>5 DEF Files
<1> QED BY <1>2, <1>3, <1>4, <1>5, <1>6, <1>7, <1>8, <1>9, <1>10, <1>11 DEF RunnerNext, Step

\* Every step leaves the run where the checkpoint is.
LEMMA RunsKept ==
  ASSUME OneWriter, RunnerInv, RunnerNext
  PROVE  \A w \in Writers : Runs(w)'
<1> USE DEF logVars, takenVars, fileVars
<1>0. /\ RunnerTypeOK /\ Files /\ \A w \in Writers : Runs(w)
      /\ Published \in Nat /\ 1 .. Published \subseteq handled /\ Readable(path)
  BY PublishedAccepted DEF RunnerInv
<1>a. /\ path \in Inodes \cup {None} /\ tmp \in Inodes \cup {None} /\ latest \in Nat
      /\ \A w \in Writers : /\ cursor[w] \in Nat /\ upto[w] \in Nat /\ next[w] \in Nat
                             /\ fd[w] \in Inodes \cup {None}
      /\ pc \in [Writers -> Steps] /\ fd \in [Writers -> Inodes \cup {None}]
      /\ cursor \in [Writers -> Nat] /\ upto \in [Writers -> Nat] /\ next \in [Writers -> Nat]
      /\ DOMAIN content = Inodes /\ DOMAIN synced = Inodes
  BY <1>0, RunnerAssumption DEF RunnerTypeOK
<1>b. ASSUME path' = path, path # None => content'[path] = content[path]
      PROVE  Published' = Published
  BY <1>b DEF Published, Stored
<1>1. ASSUME NEW w \in Writers, Start(w) \/ PollEnds(w) \/ Reject(w)
      PROVE  Runs(w)'
  <2>1. pc'[w] \in {"off", "load"} /\ fd'[w] = None
    BY <1>0, <1>1, <1>a DEF Start, PollEnds, Reject, GoTo, Runs
  <2> QED BY <2>1 DEF Runs, Storing
<1>2. ASSUME NEW w \in Writers, Load(w)
      PROVE  Runs(w)'
  <2>1. pc'[w] = "poll" /\ cursor'[w] = Published /\ fd'[w] = None
    BY <1>0, <1>2, <1>a DEF Load, GoTo, Runs
  <2>2. Published' = Published
    BY <1>2, <1>b DEF Load
  <2> QED BY <2>1, <2>2 DEF Runs, Storing
<1>3. ASSUME NEW w \in Writers, NEW n \in 1 .. MaxBatch, PollBatch(w, n)
      PROVE  Runs(w)'
  <2>1. /\ pc'[w] = "handle" /\ cursor'[w] = Published /\ cursor'[w] = cursor[w]
        /\ next'[w] = cursor[w] + 1 /\ upto'[w] = cursor[w] + n /\ cursor[w] + n <= latest
        /\ fd'[w] = None
    BY <1>0, <1>3, <1>a DEF PollBatch, GoTo, Runs
  <2>2. Published' = Published /\ handled' = handled /\ latest' = latest
    BY <1>3, <1>b DEF PollBatch
  <2>3. n \in Nat /\ n >= 1
    BY RunnerAssumption
  <2>4. cursor'[w] < next'[w] /\ next'[w] <= upto'[w] /\ upto'[w] <= latest'
    BY <1>a, <2>1, <2>2, <2>3
  <2>5. 1 .. (next'[w] - 1) \subseteq handled'
    BY <1>0, <2>1, <2>2
  <2> QED BY <2>1, <2>2, <2>4, <2>5 DEF Runs, Storing
<1>4. ASSUME NEW w \in Writers, Handle(w)
      PROVE  Runs(w)'
  <2>1. /\ cursor[w] = Published /\ cursor[w] < next[w] /\ next[w] <= upto[w]
        /\ upto[w] <= latest /\ 1 .. (next[w] - 1) \subseteq handled /\ fd[w] = None
    BY <1>0, <1>4 DEF Handle, Runs
  <2>2. /\ next'[w] = next[w] + 1 /\ handled' = handled \cup {next[w]}
        /\ pc'[w] = IF next[w] = upto[w] THEN "check" ELSE "handle"
        /\ UNCHANGED <<latest, cursor, upto, fileVars>>
    BY <1>4, <1>a DEF Handle, GoTo
  <2>3. Published' = Published
    BY <2>2, <1>b
  <2>4. 1 .. next[w] \subseteq handled'
    <3>1. \A k \in 1 .. next[w] : k = next[w] \/ k \in 1 .. (next[w] - 1)
      BY <1>a
    <3> QED BY <2>1, <2>2, <3>1
  <2>5. CASE next[w] = upto[w]
    BY <2>1, <2>2, <2>3, <2>4, <2>5 DEF Runs, Storing
  <2>6. CASE next[w] # upto[w]
    <3>1. cursor'[w] < next'[w] /\ next'[w] <= upto'[w] /\ upto'[w] <= latest'
      BY <1>a, <2>1, <2>2, <2>6
    <3>2. next'[w] - 1 = next[w]
      BY <1>a, <2>2
    <3> QED BY <2>1, <2>2, <2>3, <2>4, <2>6, <3>1, <3>2 DEF Runs, Storing
  <2> QED BY <2>5, <2>6
<1>5. ASSUME NEW w \in Writers, Check(w)
      PROVE  Runs(w)'
  <2>1. /\ pc'[w] \in {"poll", "create"} /\ cursor'[w] = Published /\ fd'[w] = None
        /\ upto'[w] = upto[w] /\ 1 .. upto[w] \subseteq handled /\ handled' = handled
    BY <1>0, <1>5, <1>a DEF Check, GoTo, Runs, Storing
  <2>2. Published' = Published
    BY <1>5, <1>b DEF Check
  <2> QED BY <2>1, <2>2 DEF Runs, Storing
<1>6. ASSUME NEW w \in Writers, Create(w)
      PROVE  Runs(w)'
  <2> DEFINE i == IF tmp # None THEN tmp ELSE CHOOSE j \in Inodes : j \notin InUse
  <2>1. i \in Inodes /\ i # path
    <3>1. CASE tmp # None
      BY <1>0, <1>a, <3>1 DEF Files
    <3>2. CASE tmp = None
      <4>1. fd[w] = None
        BY <1>6, <1>0 DEF Runs, Create
      <4> QED BY <1>0, <3>2, <4>1, FreshInode DEF InUse
    <3> QED BY <3>1, <3>2
  <2>2. /\ tmp' = i /\ path' = path /\ handled' = handled /\ fd'[w] = i
        /\ content' = [content EXCEPT ![i] = <<>>] /\ pc'[w] = "write"
        /\ UNCHANGED <<cursor, upto>>
    BY <1>6, <1>a DEF Create, GoTo
  <2> HIDE DEF i
  <2>3. i # None /\ content'[i] = <<>> /\ (path # None => content'[path] = content[path])
    BY <1>a, <2>1, <2>2, NoInode
  <2>4. Published' = Published
    BY <1>b, <2>2, <2>3
  <2>5. cursor[w] = Published /\ 1 .. upto[w] \subseteq handled
    BY <1>0, <1>6 DEF Create, Runs, Storing
  <2> QED BY <2>2, <2>3, <2>4, <2>5 DEF Runs, Storing
<1>7. ASSUME NEW w \in Writers, Write(w)
      PROVE  Runs(w)'
  <2>1. /\ fd[w] = tmp /\ tmp # None /\ content[tmp] = <<>> /\ cursor[w] = Published
        /\ 1 .. upto[w] \subseteq handled
    BY <1>0, <1>7 DEF Write, Runs, Storing
  <2>2. tmp \in Inodes /\ tmp # path
    BY <1>0, <1>a, <2>1 DEF Files
  <2>3. content' = [content EXCEPT ![tmp] = Digits[upto[w]]]
    <3>1. Overlay(Digits[upto[w]], <<>>) = Digits[upto[w]]
      BY <1>a, EmptyOverlay
    <3> QED BY <1>7, <2>1, <3>1 DEF Write
  <2>4. pc'[w] = "sync" /\ UNCHANGED <<handled, cursor, upto, path, tmp, fd>>
    BY <1>7, <1>a DEF Write, GoTo
  <2>5. content'[tmp] = Digits[upto[w]] /\ (path # None => content'[path] = content[path])
    BY <1>a, <2>2, <2>3
  <2>6. Published' = Published
    BY <1>b, <2>4, <2>5
  <2> QED BY <2>1, <2>4, <2>5, <2>6 DEF Runs, Storing
<1>8. ASSUME NEW w \in Writers, Sync(w)
      PROVE  Runs(w)'
  <2>1. /\ fd[w] = tmp /\ tmp # None /\ content[tmp] = Digits[upto[w]]
        /\ cursor[w] = Published /\ 1 .. upto[w] \subseteq handled
    BY <1>0, <1>8 DEF Sync, Runs, Storing
  <2>2. /\ pc'[w] = "rename" /\ synced'[tmp]
        /\ UNCHANGED <<handled, cursor, upto, path, tmp, fd, content>>
    BY <1>8, <1>a, <2>1 DEF Sync, GoTo
  <2>3. Published' = Published
    BY <1>b, <2>2
  <2> QED BY <2>1, <2>2, <2>3 DEF Runs, Storing
<1>9. ASSUME NEW w \in Writers, Rename(w)
      PROVE  Runs(w)'
  <2>1. tmp # None /\ content[tmp] = Digits[upto[w]]
    BY <1>0, <1>9 DEF Rename, Runs
  <2>2. /\ pc'[w] = "poll" /\ cursor'[w] = upto[w] /\ fd'[w] = None
        /\ path' = tmp /\ content' = content
    BY <1>9, <1>a DEF Rename, GoTo
  <2>3. Published' = upto[w]
    <3>1. Parsed(Digits[upto[w]]) = upto[w]
      BY <1>a, ReadsBack
    <3>2. Parsed(content'[path']) = Parsed(Digits[upto[w]])
      BY <2>1, <2>2
    <3> QED BY <2>1, <2>2, <3>1, <3>2 DEF Published, Stored
  <2> QED BY <2>2, <2>3 DEF Runs, Storing
<1>10. ASSUME NEW w \in Writers, IoError(w) \/ Crash(w)
       PROVE  Runs(w)'
  <2>1. pc'[w] = "off" /\ fd'[w] = None
    BY <1>10, <1>a DEF IoError, Crash, GoTo
  <2> QED BY <2>1 DEF Runs, Storing
<1>11. ASSUME Record \/ Evict \/ Flush, NEW w \in Writers
       PROVE  Runs(w)'
  <2>1. UNCHANGED <<takenVars, pc, path, tmp, content, synced, fd>> /\ latest <= latest'
    BY <1>11, <1>a DEF Record, Evict, Flush
  <2>2. Published' = Published /\ latest' \in Nat
    BY <1>11, <1>a, <1>b, <2>1 DEF Record, Evict, Flush
  <2>3. upto[w] <= latest => upto[w] <= latest'
    BY <1>a, <2>1, <2>2
  <2> QED BY <1>0, <2>1, <2>2, <2>3 DEF Runs
<1>12. ASSUME PowerLoss, NEW w \in Writers
       PROVE  Runs(w)'
  <2>1. pc'[w] = "off" /\ fd'[w] = None
    BY <1>12 DEF PowerLoss
  <2> QED BY <2>1 DEF Runs, Storing
<1>13. ASSUME NEW v \in Writers, Runs(v)', NEW w \in Writers
       PROVE  Runs(w)'
  <2>1. v = w
    BY DEF OneWriter
  <2> QED BY <1>13, <2>1
<1>14. SUFFICES ASSUME NEW w \in Writers
                PROVE  Runs(w)'
  OBVIOUS
<1>15. ASSUME NEW v \in Writers, Start(v) \/ Step(v) \/ Reject(v) \/ IoError(v) \/ Crash(v)
       PROVE  Runs(v)'
  BY <1>1, <1>2, <1>3, <1>4, <1>5, <1>6, <1>7, <1>8, <1>9, <1>10, <1>15 DEF Step
<1> QED BY <1>11, <1>12, <1>13, <1>15 DEF RunnerNext

\* So a runner alone on its checkpoint keeps the invariant.
LEMMA Invariant ==
  ASSUME OneWriter
  PROVE  RunnerSpec => []RunnerInv
<1>1. RunnerInit => RunnerInv
  BY Starting
<1>2. RunnerInv /\ [RunnerNext]_runnerVars => RunnerInv'
  <2> SUFFICES ASSUME RunnerInv, [RunnerNext]_runnerVars
               PROVE  RunnerInv'
    OBVIOUS
  <2>1. CASE RunnerNext
    BY <2>1, TypeKept, FilesKept, RunsKept DEF RunnerInv
  <2>2. CASE UNCHANGED runnerVars
    BY <2>2 DEF RunnerInv, RunnerTypeOK, Files, Runs, Published, Stored, runnerVars, logVars, takenVars, fileVars
  <2> QED BY <2>1, <2>2
<1> QED BY <1>1, <1>2, PTL DEF RunnerSpec

\* Type correctness.
THEOREM TypeCorrect ==
  ASSUME OneWriter
  PROVE  RunnerSpec => []RunnerTypeOK
<1>1. RunnerInv => RunnerTypeOK
  BY DEF RunnerInv
<1> QED BY <1>1, Invariant, PTL

\* A restart never skips an event: whatever was refused, failed, killed or cut
\* off on the way, the checkpoint claims only what some handler accepted.
THEOREM ResumesWithoutSkipping ==
  ASSUME OneWriter
  PROVE  RunnerSpec => []NeverSkips
<1>1. RunnerInv => NeverSkips
  BY PublishedAccepted DEF NeverSkips
<1> QED BY <1>1, Invariant, PTL

\* Neither the checkpoint nor what a power loss would leave of it is torn.
THEOREM ReadableAfterPowerLoss ==
  ASSUME OneWriter
  PROVE  RunnerSpec => []NeverTorn
<1>1. RunnerInv => NeverTorn
  <2> SUFFICES ASSUME RunnerInv
               PROVE  NeverTorn
    OBVIOUS
  <2>1. /\ path \in Inodes \cup {None} /\ Wrote(path, content, synced, handled)
        /\ durable \in Inodes \cup {None} /\ Wrote(durable, content, synced, handled)
    BY DEF RunnerInv, RunnerTypeOK, Files
  <2>2. Readable(path) /\ Readable(durable)
    BY <2>1, WroteReads
  <2> QED BY <2>1, <2>2 DEF NeverTorn, Wrote
<1> QED BY <1>1, Invariant, PTL

\* Handlers see the stream from the checkpoint on, in order and without holes.
THEOREM HandedOutInOrder ==
  ASSUME OneWriter
  PROVE  RunnerSpec => InOrderFromCheckpoint
<1> DEFINE A == \A w \in Writers : pc[w] = "handle" /\ next'[w] # next[w] =>
                  next[w] > Published /\ 1 .. (next[w] - 1) \subseteq handled
<1>1. RunnerInv => A
  <2> SUFFICES ASSUME RunnerInv, NEW w \in Writers, pc[w] = "handle"
               PROVE  next[w] > Published /\ 1 .. (next[w] - 1) \subseteq handled
    OBVIOUS
  <2>1. /\ cursor[w] = Published /\ cursor[w] < next[w] /\ 1 .. (next[w] - 1) \subseteq handled
        /\ cursor[w] \in Nat /\ next[w] \in Nat
    BY DEF RunnerInv, RunnerTypeOK, Runs
  <2> QED BY <2>1
<1>2. RunnerInv /\ [RunnerNext]_runnerVars => [A]_runnerVars
  BY <1>1
<1> QED BY <1>2, Invariant, PTL DEF RunnerSpec, InOrderFromCheckpoint

=============================================================================
