---------------------------- MODULE KernelWorker ----------------------------
(***************************************************************************)
(* The kernel worker thread (crates/kernel_client/src/worker.rs): one      *)
(* thread that takes requests from an unbounded FIFO channel and answers   *)
(* each of them once, into a second one.  The state behind it is one       *)
(* session per model, replaced when the model is defined again and         *)
(* narrowed by every conditioning that was asked of it.                    *)
(*                                                                         *)
(* A request that goes wrong, from a kernel error or a denied grant to a   *)
(* panic caught at the loop boundary, is answered with an error and leaves *)
(* the sessions alone.  The kernel itself (prob_kernel) is external: what  *)
(* a probability is does not matter here, only what it was computed from.  *)
(***************************************************************************)
EXTENDS Naturals, Sequences

CONSTANTS
  Models,     \* block ids under which models are defined
  Rejects,    \* definitions that Session::new refuses (external)
  MaxFaults   \* bound: requests that fail, and deaths of the thread

VARIABLES
  reqs,      \* requests sent and not yet taken
  resps,     \* answers sent and not yet polled
  sessions,  \* model -> the session it has, or NoSession
  alive,     \* the thread is running, so a submit succeeds
  faults,    \* for the bound
  refused    \* history: definitions answered with an error

workerVars == <<reqs, resps, sessions, alive, faults, refused>>

\* def: the definition the session was made from; given: its conditionings.
NoSession == [def |-> <<>>, given |-> {}]
FreshSession(def) == [def |-> def, given |-> {}]

WorkerInit ==
  /\ reqs = <<>> /\ resps = <<>>
  /\ sessions = [m \in Models |-> NoSession]
  /\ alive = TRUE /\ faults = 0 /\ refused = {}

\* An answer carries the request it settles and what it was computed from.
Answer(kind, of) ==
  resps' = Append(resps, [req |-> Head(reqs), kind |-> kind, of |-> of])

Take(op) == alive /\ reqs # <<>> /\ Head(reqs).op = op /\ reqs' = Tail(reqs)

\* A refused definition leaves the model's previous session in place.
Define ==
  /\ Take("define")
  /\ LET r == Head(reqs) IN
       IF r.of \in Rejects
       THEN Answer("error", <<>>) /\ refused' = refused \cup {r.of} /\ UNCHANGED sessions
       ELSE /\ Answer("success", r.of)
            /\ sessions' = [sessions EXCEPT ![r.id] = FreshSession(r.of)]
            /\ UNCHANGED refused
  /\ UNCHANGED <<alive, faults>>

\* Conditioning answers with the probability of the condition.
Condition ==
  /\ Take("condition")
  /\ LET r == Head(reqs) IN
       IF sessions[r.model] = NoSession
       THEN Answer("error", <<>>) /\ UNCHANGED sessions
       ELSE /\ Answer("value", <<"condition", r.of[1]>>)
            /\ sessions' = [sessions EXCEPT ![r.model].given = @ \cup {r.of[1]}]
  /\ UNCHANGED <<alive, faults, refused>>

Probability ==
  /\ Take("probability")
  /\ LET r == Head(reqs)  s == sessions[r.model] IN
       IF s = NoSession
       THEN Answer("error", <<>>)
       ELSE Answer("value", <<r.of[1], s.def, s.given>>)
  /\ UNCHANGED <<sessions, alive, faults, refused>>

\* An exec or a kernel cell that is granted and ends well.
Exec ==
  /\ Take("exec")
  /\ Answer("value", Head(reqs).of)
  /\ UNCHANGED <<sessions, alive, faults, refused>>

SlipPanicUnanswered ==  \* slip: the request that panics is stranded
  /\ faults < MaxFaults
  /\ alive /\ reqs # <<>> /\ reqs' = Tail(reqs)
  /\ faults' = faults + 1
  /\ UNCHANGED <<resps, sessions, alive, refused>>

\* Whatever the request, it can be answered with an error.
Fail ==
  /\ faults < MaxFaults
  /\ alive /\ reqs # <<>> /\ reqs' = Tail(reqs)
  /\ Answer("error", <<>>)
  /\ faults' = faults + 1
  /\ refused' = IF Head(reqs).op = "define" THEN refused \cup {Head(reqs).of} ELSE refused
  /\ UNCHANGED <<sessions, alive>>

\* The thread is gone: its receiver is dropped with all that was queued, and
\* answers already sent can still be read.
Die ==
  /\ alive /\ faults < MaxFaults
  /\ alive' = FALSE /\ reqs' = <<>>
  /\ sessions' = [m \in Models |-> NoSession]
  /\ faults' = faults + 1
  /\ UNCHANGED <<resps, refused>>

Serve == Define \/ Condition \/ Probability \/ Exec \/ Fail

\* KernelClient::submit and try_recv, for the side that uses the worker.
Submit(batch) == reqs' = IF alive THEN reqs \o batch ELSE reqs
TryRecv == resps # <<>> /\ resps' = Tail(resps)
=============================================================================
