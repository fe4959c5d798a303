---------------------------- MODULE KernelBridge ----------------------------
(***************************************************************************)
(* The bridge between the document and the kernel worker                   *)
(* (crates/mathed_mini/src/kernel_bridge.rs), composed with the worker:    *)
(* after each edit it sends requests for the statements whose inputs       *)
(* changed, and later polls for answers, which it files under the          *)
(* statement's offset.                                                     *)
(*                                                                         *)
(* A document gives each offset a text, or nothing.  What kind of          *)
(* statement an offset holds, the model a statement names and the exec it  *)
(* pipes from are fixed; every statement is a block of its own.  Hashes    *)
(* are the inputs they are taken of.  \prior and \solver are both          *)
(* settings of a model.  A \kernel is an exec that is sent after the others *)
(* and has no pipe: from: only finds an \exec (resolve_from_offset).        *)
(***************************************************************************)
EXTENDS KernelWorker, FiniteSetsExt, Functions

CONSTANTS
  Settings, Probs, Layouts, Execs,  \* offsets of the other statements
  Kernels,      \* the execs that are kernel cells
  NameOf,       \* the model that a setting or a prob names, if it names one
  PipeFrom,     \* the exec whose output an exec reads, if it reads one
  Docs,         \* documents
  Absent,
  Bad,          \* texts that do not translate or parse
  Conditional,  \* texts of probs with a condition
  MaxActs       \* bound: refreshes, runs and clears

Stmts == Models \cup Settings \cup Probs \cup Layouts \cup Execs

ASSUME BridgeAssumption ==
  /\ Stmts \subseteq Nat \ {0} /\ IsFiniteSet(Stmts)
  /\ Models \cap (Settings \cup Probs \cup Layouts \cup Execs) = {}
  /\ Settings \cap (Probs \cup Layouts \cup Execs) = {}
  /\ Probs \cap (Layouts \cup Execs) = {} /\ Layouts \cap Execs = {}
  /\ DOMAIN NameOf \subseteq Settings \cup Probs /\ Range(NameOf) \subseteq Models
  /\ Kernels \subseteq Execs
  /\ DOMAIN PipeFrom \cup Range(PipeFrom) \subseteq Execs \ Kernels
  /\ \A d \in Docs : DOMAIN d = Stmts

VARIABLES
  doc,         \* the document as of the last refresh
  results,     \* what is displayed for each statement
  cur, last,   \* cur_hashes, last_result_hashes
  dispatched,  \* model_hashes, prob_hashes, exec_hashes
  pending,     \* submitted and not yet settled: "young", "overdue" or "none"
  polling,     \* inside poll, after the expiry of lost requests
  changed,     \* poll's local of that name
  window,      \* the front end keeps polling
  acts,        \* for the bound
  dirty,       \* history: something displayed moved since content_version did
  asked        \* history: the last request accepted for each statement

bridgeVars == <<doc, results, cur, last, dispatched, pending, polling, changed,
                window, acts, dirty, asked>>
vars == <<workerVars, bridgeVars>>

Nothing == [kind |-> "none", of |-> <<>>]
Unbound == <<"unbound">>

Init ==
  /\ WorkerInit
  /\ doc = [s \in Stmts |-> Absent]
  /\ results = [s \in Stmts |-> Nothing]
  /\ cur = [s \in Stmts |-> <<>>] /\ last = cur
  /\ dispatched = [s \in Stmts |-> <<>>] /\ asked = dispatched
  /\ pending = [s \in Stmts |-> "none"]
  /\ polling = FALSE /\ changed = FALSE /\ dirty = FALSE
  /\ window = FALSE
  /\ acts = 0

-----------------------------------------------------------------------------
(* What a statement's inputs are.                                          *)

Present(d) == {s \in Stmts : d[s] # Absent}

\* resolve_model: the model named, or else the nearest before the statement,
\* or the first; 0 for none.
Bound(d, s) ==
  LET here == Models \cap Present(d)
      before == {m \in here : m <= s}
  IN  IF s \in DOMAIN NameOf THEN (IF NameOf[s] \in here THEN NameOf[s] ELSE 0)
      ELSE IF here = {} THEN 0
      ELSE IF before # {} THEN Max(before) ELSE Min(here)

Orphans(d) == {s \in (Settings \cup Probs) \cap Present(d) : Bound(d, s) = 0}

\* A model is sent with the settings bound to it that parse.
Definition(d, m) ==
  <<d[m], {<<r, d[r]>> : r \in {r \in Settings \cap Present(d) :
                                  Bound(d, r) = m /\ d[r] \notin Bad}}>>

\* exec_stdin_for, when the statements of scope S are dispatched in order: an
\* exec before this one that is due while the worker is down has just been
\* given an error.
Stdin(d, S) ==
  LET stdin[e \in Execs] ==
        IF e \notin DOMAIN PipeFrom THEN <<>>
        ELSE LET src == PipeFrom[e] IN
             IF /\ src \in Present(d)
                /\ results[src].kind = "value"
                /\ \/ alive \/ src >= e \/ src \notin S
                   \/ dispatched[src] = <<d[src], stdin[src]>>
             THEN <<results[src].of>> ELSE <<>>
  IN stdin

\* The hash of a statement's inputs.  A prob's leaves out its model's settings.
Key(d, S, s) ==
  CASE s \in Models  -> Definition(d, s)
    [] s \in Probs   -> IF Bound(d, s) = 0 THEN Unbound ELSE <<d[s], d[Bound(d, s)]>>
    [] s \in Layouts -> <<d[s]>>
    [] s \in Execs   -> <<d[s], Stdin(d, S)[s]>>

\* Statements that have a request to send.
Sendable(d) ==
  {s \in (Models \cup Probs \cup Execs) \cap Present(d) :
     s \notin Orphans(d) /\ (s \in Execs \/ d[s] \notin Bad)}

Request(op, s, model, of, def) ==
  [op |-> op, id |-> s, model |-> model, of |-> of, def |-> def]

\* What a statement asks.
Asks(d, S, s) ==
  CASE s \in Models -> Request("define", s, s, Definition(d, s), <<>>)
    [] s \in Execs  -> Request("exec", s, 0, Key(d, S, s), <<>>)
    [] s \in Probs  ->
         LET m == Bound(d, s)
             def == IF d[m] \in Bad THEN <<>> ELSE Definition(d, m)
         IN  Request("probability", s, m, <<d[s]>>, def)

\* A prob with a condition has that set as well.
RequestsOf(d, S, s) ==
  {Asks(d, S, s)} \cup
  {Request("condition", t, Bound(d, t), <<d[t]>>, <<>>) :
     t \in {s} \cap {u \in Probs : d[u] \in Conditional}}

\* The pass that sends a request.
Turn(r) ==
  CASE r.op = "define"                       -> 1
    [] r.op \in {"condition", "probability"} -> 2
    [] r.op = "exec"                         -> IF r.id \in Kernels THEN 4 ELSE 3

SlipConditionLast(q, r) ==  \* slip: a prob is asked before its condition is set
  \/ Turn(q) < Turn(r)
  \/ Turn(q) = Turn(r) /\ q.id < r.id
  \/ q.id = r.id /\ q.op = "probability" /\ r.op = "condition"

\* Models first, then probs, then execs, then kernel cells, each in document
\* order, and the condition of a prob before its probability.
Precedes(q, r) ==
  \/ Turn(q) < Turn(r)
  \/ Turn(q) = Turn(r) /\ q.id < r.id
  \/ q.id = r.id /\ q.op = "condition" /\ r.op = "probability"

InTurn(R) ==
  LET rank(r) == Cardinality({q \in R : Precedes(q, r)})
  IN  [i \in 1 .. Cardinality(R) |-> CHOOSE r \in R : rank(r) = i - 1]

Requests(d, S, due) == InTurn(UNION {RequestsOf(d, S, s) : s \in due})

-----------------------------------------------------------------------------
(* refresh_with_index and run_block.  Both walk settings, models, probs,   *)
(* layouts, execs and kernel cells; refresh walks them all, sends what     *)
(* changed and then forgets what is not in the document any more; run      *)
(* walks one block and sends whether or not anything changed.  Settings    *)
(* are walked by both.                                                     *)

\* What becomes of a statement's result: S is what is walked, due what is sent.
Displayed(d, S, due, s, missing) ==
  LET sync(kind) == [kind |-> kind, of |-> <<d[s]>>] IN
  CASE s \notin S \cup Settings          -> results[s]
    [] s \in Orphans(d) /\ s \in DOMAIN NameOf -> sync("not_found")
    [] s \in Orphans(d) /\ s \in Probs   -> missing
    [] s \in Orphans(d)                  -> results[s]
    [] s \in Layouts                     -> sync("verdict")
    [] s \notin Execs /\ d[s] \in Bad    -> sync("sync_error")
    [] s \in due /\ ~ alive              -> [kind |-> "down", of |-> <<>>]
    [] OTHER                             -> results[s]

\* Results that reflect the current inputs as soon as they are put there.
Synchronous(d, s) ==
  \/ s \in Layouts
  \/ s \in Probs /\ (s \in Orphans(d) \/ d[s] \in Bad)

Send(d, S, due) ==
  /\ Submit(Requests(d, S, due))
  /\ asked' = [s \in Stmts |->
       IF s \in due /\ alive THEN Asks(d, S, s) ELSE asked[s]]
  /\ acts < MaxActs /\ acts' = acts + 1
  /\ window' = TRUE
  /\ dirty' = FALSE
  /\ UNCHANGED <<resps, sessions, alive, faults, refused, polling, changed>>

SlipSentWhenNew(d, S) ==  \* slip: a definition once sent is never sent again
  {s \in Sendable(d) : IF s \in Models THEN dispatched[s] = <<>>
                       ELSE dispatched[s] # Key(d, S, s)}

Due(d, S) == {s \in Sendable(d) : dispatched[s] # Key(d, S, s)}

\* A scratch map with the entries of deleted statements dropped.
Reconciled(d, f, forgotten) ==
  [s \in Stmts |-> IF s \in Present(d) THEN f[s] ELSE forgotten]

Refresh(d) ==
  LET S == Present(d)
      due == Due(d, S)
      hashed == S \ (Models \cup Settings)
      \* an unnamed prob that lost its model drops a computed value
      gone(s) == IF results[s].kind = "value" THEN Nothing ELSE results[s]
  IN
  /\ ~ polling
  /\ Send(d, S, due)
  /\ doc' = d
  /\ results' = Reconciled(d, [s \in Stmts |->
       IF s \in S THEN Displayed(d, S, due, s, gone(s)) ELSE results[s]], Nothing)
  /\ cur' = Reconciled(d, [s \in Stmts |->
       IF s \in hashed THEN Key(d, S, s) ELSE cur[s]], <<>>)
  /\ last' = Reconciled(d, [s \in Stmts |->
       IF s \in hashed /\ Synchronous(d, s)
       THEN Key(d, S, s) ELSE last[s]], <<>>)
  /\ dispatched' = Reconciled(d, [s \in Stmts |->
       IF s \in due THEN Key(d, S, s)
       ELSE IF s \in Orphans(d) THEN <<>> ELSE dispatched[s]], <<>>)
  /\ pending' = Reconciled(d, [s \in Stmts |->
       IF s \in due /\ alive THEN "young" ELSE pending[s]], "none")

\* The block that holds statement b, run by hand.
Run(b) ==
  LET S == {b}
      due == S \cap Sendable(doc)
  IN
  /\ ~ polling
  /\ b \in Present(doc)
  /\ Send(doc, S, due)
  /\ results' = [s \in Stmts |->
       IF s \in Present(doc) THEN Displayed(doc, S, due, s, results[s]) ELSE results[s]]
  /\ cur' = [s \in Stmts |->
       IF s \in S \ (Models \cup Settings) THEN Key(doc, S, s) ELSE cur[s]]
  /\ last' = [s \in Stmts |->
       IF s \in S /\ Synchronous(doc, s) THEN Key(doc, S, s) ELSE last[s]]
  /\ dispatched' = [s \in Stmts |-> IF s \in due THEN Key(doc, S, s) ELSE dispatched[s]]
  /\ pending' = [s \in Stmts |-> IF s \in due /\ alive THEN "young" ELSE pending[s]]
  /\ UNCHANGED doc

\* clear_outputs: the dispatch hashes stay, so nothing is run again.
ClearOutputs ==
  /\ ~ polling
  /\ acts < MaxActs /\ acts' = acts + 1
  /\ results' = [s \in Stmts |-> Nothing]
  /\ last' = [s \in Stmts |-> <<>>]
  /\ dirty' = FALSE
  /\ UNCHANGED <<workerVars, doc, cur, dispatched, pending, polling, changed,
                 window, asked>>

-----------------------------------------------------------------------------
(* poll: expire what the worker still owes after 30 s, then drain the      *)
(* answers.  The worker may go on answering while poll drains.             *)

\* 30 seconds pass for a request that is not settled.
Overdue(s) ==
  /\ pending[s] = "young"
  /\ pending' = [pending EXCEPT ![s] = "overdue"]
  /\ UNCHANGED <<workerVars, doc, results, cur, last, dispatched, polling,
                 changed, window, acts, dirty, asked>>

Shown(r) == {s \in Stmts : r[s].kind # "none"}

SlipNeverLost ==  \* slip: poll does not look at what is overdue
  /\ window /\ ~ polling
  /\ polling' = TRUE
  /\ UNCHANGED <<workerVars, doc, cur, last, dispatched, window, acts, asked,
                 pending, results, changed, dirty>>

\* expire_lost.  poll notices an expiry only by the number of results.
StartPoll ==
  LET lost == {s \in Stmts : pending[s] = "overdue"} IN
  /\ window /\ ~ polling
  /\ polling' = TRUE
  /\ pending' = [s \in Stmts |-> IF s \in lost THEN "none" ELSE pending[s]]
  /\ results' = [s \in Stmts |->
       IF s \in lost THEN [kind |-> "lost", of |-> <<>>] ELSE results[s]]
  /\ changed' = (Shown(results') # Shown(results))
  /\ dirty' = (dirty \/ lost # {})
  /\ UNCHANGED <<workerVars, doc, cur, last, dispatched, window, acts, asked>>

SlipFileAnyAnswer ==  \* slip: answers for deleted statements are filed too
  /\ polling
  /\ TryRecv
  /\ LET a == Head(resps)  s == a.req.id  shown == a.kind # "success" IN
       /\ pending' = [pending EXCEPT ![s] = "none"]
       /\ results' = IF shown THEN [results EXCEPT ![s] = [kind |-> a.kind, of |-> a.of]]
                     ELSE results
       /\ last' = IF shown /\ cur[s] # <<>> THEN [last EXCEPT ![s] = cur[s]] ELSE last
       /\ changed' = (changed \/ shown)
  /\ dirty' = (dirty \/ results' # results \/ last' # last \/ pending' # pending)
  /\ UNCHANGED <<reqs, sessions, alive, faults, refused, doc, cur, dispatched,
                 polling, window, acts, asked>>

\* One answer.  Whatever it is, it settles its offset; it is filed if its
\* statement is still there, under the hash the statement has by now.
Receive ==
  /\ polling
  /\ TryRecv
  /\ LET a == Head(resps)
         s == a.req.id
         shown == a.kind # "success" /\ s \in Present(doc)
     IN
       /\ pending' = [pending EXCEPT ![s] = "none"]
       /\ results' = IF shown THEN [results EXCEPT ![s] = [kind |-> a.kind, of |-> a.of]]
                     ELSE results
       /\ last' = IF shown /\ cur[s] # <<>> THEN [last EXCEPT ![s] = cur[s]] ELSE last
       /\ changed' = (changed \/ shown)
  /\ dirty' = (dirty \/ results' # results \/ last' # last \/ pending' # pending)
  /\ UNCHANGED <<reqs, sessions, alive, faults, refused, doc, cur, dispatched,
                 polling, window, acts, asked>>

\* The editor polls for 3 s after it last sent something; the exporter until
\* nothing is pending.  Either may also be called again.
EndPoll(open) ==
  /\ polling /\ resps = <<>>
  /\ polling' = FALSE /\ changed' = FALSE
  /\ window' = open
  /\ dirty' = (dirty /\ ~ changed)
  /\ UNCHANGED <<workerVars, doc, results, cur, last, dispatched, pending, acts, asked>>

-----------------------------------------------------------------------------

WorkerSteps == (Serve \/ Die) /\ UNCHANGED bridgeVars

Next ==
  \/ \E d \in Docs : Refresh(d)
  \/ \E b \in Stmts : Run(b)
  \/ ClearOutputs
  \/ \E s \in Stmts : Overdue(s)
  \/ StartPoll
  \/ Receive
  \/ \E open \in BOOLEAN : EndPoll(open)
  \/ WorkerSteps

Spec == Init /\ [][Next]_vars

\* The worker thread runs, time passes, and a poll that started ends.  poll is
\* called again and again only as long as the window is open.
Fairness ==
  /\ WF_vars(Serve /\ UNCHANGED bridgeVars)
  /\ \A s \in Stmts : WF_vars(Overdue(s))
  /\ WF_vars(StartPoll)
  /\ WF_vars(Receive)
  /\ WF_vars(\E open \in BOOLEAN : EndPoll(open))

FairSpec == Spec /\ Fairness

-----------------------------------------------------------------------------
(* stale_blocks, one statement to a block: stale by itself, or by a pipe   *)
(* from a stale one.                                                       *)

StaleItself(s) == pending[s] # "none" \/ cur[s] # last[s]

Stale(s) ==
  LET pipes == {e \in DOMAIN PipeFrom : {e, PipeFrom[e]} \subseteq Present(doc)}
      reach[n \in Nat] ==
        IF n = 0 THEN {t \in Present(doc) : StaleItself(t)}
        ELSE reach[n - 1] \cup {e \in pipes : PipeFrom[e] \in reach[n - 1]}
  IN  s \in reach[Cardinality(Execs)]

\* is_idle.
Idle == \A s \in Stmts : pending[s] = "none"

InFlight(s) ==
  \/ \E i \in DOMAIN reqs : reqs[i].id = s
  \/ \E i \in DOMAIN resps : resps[i].req.id = s

-----------------------------------------------------------------------------
(* Properties.                                                             *)

Kinds == {"none", "not_found", "verdict", "sync_error", "down", "lost", "value", "error"}

TypeOK ==
  /\ doc \in Docs \cup {[s \in Stmts |-> Absent]}
  /\ \A s \in Stmts : results[s].kind \in Kinds /\ pending[s] \in {"none", "young", "overdue"}
  /\ {polling, changed, window, dirty, alive} \subseteq BOOLEAN
  /\ \A m \in Models : sessions[m].given \subseteq Conditional
  /\ \A i \in DOMAIN reqs : reqs[i].op \in {"define", "condition", "probability", "exec"}

\* An answer that comes late does not bring back a statement that was deleted:
\* nothing is displayed, pending or compared for an offset without a statement
\* (poll's live filter, and the retains at the end of refresh_with_index).
NoGhosts ==
  \A s \in Stmts \ Present(doc) :
    /\ results[s] = Nothing /\ pending[s] = "none"
    /\ cur[s] = <<>> /\ last[s] = <<>> /\ dispatched[s] = <<>>

\* While the worker lives, a statement that counts as pending is owed an answer
\* that is still on its way: nothing waits for an answer already spent (the
\* comments on `pending` and in KernelWorker::run).
PendingIsOwed == alive => \A s \in Stmts : pending[s] # "none" => InFlight(s)

\* Once nothing is on its way for a statement, the value it displays is the
\* answer to the last request made for it, neither that of an earlier text nor
\* the probability of its condition.
QuietMeansLatest ==
  alive =>
    \A s \in Probs \cup Execs :
      /\ ~ InFlight(s) /\ results[s].kind = "value"
      => IF s \in Execs THEN results[s].of = asked[s].of
         ELSE <<results[s].of[1]>> = asked[s].of

\* A prob is evaluated against the definition its model had when it was asked,
\* however many edits were sent since, unless that definition was refused.
AnsweredAgainstItsModel ==
  \A i \in DOMAIN resps :
    LET a == resps[i] IN
    a.req.op = "probability" /\ a.kind = "value" /\ a.req.def \notin refused \cup {<<>>}
      => a.of[2] = a.req.def

\* As long as the front end goes on polling, every request is settled, by its
\* answer or by its loss.
Settles == []<>window => <>[]Idle

-----------------------------------------------------------------------------
(* What a comment promises and the code does not keep.                     *)

\* Once everything is answered, a value displayed as fresh is the value of the
\* document's current inputs (cur_hashes): for a prob, of the model with its
\* settings and of its own condition alone.
FreshMeansCurrent ==
  reqs = <<>> /\ resps = <<>> =>
  \A s \in (Probs \cup Execs) \cap Present(doc) :
    results[s].kind = "value" /\ ~ Stale(s) =>
      IF s \in Execs THEN results[s].of = Key(doc, {}, s)
      ELSE /\ s \notin Orphans(doc)
           /\ results[s].of = <<doc[s], Definition(doc, Bound(doc, s)),
                               {doc[s]} \cap Conditional>>
=============================================================================
