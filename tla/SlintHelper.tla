----------------------------- MODULE SlintHelper -----------------------------
(***************************************************************************)
(* The helper process that draws \slint widgets                            *)
(* (crates/mathed_slint_browser/src/main.rs), the worker thread that owns  *)
(* its pipes, and the two channels to the editor                           *)
(* (crates/mathed/src/slint_blocks.rs).  The worker writes one request and *)
(* reads its reply before it takes the next.                               *)
(*                                                                         *)
(* A frame is the id it was drawn for, the source, and the number of       *)
(* events the instance has seen.  A frame with nothing to draw, which a    *)
(* window just shown does not give, is left out.                           *)
(***************************************************************************)
EXTENDS Integers, Sequences

CONSTANTS
  Broken      \* sources that do not compile

VARIABLES
  worker,     \* up, gone, or absent: no helper was found at the one attempt to start it
  requests,   \* sent by the editor, not yet taken by the worker
  served,     \* the request at the helper, Nothing when it waits for one
  replies,    \* sent by the worker, not yet received
  instances   \* INSTANCE: the live widgets by id

helperVars == <<worker, requests, served, replies, instances>>

Nothing == [op |-> "nothing"]
Frame(id, source, events) == [kind |-> "frame", id |-> id, source |-> source, events |-> events]
Empty(id) == [kind |-> "empty", id |-> id]
Failed(id) == [kind |-> "failed", id |-> id]
IdList(ids) == [kind |-> "ids", ids |-> ids]

Without(f, x) == [y \in DOMAIN f \ {x} |-> f[y]]
With(f, x, v) == [y \in DOMAIN f \cup {x} |-> IF y = x THEN v ELSE f[y]]

\* SlintBrowserHandle.get starts the helper on first use; it does nothing until asked.
HelperInit ==
  /\ worker \in {"up", "absent"}
  /\ requests = <<>> /\ served = Nothing /\ replies = <<>> /\ instances = <<>>

\* The worker takes a request and writes it to the helper's stdin.
Take ==
  /\ worker = "up" /\ served = Nothing /\ requests # <<>>
  /\ served' = Head(requests) /\ requests' = Tail(requests)
  /\ UNCHANGED <<worker, replies, instances>>

Reply(r) == served' = Nothing /\ replies' = Append(replies, r)

\* create: a source that compiles replaces the instance of that id.
Create ==
  /\ served.op = "create"
  /\ IF served.source.text \in Broken
     THEN Reply(Failed(served.id)) /\ UNCHANGED instances
     ELSE /\ Reply(Frame(served.id, served.source, 0))
          /\ instances' = With(instances, served.id, [source |-> served.source, events |-> 0])
  /\ UNCHANGED <<worker, requests>>

\* handle_event: the instance sees the event, and its new frame is the answer.
Event ==
  /\ served.op = "event"
  /\ IF served.id \in DOMAIN instances
     THEN /\ instances' = [instances EXCEPT ![served.id] =
                              [source |-> @.source, events |-> @.events + 1]]
          /\ Reply(Frame(served.id, instances[served.id].source, instances[served.id].events + 1))
     ELSE Reply(Failed(served.id)) /\ UNCHANGED instances
  /\ UNCHANGED <<worker, requests>>

SlipDestroy ==  \* slip: it keeps drawing what the editor gave up
  /\ served.op = "destroy"
  /\ UNCHANGED instances
  /\ Reply(Empty(served.id))
  /\ UNCHANGED <<worker, requests>>

Destroy ==
  /\ served.op = "destroy"
  /\ instances' = Without(instances, served.id)
  /\ Reply(Empty(served.id))
  /\ UNCHANGED <<worker, requests>>

List ==
  /\ served.op = "list"
  /\ Reply(IdList(DOMAIN instances))
  /\ UNCHANGED <<worker, requests, instances>>

\* Every request but a key event: SlintBrowser::event sends a key's header and
\* its text without the newline that ends a header, and the helper goes on
\* reading a line that the worker, who waits for the reply, never ends.
Serve == Create \/ Event \/ Destroy \/ List

\* The helper dies, or a pipe breaks: run_worker ends.  It may find out only at
\* its next request, which then has no reply either.
Die ==
  /\ worker = "up"
  /\ worker' = "gone" /\ requests' = <<>> /\ served' = Nothing /\ instances' = <<>>
  /\ UNCHANGED replies
=============================================================================
