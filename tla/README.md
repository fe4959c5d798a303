# TLA+ models of velysterm

Specifications of the parts of velysterm in which several things happen at once,
fail half-way or survive a restart, with the TLC configurations that check them
and the TLAPS proofs about eleven of them. Paths below are relative to the
repository, `crates/` being `src/crates/` in `PROJECT.json`; line numbers are in
its `map`.

    tlasany M.tla                        parse a module
    tlc -config X.cfg M                  model-check (module and cfg per run below)
    tlapm M.tla                          check the proofs of a module

`PROJECT.json` lists the components, the runs, the source lines behind every
definition, a mutated definition for every property (`Slip...`, defined beside
the one it replaces, and which makes TLC find that property violated), the
disagreements found between code and comments, the hazards and the theorems.

## 1. The system

velysterm is an editor for documents that contain probabilistic models and the
questions asked of them, and a set of tools that let agents work on the same
kernel.

| Component | State it keeps | Operations | Hard behaviour |
|---|---|---|---|
| Organisation host (`kernel_client/org_runner.rs`, `coop_loop.rs`, `session.rs`) | worker slots with a loop record and an inbox each, claim ledger, board, session file | `spawn`, `step`, `deliver`, `post`, `expire_claims`, `tick` | restart and replay of claims, failed saves, claims expiring under a worker, nudges given twice |
| Agent server (`kernel_client/bin/unfer_agent.rs`) | models, a bounded event queue each, push outbox; bounded board with claims, messages, gate runs, conflicts beside it | NDJSON operations | queues that overflow, cursors of several consumers, flushes that fail, evidence that is too old |
| Event runner, checkpoint (`kernel_client/runner.rs`, `checkpoint.rs`) | a cursor file | `run_until_idle`, `load`, `store` | crash between two file system calls, loss of power, gaps in the log, a second writer |
| Kernel worker (`kernel_client/worker.rs`, `lib.rs`) | one session per model, request and answer channels | a handler per request, a panic boundary | FIFO against later edits, refused definitions, panics, death of the thread |
| Granted commands, Jupyter kernels (`kernel_client/exec.rs`, `stdio_driver.rs`, `jupyter_stdio.rs`) | a child process, its pipes, an audit trail | run one segment | deadlines, pipes that fill, descendants, kernels that stop reading |
| Kernel bridge (`mathed_mini/kernel_bridge.rs`) | results, hashes of current, displayed and dispatched inputs, pending requests | `refresh`, `run_block`, `clear_outputs`, `poll` | late answers, two requests under one key, lost answers, staleness |
| Raster memo store (`mathed_mini/memo.rs`) | rasters by slot, recency queue, byte count | `get`, `image`, `insert`, `remove`, `remove_site` | eviction in the middle of a frame, double counting |
| Document preview (`mathed_mini/app.rs`) | open state, compose job, memo store, last frame's fingerprint | key presses, a frame, the pass before sleeping | a compose that ends late, skipped pre-passes, an event loop that sleeps |
| Window of the mini editor (`mathed_mini/app.rs`, `render.rs`) | document, caret, a layout and an output region per block, media menu, references panel | keys, clicks, menu rows, a frame, `poll` | a frame that passes over a change, a caret placed from what was drawn earlier |
| Document, sync, conflicts (`mathed_core/doc.rs`, `sync.rs`) | CRDT text, its mirror, a revision; footprints by revision | edit, export, import, classify, truncate | packets lost, repeated, reordered; concurrent edits |
| Block index, update scheduler, Bevy frame (`mathed_core/blocks.rs`, `mathed/scheduler.rs`, `mathed/main.rs`) | block ids, dirty blocks, two deadlines, an entity per block | `update`, `note_blocks`, `take`, the systems of a frame | ids that move or are reused, debounce, blocks that leave |
| Slint client and helper (`mathed/slint_blocks.rs`, `mathed_slint_browser`) | instances, pipes, two channels | `CREATE`, `EVENT`, `DESTROY`, `LIST` | timeouts, replies that come after them, death of the helper |
| Presence (`mathed_core/sync.rs`, `mathed/presence_net.rs`) | peers with heartbeats, sockets | heartbeat, expiry | lost heartbeats, connection state |
| Markers, transform (`mathed_core/markers.rs`, `transform.rs`) | none, but for the offset map of each part rendered | scan, segments, blocks, text for Typst, lookups both ways | tokens hidden, raw, escaped and spliced at the same offsets |
| Other text algorithms (`mathed_core` semantics, search, format, ...) | none | pure functions | none beyond strings |
| Rest of the front ends, export, Skia, bibliography, benchmarks | front-end state | | the same bridge, driven from elsewhere |

How they interact: a front end owns a `MathDoc` and a `KernelBridge`. After an
edit it calls `refresh`, which scans the text into statements and *submits*
requests to the worker over a channel; later, for three seconds, it calls `poll`,
which *receives* answers from a second channel and files them by the
statement's offset. The worker runs execs and kernel cells as child processes
and waits for them. What is displayed is rendered into rasters kept in the memo
store, keyed by what they were made from; the document preview is composed by a
further thread. The Bevy editor instead keeps an entity per block, drawn at the
pace of a scheduler, and talks to a helper process about widgets. Documents of
several people exchange packets. Separately, agents run `OrgHost`s, or talk to
an agent server that owns kernels, a board and event queues; `EventRunner`s
consume an event log across restarts. `session.rs` and `checkpoint.rs` share
`atomic_write`; host and agent server share the claim ledger of
`unfer_protocol`.

What makes each component correct:

* host and server: overlapping scopes are never held by two workers, a claim
  always has a worker behind it, a worker that comes back after a crash either
  holds what it held or starts over, what was acknowledged is on disk, evidence is
  newer than the change it is about, nudges come once;
* event queues, runner and checkpoint: nothing twice, nothing passed over without
  a word, the checkpoint readable and never going back;
* worker and bridge: one answer per request, what is shown at rest is the answer
  to the last question, deleted statements stay deleted, nothing waits for ever;
* child processes: what is reported is what happened, nobody is left running, a
  request ends;
* memo store and preview: rasters under the key of what they were made from, no
  leak in the byte budget, the newest content shown in the end;
* window: what is drawn is what is there when nothing is left to redraw, the
  caret is in the text;
* text: whatever is typed, Typst is given a text it accepts, and the caret keeps
  its place through it;
* replicas: all have every edit in the end, a collision does not go unreported;
* Bevy editor and helper: a widget shows its own instance, instances end with
  their blocks, a frame ends whatever the helper does.

## 2. Modules

| Module | Models | Checked as |
|---|---|---|
| `LoopState` | the loop record of one worker and the pure functions on it (`coop_loop.rs`) | part of `OrgHost` |
| `ScopeLedger` | what a claim path promises: grants that exclude each other, taken back at will | abstract specification of `OrgHost` and `AgentBoard` |
| `OrgHost` | `OrgHost` with its session file, crash and restart | `MCOrgHost` |
| `AgentEvents` | event queues, polls and pushes of the agent server | itself |
| `ConflictTracker` | footprints and their history (`sync.rs`) as operators | part of the next two |
| `AgentBoard` | board, claims, messages, gate runs, patches, sync of the agent server | `MCAgentBoard` |
| `SyncPeers` | replicas that exchange packets | `MCSyncPeers` |
| `EventRunner` | `run_until_idle` over the file system calls of the checkpoint | itself |
| `KernelWorker` | the worker's loop and handlers over two FIFO channels | part of `KernelBridge` |
| `KernelBridge` | the bridge, composed with the worker | `MCKernelBridge` |
| `ExecSegment`, `StdioKernel` | one command; one kernel over stdio | parts of `ChildRuns` |
| `ChildRuns` | requests that start processes, one after the other, with their audit | itself |
| `MemoStore` | the store as a value with operators | part of `DocPreview` |
| `DocPreview` | preview, frame, event loop and compose worker over `MemoStore` | `MCDocPreview` |
| `MiniEditor` | the window: caret, layouts, regions, menu, frame | `MCMiniEditor` |
| `Markers` | markers, statements, segments, `split_blocks` on pieces of text | part of `Transform` |
| `Transform` | `to_render_text_range` and its offset map | part of `TextEditing` |
| `TextEditing` | a text that is typed, as three front ends render it | `MCTextEditing` |
| `BlockIndex` | `split_blocks` and `BlockIndex::update` as operators | part of `BevyEditor`, `MiniEditor` |
| `SlintHelper` | the helper, the worker thread that owns its pipes, two channels | part of `BevyEditor` |
| `BevyEditor` | the editor's frame over scheduler, block index and helper | `MCBevyEditor` |
| `OrgHostProofs` | proofs about `OrgHost`, `ScopeLedger` | `tlapm` |
| `AgentServerProofs` | proofs about `AgentEvents`, `AgentBoard`, `SyncPeers` | `tlapm` |
| `KernelClientProofs` | proofs about `ChildRuns`, `EventRunner` | `tlapm` |
| `KernelBridgeProofs`, `DocPreviewProofs`, `MiniEditorProofs` | proofs about the module they are named for | `tlapm` |
| `EditorProofs` | proofs about `BevyEditor` (with `SlintHelper`) and `TextEditing` (with `Markers`, `Transform`) | `tlapm` |
| `NaturalLemmas` | lemmas on least elements, induction up to a number and recursive functions | `tlapm` |

### OrgHost

`OrgHost` is one value behind `&mut self`, so each public call is one action and
a crash falls between actions. `step` is split by the step the worker is on
(`Gather`, `Idle`, `ClaimGranted`, `ClaimOverlaps`, `Act`, `EvidenceUnreadable`,
`EvidenceRefused`, `Merge`, and `Interrupt` for news in the middle of a turn);
each includes the drained inbox before and the save after. `Persist` saves a
batch, and any subset of it may fail; a damaged session file fails all of it. A
crash in the middle of a batch of saves is a batch in which the rest failed,
followed by `Crash`. The ledger (`unfer_protocol::coop`) is external: modelled as
`org_runner.rs` uses it, with the overlap rule a parameter (reflexive and
symmetric). Three history variables: `assigned` (the scope an instruction last
named), `told` (nudges whose giving reached the disk), `failedSave`.

Left out: statistics, presets, per-worker memory, texts of messages, the virtual
minute counter and the gathered cursor, which nothing reads back.

### AgentEvents

The server answers one request at a time, so each operation is one action, with
the drain of the outbox behind it a second one that the next request waits for
(`Idle`). Cursors number the events of all models together, so an event *is* its
cursor, and a queue, which only grows at the new end, the set of its cursors.
Operations on a model are what they add to its queue (`Produce`). `EventsPoll` is
a consumer that stores the cursor of the reply and polls from it. History:
`got`, `again`, `told`, `drained`, `reported`, `pushed`.

### ConflictTracker, AgentBoard

`ConflictTracker` is the arithmetic of ranges and the history of footprints, as
values with operators. `AgentBoard` has an operation per action: `BoardWrite`,
`AgentClaim` (which grants, or escalates), `AgentEscalate`, `AgentDm`,
`AgentDmTake`, `GateRecord`, `PatchSubmit`, `AgentNudge`, `SyncEdit`,
`SyncImport`. `Handle` is what `handle` does behind each of them: the flush of the
board's new entries, and the error reply when it fails, which leaves the
operation done and the entry off the disk. `Restart` brings back the board from
the file and nothing else. History: `written`, `acked`, `accepted`. The text of
entries, reads, and the board of a server without agents are left out.

### SyncPeers

A document is the set of operations its CRDT (external: a join) holds; the mirror
is that set as last read. An edit records a footprint, and sends everything the
replica holds, which is what `export` gives; `Deliver` classifies a packet, then
imports it. Packets stay in `sent`, so they may arrive late, twice, in any order,
or never. `Truncate` cuts the history. Offsets are not shifted by edits, as they
are not in the code: a footprint is compared as declared.

### KernelWorker and KernelBridge

The worker answers one request per action; an error, a denied grant and a panic
caught at the loop boundary are `Fail`; `Die` ends the thread. An answer carries
the request it settles and what it was computed from, so properties can compare
it with what was asked. The bridge's `refresh_with_index` and `run_block` are one
action each, with their passes (settings, models, probs, layout claims, execs, kernel cells) in
the code's order; `poll` is three: `StartPoll` (expiry of overdue requests),
`Receive` per answer, `EndPoll`, because the worker can answer while poll drains.
Time is one step per request, `Overdue`, which stands for 30 s.

Abstractions: a document gives each of a few offsets a text or nothing; one
statement is one block; what an offset holds and what it names or pipes from is
fixed per run; hashes are the inputs they are taken of, so what a hash omits is
omitted here; `\prior` and `\solver` are both settings of a model; a `\kernel`
cell is an exec that is sent in the pass behind the others and has no pipe (`Kernels`);
a layout verdict is synchronous. Not kept: translators'
errors, names, the run log.

### ExecSegment, StdioKernel, ChildRuns

`ExecSegment` is one child with two pipes that hold `Pipe` units: the caller
(spawn with its retries while the file is busy, poll, kill at the deadline, drain
to the end of the file), the thread that feeds stdin, the child, a descendant that
may keep the output pipe open, the deadline. `StdioKernel` is the driver of a real
kernel (send a request unit by unit, poll for the reply, give up at the deadline,
reap with a grace), the reader thread under the cap, and a kernel that reads,
publishes in any order that its protocol allows, publishes junk, stalls and exits as it
likes. `ChildRuns` serves requests one at a time: the gates, one of three
backends, the audit row, the answer. Framing and signatures are abstracted to
messages that are whole or junk; one message is one unit of the cap.

### EventRunner

The log grows (`Record`) and drops its oldest events (`Evict`). A runner has a
program counter through load, poll, handle (one event at a time), and the calls
of `store`: check, create, write, sync, rename. Names are separate from inodes,
so two writers that share the `.tmp` name, and a rename that moves whatever the
name stands for, come out as they would. `Crash` kills a process anywhere,
`PowerLoss` the machine: synced contents stay, of others any prefix, and the
directory may have the old name or the new. Cursors are written as digits because
a short cursor written over a long one leaves a tail. A reply that is truncated
at no event changes nothing and is not an action.

### MemoStore and DocPreview

`MemoStore` is a record of rasters, recency queue and byte count. `DocPreview`
applies it in the order the code does: a frame (`Redraw`) runs the memo pre-pass
unless its fingerprint says nothing moved, then draws, which itself memoises the
label and the error line; the pass before sleeping (`Wake`) polls the kernel,
drains the compose job, dispatches a new one when the editor is quiet, and
expires the status line. The compose worker ends its job or dies. The user edits,
runs a block, opens and closes the preview, the menu and the help, resizes and
switches focus. The kernel is reduced to answers owed, which make results stale
until they come. Of a result the preview's key sees what `Fingerprint` makes of it
(`result_fingerprint`), which need not tell two results apart. Two prefetch delays
are one flag, `quiet`. Not kept: HUD, template preview, input methods, counters of hits; caret, media menu, block layouts and
regions are in `MiniEditor`.

### MiniEditor

The window of the mini editor, which runs on one thread: each key, click, menu row
or answer is one action, and so is a frame (`Redraw`). A frame does nothing if its
fingerprint is that of the last one; else it leaves out the layout pass if
`can_skip_layout_pass` says so, and else lays out each block whose key changed, and
does the same for the regions of outputs. What is kept is the *key* a layout was
made under together with what the layout depends on beside the key (the place its
glyphs map to, whether a statement elsewhere styles it), so the model sees both
what the keys promise and what they omit. The caret moves by offset, by the glyphs
of a kept layout (`MoveByGlyph`), by a row of the media menu (`Jump`), to a segment
for accessibility (`GoToSegment`). The bridge is reduced to what it shows: results
by offset, offsets that wait, offsets whose result is of what is asked there now,
and the content version, which some changes leave as it was (`Unnoticed`). Which
statements an edit makes it ask again is any set of them. History: `silent` (such a
change is not followed by a noticed one), `misled` (the caret was put somewhere by
a layout or a row that is out of date).

Abstractions: a document is one of a few sequences of texts, and a text is its size
and what it contains (a result, a statement without one, a span, a statement
styling it, nothing drawn, an error); a block is one line of glyphs; a region that
has outputs compiles; `Fingerprint` and `Annotation` are what `result_fingerprint` and
`annotations_markup` make of a result, as lossy as the cfg makes them; a selection is
all or nothing; of two selections, undo, completion, search and the other menus
nothing is kept.

### Markers, Transform, TextEditing

A text is a sequence of *pieces*: letter, space, newline, `_`, `$`, `<`, backslash, a
marker, a whole statement; an offset is a place before a piece. `Markers` says which
of them are markers and statements (a backslash takes the next piece with it, a
letter joins an id), which part a statement is about, where blocks break, and which
part a caret opens. `Transform` follows `to_render_text_range`: it decides what is
hidden, shown, doubled or spliced (`Plan`), cuts the range into windows (`Bounds`)
and writes them one after the other (`Written`), with a span for each copy and one
of no length for each thing pinned; windows of one part that is written as a whole
write it once. What is written is a sequence of items, in which a backslash of the
document's and one of the transform's are different items. The two lookups are
`OffsetMap`'s. `TextEditing` types keys and moves the caret; the front end decides
the ranges and the options: Android the whole document with expansion and labels,
the Bevy editor each block with the caret as a point, the mini editor each block with
the opened part.

Abstractions: bold stands for every style, `_` for every mark Typst pairs,
`<` for both openers of labels and references, the result
of a prob for everything spliced behind a segment, one piece for each statement.
Figures, outputs of blocks, errors of translators, `show_hidden` and segment
selection are left out.

### BlockIndex, SlintHelper, BevyEditor

`BlockIndex` gives a block the id of an old one with the same range and hash, of
the first with the same hash that has not moved far, or a spare one, or a new one.
A hash is the text. `SlintHelper` takes a request, serves it with the
instance table it has, and replies; the worker thread writes one request and reads
one reply, and ends when the helper does (`Die`). `BevyEditor` runs the systems of
a frame in order: `sync_blocks` (`SyncDue`, `SyncReveal`, `SyncNothing`) under the
scheduler; `render_slint_blocks` block by block, each `CREATE` being a call that is
sent here and ends by `Receive`, `TimeOut` or `Disconnected`; the sweep, which is
a `LIST` and a `DESTROY` per id; `handle_slint_input`. A reply that is not the
awaited one is thrown away where `Ends` says so, so that replies of calls given up
are met by later calls. Keys edit, delete and move the caret before the frame.
Time is a choice: a bound of the scheduler has passed or not, a call has waited
`RENDER_TIMEOUT` or not.

Abstractions: a frame drawn is the id, the source and the number of events its
instance has seen; kinds of pointer events, pixels and geometry are left out;
a document is one of a few sequences of blocks.

## 3. Runs

| Run | Module, cfg | Question | Bounds |
|---|---|---|---|
| `org_host` | `MCOrgHost`, `MCOrgHost.cfg` | the host's safety properties and its refinement of `ScopeLedger` | 2 workers, 2 scopes, 2 lives, 2 board entries, 2 events |
| `agent_events` | `AgentEvents`, `MCAgentEvents.cfg` | delivery of events through queues and pushes | 1 consumer, 2 models, queues of 2, batches of 1, 4 events |
| `agent_board` | `MCAgentBoard`, `MCAgentBoard.cfg` | what survives, evidence, cursors, refinement of `ScopeLedger` | 2 workers, 1 scope, a board of 1 entry, 4 cursors, 1 run, 1 edit, 1 message, 1 restart |
| `sync_peers` | `MCSyncPeers`, `MCSyncPeers.cfg` | collisions reported, convergence | 2 replicas, 2 edits each, 3 footprints |
| `event_runner` | `EventRunner`, `MCEventRunner.cfg` | the checkpoint through crashes and loss of power, order, end of runs | 1 writer, 3 runs, 4 events, 1 loss of power |
| `bridge` | `MCKernelBridge`, `MCKernelBridge.cfg` | late answers, pending, latest value, model of an answer, settling | 2 acts, 1 fault, 12 documents |
| `bridge_setting` | `MCKernelBridge`, `BridgeSetting.cfg` | violated: `FreshMeansCurrent` | 2 acts, no fault |
| `child_runs` | `ChildRuns`, `MCChildRuns.cfg` | outcome, outputs, no child left, end of a request | 2 requests, pipes of 1, 2 units in and out, cap 3, 4 messages, 2 tries |
| `doc_preview` | `MCDocPreview`, `MCDocPreview.cfg` | store, keys, eviction, catching up | 3 user acts, 3 results with 2 fingerprints, 2 widths, budget of one raster per site, 1 death |
| `bevy_editor` | `MCBevyEditor`, `MCBevyEditor.cfg` | frames of instances, sweeps, end of a frame | 4 documents, 3 acts, 1 input, one block per fire |
| `mini_editor` | `MCMiniEditor`, `MCMiniEditor.cfg` | drawn is current, caret in the text | 8 documents, 8 texts, 2 widths, 4 acts, 2 answers, 3 results with 2 fingerprints |
| `text_transform` | `MCTextEditing`, `MCTextEditing.cfg` | caret through the transform, nothing left open for Typst | 5 documents, 7 keys, 2 typed, any caret, 3 front ends |

Why the bounds are enough for the questions asked:

* `org_host`: two workers are what a conflict takes; two lives make one restart
  with both workers' records on disk; two board entries allow a claim and its
  replay or an expiry between two claims. Symmetry permutes workers only, which
  no definition tells apart.
* `agent_events`: four events overflow a queue of two with the cursors of another
  model between them, and a batch of one leaves some behind; two models are one
  closed and one created under a new id. Consumers do not touch each other's
  state, and the proofs are for any number.
* `agent_board`: a board of one entry evicts at every write, so each comparison
  with what the board has forgotten is met; one restart separates two lives.
* `sync_peers`: two edits on each side are a history that can be cut in the
  middle and a packet that overtakes another; footprints overlap, touch or miss.
* `event_runner`: three runs give a restart after a restart; base 3 gives cursors
  of one and two digits; batches of one and two events stop in the middle.
* `bridge`: an answer to an earlier act overtaken by a later act needs two acts;
  a fault can be an error, a panic or the death of the worker. The documents
  contain each pair of texts between which something has to be sent again,
  dropped or kept.
* `child_runs`: a pipe of one fills at the second unit; two requests show what
  the first leaves behind; four messages are a reply early, late, twice or never,
  with outputs before and behind it, and one over the cap.
* `doc_preview`: three acts reach edit, open, edit while a compose is in flight;
  the budget holds one raster of each site and not the overlays of two widths, so a
  resize makes it evict, and evicting a wrong entry shows. Two of the three results
  have one fingerprint, so that a page of one of them stands for the other. The window
  begins at one of the widths, which no definition tells from the other.
* `bevy_editor`: three acts are a widget that comes, changes and leaves; its texts
  include a source that does not compile and a block with none; a block is moved
  and another takes its place; a firing budget of one leaves blocks for later.
* `mini_editor`: four acts and the frames between are an edit, a change of what is
  near it, a motion and an edit where it led; the documents have a block with a
  result, one without, one that is styled from another block, one that does not
  compile, one block and none, and texts that grow by a byte between them. Two answers
  are one that is noticed and one that is not, or two of one fingerprint.
* `text_transform`: two typed keys make a formula, an escape, a blank line, a run of
  spaces or a broken marker anywhere beside, in or behind the segment, statement or
  marker, and with the caret in each place; the five documents have each kind of
  statement, two statements on one segment, code inside of other code, and a formula,
  in which a `<` typed before its letter is a label opener.

`CHECK_DEADLOCK FALSE` is set everywhere: a bounded run stops when its bounds are
spent, and an idle editor, host, server or runner really does wait for its next
call. Each module's type invariant documents its
state; `OrgHostProofs` proves that of the host, and the other inductive invariants
begin with the types that their proofs need. The runs spend their properties on the
rest.

### Properties

* `org_host`: `ClaimsExclusive`, `ClaimsBacked` (no orphaned claim; `step` takes
  the first claim of a worker to be the only one), `RecordFaithful` (the session
  file against memory), `ResumeOnlyWhatIsHeld`, `NudgedOnce` (across restarts) and
  `ImplementsLedger`.
* `agent_events`: `EachOnce`, `NoSilentHole`, `Accounted`, `CatchesUp`.
* `agent_board`: `AckedSurvives`, `FreshEvidence`, `CursorsAgree`,
  `ImplementsLedger`.
* `sync_peers`: `OneSideReports`, `Converge`.
* `event_runner`: `NeverSkips`, `NeverTorn`, `InOrderFromCheckpoint`, `RunsEnd`.
* `bridge`: `NoGhosts`, `PendingIsOwed`, `QuietMeansLatest`,
  `AnsweredAgainstItsModel`, `Settles`.
* `child_runs`: `Honest`, `OutputsWhole`, `NobodyLeft`, `RequestEnds`.
* `doc_preview`: `StoreSound`, `NeverEvicted`, `CatchesUp` (with the text and with the
  fingerprints of the results, not with the results).
* `bevy_editor`: `OwnFrames`, `ShowsInstance`, `SweepsClean`, `FrameEnds`.
* `mini_editor`: `DrawnCurrent` (block layouts by the annotations of their results,
  regions by fingerprints only), `CaretInText`.
* `text_transform`: `CaretStays`, `Closed` (what the transform writes around the
  document's text it closes; what a formula holds is not judged).

Each is stated in words above its definition.

### Fairness

Liveness properties assume of the code's own threads that they run, and of time
that it passes; of users, children, kernels and helpers nothing is assumed unless
it is said here.

* `AgentEvents!CatchesUp`: the consumer keeps polling, and `main` writes the
  outbox behind each reply.
* `Converge`: of every replica the latest packet is imported in the end at every
  other; all others may be lost. That is what a transport that reconnects
  gives, and without it nothing could converge.
* `RunsEnd`: a runner that is neither killed nor stopped by an error goes on; the
  log is bounded, so it stops growing.
* `Settles`: the worker thread takes requests, time passes, a `poll` that started
  ends (all loops without waits). That `poll` is called again is not assumed but
  the premise, `[]<>window`: an editor stops polling after three seconds.
* `RequestEnds`: caller, driver and reader thread run and deadlines pass. A child
  may ignore its input, hold its output and never exit.
* `DocPreview!CatchesUp`: the event loop serves a requested frame and runs while
  anything can wake it, the compose worker ends, time passes. Frames and wakes are
  given as the `[]<>` consequences of their weak fairness (`ServesFrames`,
  `Runs`), the clock as strong fairness because redraws may go on beside it.
  Nothing is assumed of the user, and without focus only an event, the poll window
  or a job wakes the loop, as in `about_to_wait`.
* `FrameEnds`: the editor's thread runs and a wait is over when its timeout is
  (`EditorFair`); nothing is assumed of the helper.

## 4. What does not hold

One disagreement is a run that TLC ends with a counterexample, and a finding in
`PROJECT.json` with the comment it is measured against:

* `FreshMeansCurrent`: a changed prior or solver does not make the probs of its
  model be asked again, and they are not stale.

Others come out of the same models, and are named here with the place where
each is modelled:

* The Slint client sends the header of a key event without the newline that the
  helper's `read_line` waits for, so neither it nor any later request is answered
  (`SlintHelper`, `BevyEditor`).
* A document that was just loaded, or an edit that leaves the caret where it was,
  marks no block as dirty, so the scheduler fires nothing and the change is not shown
  (`BevyEditor!SyncNothing`).
* `expire_claims` frees a scope under a worker that goes on working on it, and a
  peer is granted it (`OrgHost!ExpireClaims`).
* `events_poll` takes a hole in the cursors for a gap although the missing
  numbers are another model's, and a gap report ends an `EventRunner`
  (`AgentEvents!Gap`).
* Of two colliding edits only one side may report the other, where a test of
  `sync.rs` has both do (`ConflictTracker!Since` compares a packet's base with
  the receiver's own revisions); `OneSideReports` says what is kept.
* The documents of `export_delta` (`sync.rs` 3 and 24) promise the operations since the
  last export; the code (28) sends all updates each time, and `Converge` holds because
  of that. Its mutant, `SlipExported`, is the documented behaviour: with it a packet that
  is lost is lost for good, although each replica goes on sending.
* `import_delta` changes the text and leaves the revision, by which front ends
  recognise a changed text, as it was (`SyncPeers!Import`).
* The answer to a prob's condition settles the prob, so `is_idle` says everything
  was answered too early; the error of a prior or solver stays after it was
  corrected; settling a model's request changes staleness without moving
  `content_version` (`KernelBridge!Receive`, `Refresh`).
* Two writers on one checkpoint can take it back: `store` compares and replaces
  in two steps (`EventRunner`, `Writers` with two members). Two host processes on one
  session file lose each other's records the same way.
* `result_fingerprint` has a table by the length of its text and payloads, an error by
  its name and the length of its message, and a value to six decimals. Its comment
  (`app.rs` 265–272) has it that a difference in the rendered figure is detected
  because the head of a payload is hashed; the code hashes no payload. A result that
  differs from the one before it and is as long is therefore not composed again, and
  its page stays (`DocPreview!Key`, `Fingerprint`), nor is its output region drawn again,
  where a comment calls the key precise (305–310; `MiniEditor!RegionKey`). The
  annotation beside the statement has a picture in full and does follow it, so the two
  can show different results. `CatchesUp` and `DrawnCurrent` claim fingerprints.
* The preview's key leaves out which blocks are stale, although its comment
  (1252–1256) counts the banners among what the page consumes, and an error of the preview can outlive
  the page that caused it (`DocPreview`).
* A command whose descendant keeps the pipe open holds its caller beyond every
  deadline (`ExecSegment!Finish`), and a kernel that stops reading holds the driver
  in `write_all` (`StdioKernel!WriteUnit`): the two exceptions that `RequestEnds`
  names.
* A source read by the range of an outdated index, after a deletion ahead of the
  caret, is out of bounds (`BevyEditor!RenderPanics`, phase `panicked`).
* In the mini editor (`MiniEditor`):
  * a document just opened is blank until the first edit, because nothing updates
    the block index before it; opening the references panel does, but the idle
    frame draws nothing new;
  * `block_layout_key` ("never a stale raster", `app.rs` 347) leaves out where the block
    lies and what statements elsewhere say of it: after an edit in an earlier block the
    later ones keep glyph maps with the old offsets, and a span styled from another
    block keeps its look; two blocks of one text can share an id, and with it a layout;
  * a click, an arrow or a row of the media menu then puts the caret where something
    used to be, which can be beyond the end of the text, and the next use of the
    caret slices it and panics: `CaretInText` holds only until the caret was `misled`;
  * a change that `poll` does not report (a model settled, an expiry where a result
    was) is not drawn until something else is (`Unnoticed`);
  * read along with it and not modelled: Enter in the kernel menu runs the row's block
    by its old offset (1657), popups are anchored by the last frame's offsets (1782),
    `place_caret_from_cursor` passes the window's y on (1862), `show_hidden` toggles
    (837) and reaches no option.
* In the transform (`Transform`):
  * a result, label or title that belongs inside of a formula or code shown raw comes
    after all of it, and code that begins there is copied a second time, so that the
    spans are neither sorted nor apart, which `transform.rs` 32 says they are
    (`Overtakes`, the exception in `CaretStays`);
  * a backslash before a newline escapes the break that is written for it, so that the
    newline is not "a real line break" (around 224), and one at the end of styled text
    escapes its closing bracket; a `$` in a literal of a statement that is shown is not
    escaped by `emit_escaped`, and then a `_` after it is read as a mark too (the
    exceptions in `Closed`);
  * a label or reference opener (`<` or `@` before a letter) is escaped in plain text and
    in tokens that are shown, since, as `is_label_or_ref_opener` says (1281–1290), an
    unclosed one failed the whole compile; `emit_revealed_math_span` (1441), which
    writes the same text when the caret is in a formula, does not escape it. Nor is one
    escaped before a token that is hidden, because each copy looks at its own range only
    and the letter comes behind the token (`RawMath`, `Openers`; `LeftBare`, the exceptions
    in `Closed`);
  * a formula that stays a formula is copied as it is: a `$_$`, which Typst refuses, goes
    to it as typed. `Closed` says nothing of what a formula holds;
  * newlines in a formula that is shown raw are copied as they are, and code that spans
    a blank line is written in every block it overlaps;
  * `engine.rs` 335 says that the mini editor passes `expand`; `app.rs` passes only
    `reveal`, so markers around opened code are shown there (`Options`).
* A late reply for the same id is taken for the answer to a later call
  (`BevyEditor!Receive`); `ShowsInstance` therefore holds until some call has
  timed out, `OwnFrames` always.

## 5. What is proved

Everything below holds for every value of the constants that the named assumption
of the module allows: any finite number of workers, any overlap rule that is
reflexive and symmetric, any capacity, batch, pipe or cap.

`OrgHostProofs` (`OrgAssumption`, `NudgeAssumption`):

* `TypeCorrect`, `Exclusive`, `Backed`: `[]TypeOK`, `[]ClaimsExclusive`,
  `[]ClaimsBacked`;
* `Resumes`: the action property `ResumeOnlyWhatIsHeld`;
* `Implements`: `OrgHost` refines `ScopeLedger` under `held <- Held`.

All rest on `Inductive`, `Spec => []IInv`. The claims alone are not inductive: a
restart replays scopes from disk, so records of workers that are not running have
to be constrained as well. `DiskBacked` says that a record names at most one
scope, and one only with a loop saved past Claim. With it a replay gives a worker
at most one claim, and gives it only to a loop that stays past Claim, which keeps
`ClaimsBacked`; `ClaimsBacked` gives a worker that claims no earlier claim, and
makes every record saved later satisfy `DiskBacked`; `ClaimsExclusive` follows from
the conflict check at each claim, in both directions by the symmetry of the
overlap rule. The proof has a lemma per action or group of actions and one for
the save they share. For the refinement, a claim or a replay is one `Grant`
(`GrantMaps`), and every other step only removes claims.

* `LedgerExclusive`: under a symmetric overlap rule, `ScopeLedger` keeps two workers
  off overlapping scopes, which by `Implements` and `ClaimsImplementLedger` is what
  the host and the agent server inherit.
* `Faithful` and `Nudged`: `[]RecordFaithful` and the action property `NudgedOnce`,
  from the invariant `SInv`. A worker whose last save succeeded has its loop and
  scopes on disk; `Remembered` adds that a nudge whose giving reached the disk is
  noted in the loop that runs *and* in the record a restart begins with, so that
  neither a later save nor a crash brings it back.

In `AgentServerProofs`, of the board (`AgentBoardAssumption`): `AckedSurvivesAlways`,
`FreshEvidenceAlways`, `CursorsAgreeAlways` and the refinement
`ClaimsImplementLedger`, from `BoardInductive`. The idea is *coverage*: a set of
entries covers an entry when it has it or has `Capacity` newer ones. `Newest`, the
eviction, keeps what it is applied to covered, so coverage survives evictions,
flushes that fail in part, and replays, where presence itself does not; that an
entry acknowledged on disk is covered by the file, and the file by the board,
gives the first theorem. Evidence is compared with a base that the board may have
evicted: the invariant says that the cursor found is at most that of the worker's
newest entry, and none is found only when everything it wrote is evicted, which is
refused. The cursors need that no two things ever share one.

Of the event queues (`AgentEventsAssumption`): `EachOnceAlways`,
`NoSilentHoleAlways`, `AccountedAlways`, `PushedInOrderAlways`, from
`EventsInductive`. `LostIsOlder` is the strengthening: what a queue has lost,
other than by a destructive poll, is older than everything it holds, so a batch
taken from the old end skips only what the gap test sees. `Accounted` is counted
by cardinalities, with lemmas for an event that is added, evicted or drained.

Of the replicas (`SyncPeersAssumption`): `OneSideIsTold`, `[]OneSideReports`, for any
number of replicas, edits and footprints. `Since` joins the footprints behind a
packet's base into ranges, so what has to be shown first is that joining loses
nothing: a footprint in the joined part of the history is covered by a range of the
result, and ranges that cover colliding footprints collide. `PeersInv` says that a
replica's revision counts the same edits as its tracker (`InStep`), that the history
has the footprint of every packet that is still retained (`OnTrail`), that what was
delivered is in the document (`Arrived`), and that a packet was reported where it
arrived after an edit of no smaller revision that it collides with (`Told`); which of
two sides that is follows from comparing their revisions.

`KernelClientProofs`, of `ChildRuns`: `HonestAlways`, `NobodyLeftAlways`, from
`RunsInductive`: between the end of the poll and the end of the output the child has
ended, and every unit written is in the pipe or captured. `OutputsAreWhole`,
`[]OutputsWhole`, from `OInv`: what the driver passed over and what it has not looked
at are the last stretch of what the reader took (`InHand`), and behind the reply a
kernel publishes nothing of the segment (`Ordered`), so that a reply that is found
has every output of its segment before it, in the driver's hand.

Of `EventRunner`, from `RunnerInv`: `TypeCorrect`, `ResumesWithoutSkipping`
(`[]NeverSkips`), `ReadableAfterPowerLoss` (`[]NeverTorn`) and `HandedOutInOrder` (the
action property `InOrderFromCheckpoint`), for any log, batch, base of digits and
number of crashes and losses of power. They have `OneWriter` as their hypothesis, that
`Writers` has one member at most: with two it is false that the checkpoint never goes
back, which is the hazard at `checkpoint.rs` 119. `Files` is what a rename relies on:
what the directory names, or may name after a loss of power, is synced and holds a
number up to which every event was accepted, and the temporary name is another file.
That the digits of a number are read back as that number (`ReadsBack`) is proved for
every number and every base.

`EditorProofs`, of `BevyEditor`: `OwnFramesAlways`, `ShowsInstanceAlways`, `SweepsCleanAlways`,
from `EditorInductive`. Whose frame a widget shows is inductive as it stands. That
it shows its instance as it is needs that, until a call has timed out, the two
channels, the worker and the helper together hold exactly the request the editor
waits for or its reply, and nothing when it waits for none. The sweep needs what
the reply to a `LIST` says of the instances, through the `DESTROY`s that follow.

Of the text (`PiecesAssumption`, `StmtsAssumption`, `TextsAssumption`, `KeysAssumption`,
`MaxTypedAssumption`): `TextIsTyped`, `CaretIsWhereItIsDrawn` (`[]CaretStays`) and
`NothingIsLeftOpen` (`[]Closed`), for any markers, statements, documents, keys and number of
them typed. The caret part has three layers:

* Of the two lookups of the offset map, for any spans at all that are in order and
  drawn as they are (`DocLookup`, `OutLookup`, `DrawnInOrder`, `BackAgain`): a place is
  drawn no later than a later one, and there and back passes nothing copied.
* Of writing: `Tidy(w, p, done)` says that the spans of `w` are in order, copy what is
  in the text, end by `p`, and that every backslash that was added is pinned to what
  follows. Each way of writing keeps it and moves `p` on, and so does each window,
  and the loop over the windows (`WrittenTidy`).
* Of the plan: every part of it lies in the range (`PlanFits`), its bounds are in
  order and windows lie between two of them (`BoundsPlace`, `Layout`), formulas and code
  that are shown raw are apart (`PartsApart`), and what is spliced in lies at a bound
  (`SplicesFit`), unless one of them overtakes. `BlockPlace` is for the ranges: a block
  begins and ends in the text with something that is shown.

That nothing is left open in what is drawn (`Closed`) has four:

* Of reading: what is read after one item more is `ReadItem` of what was read before it
  (`ReadMore`), and an offset is escaped just if a backslash that is not stands before it
  (`EscapedNext`). `Calm` says that nothing is wrong with what is read so far, and, until a
  statement with a `$` is written, in a formula just if the writer should be.
* Of writing: each way of writing keeps it, provided that no backslash of the document's
  is read last where something of the transform's comes next, or a blank does (`Sound`,
  `Reads`; `CopyAllReads`, `FencedReads`, `SpacesReads`, `SplicedReads`).
* Of the plan: tokens, formulas and blocks are not cut between a backslash and what it
  escapes, so at each bound only a blank is escaped (`BoundsFair`, `BlockRounded`); each `$`
  that nothing escapes is in a token, stray, or one end of just one formula (`Paired`,
  `PairsApart`, `DollarIn`); each marker that nothing escapes is a token (`MarkIn`).
* Of the windows: `Clean(t, plan, o, w, b)`, the invariant of the loop, says of what is
  written up to bound b that it is sound, that a label is open only if the document has
  an opener that is left bare (`LeftBare`), that otherwise a `<` is read last only where the
  document has one before b that was written by the window itself, and no token parts
  one from its letter (`Angled`, `Parted`), that one is in a formula just where the document
  is in one that is not shown raw (`InFormula`), and that a backslash is read last only if
  it escapes what is at b and what is before b was written by the window itself
  (`WindowClean`, `WindowsClean`).

The proof needed the first two exceptions that `Closed` makes: an earlier form, which TLC found no
fault with, left out that a statement with a `$` that is shown turns a later `_` into a mark.

`KernelBridgeProofs` (`BridgeAssumption`: offsets are positive, and a statement is
of one kind): `NoGhostsAlways`, `PendingIsOwedAlways`, `QuietMeansLatestAlways`,
`AnsweredAlways`, from `BridgeInvariant`, for any statements, documents and number
of edits and faults. Two ideas carry it. `Way` is the queue of answers followed by
the queue of requests: an answer of the worker leaves it as it is, a poll takes its
oldest and a batch comes behind it. `LastAsked` says that the last entry of a
statement on the way is what it asked last, and no condition; so an answer with
nothing behind it is the answer to the last request. `Stands` says what definition
a model will have once the first n requests are served; a prob in the queue stands
behind the definition it was asked of (`Chain`), since the hash of a model is that
of the definition that the worker has or will have (`Sent`), and that of the
document (`Defined`), until one is refused. A batch is ordered by rank
(`InTurnOrders`), which puts definitions before probs and a condition before its
prob (`RequestsBatch`).

`DocPreviewProofs` (`CapAssumption`, `BytesAssumption`: rasters have a number of
bytes):

* `StoreNeverLeaks`, `[]StoreSound`. `StoreInv` says that the queue lists each
  stored slot once and that the byte count is the sum of what is stored (`Whole`), and
  that only a lone raster is over budget. The sum is over a set, so the lemmas say what it
  becomes with one slot more (`BytesOfMore`) and without some (`BytesOfSplit`);
  `RetainedKeeps` and `EvictedKeeps` are the queue's and the eviction loop's.
* `FramesFindTheirRasters`, the action property `NeverEvicted`, for a budget that is
  `OneOfEach`. `GuardInv` says that between two frames the store guards what the last
  one drew (`Guards`): it is stored, and behind it in the queue there is only what one
  frame looks up. An eviction that came to one of the guarded would have left nothing
  but that, which fits, so the loop stops before it (`EvictedGuards`). A frame that
  leaves the pre-pass out touches nothing, which is why the guard has to outlast what
  the worker files (`PageFound`). The proof showed a blank that the runs are too short
  for: a page of earlier content is evicted by the lines that a frame draws under its
  error, the preview is closed and opened again, and the next frame leaves the pre-pass
  out. It takes nine acts; the property names it.

`MiniEditorProofs` (`TextsAssumption`):

* `CaretStaysInText`, `[]CaretInText`, from `CaretInv`: the index is of the document
  since the first edit (`IndexKept`), and the rows of an open menu are of an earlier
  revision or lie in the document (`RowsKept`). A hit on a layout that is of its
  block is in the text because a place is the sum of the sizes before it
  (`StopInText`), which an edit of the block itself does not move (`SameStart`).
* `DrawnIsCurrent`, `[]DrawnCurrent`, from `DrawnInv`. What `DrawnCurrent` says of the
  moment when nothing is left to redraw says nothing of the steps before it, so the
  invariant says of which revision, version and width each kept thing is: none is newer
  than what there is now, the last layout pass, the last region pass and the last frame
  are of the same (`OfOnePass`), the scan and the annotations are of the document and the
  results they claim to be of (`ScanKept`, `NotesKept`), and while revision and version
  are still those of the last frame, layouts and regions are what that frame's width
  and caret made (`FrameFits`). A frame that leaves the layout pass out then finds no
  reveal in the last frame and none now. For the regions the key is all that is claimed:
  the proof says nothing of `Fingerprint`, which may make one thing of all results.
  `LaidOutFits` and `RegionsMade` are the two loops over the blocks; `UpdateKeepsIds` says that an index made anew of the same
  document is the same.

`NaturalLemmas` has what the proofs about oldest and newest, and about loops over a
sequence, rest on, from the well-foundedness of the naturals. An induction theorem
whose hypothesis is an operator cannot be instantiated by the provers; `StepByStep` is
induction up to a number for a *set*, and `Solved` and `Iterated` say that a recursive
function whose step is given as a function exists, which is what an equation for a
function defined by recursion (`Retained`, `Start`, `LaidOut`, `CoalescedAll`, `Digits`) is
derived from.

Only model-checked: liveness under fairness (`Settles`, `RunsEnd`, `Converge`,
`RequestEnds`, `FrameEnds` and both `CatchesUp`), which is beyond the proof system's
reach.

## 6. Not modelled

* The text algorithms of `mathed_core` beside markers, blocks and the transform
  (`semantics.rs`, search, tables, ...) and everything that formats or draws
  (`export.rs`, menus, translators, Skia, bibliography): functions from strings to
  strings or pixels that keep nothing between two calls. They are a large part of
  the lines of the repository; a model of them would spell strings out.
* Of `unfer_agent.rs`: the operations on models beyond the events they produce,
  on organisations (which call `OrgHost`), durable storage and DIDs, and the
  parsing and printing of requests.
* Of `app.rs`: partial selections, undo, input methods, search, completion, the cite
  and kernel menus, the template preview.
* Of `main.rs` of the Bevy editor: caret motion, selection, menus, saving, and the
  bridge behind it. Of the Android front end: all but what its engine
  asks of the transform.
* Presence heartbeats and the TCP transport of `presence_net.rs`.
* The inside of the kernel, the CRDT and the ledger: external crates. The archived
  GPU crates, benchmarks and argument parsing.

Hazards without a property carry the reason in `PROJECT.json`.

## 7. What is left

1. `Presence`: heartbeats over a lossy channel, expiry, connection state.
2. Undo and partial selections of the mini editor; figures and block outputs of the
   transform.
