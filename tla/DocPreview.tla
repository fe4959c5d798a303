------------------------------ MODULE DocPreview ------------------------------
(* The raster preview of the whole document (Ctrl+R) in mathed_mini app.rs: *)
(* an overlay whose raster is composed either at once, inside a frame, or   *)
(* by a worker thread from a snapshot, and kept in the MemoStore beside the *)
(* rasters of the other overlays.  Three things run on their own: the user, *)
(* the event loop (a frame, or the pass before it sleeps) and the worker.   *)
EXTENDS MemoStore

CONSTANTS
  Texts,        \* document texts
  Unrendered,   \* those of which no block renders: composing them fails
  Outs,         \* the kernel results a document shows
  NoOut,        \* the results before any answer
  Fingerprint,  \* result_fingerprint: what of the results is in the memo key
  Widths,       \* window widths
  FirstWidth,   \* that of the window when it is created
  Bytes,        \* raster sizes, by site
  MaxActs,      \* how often the user acts
  MaxOwed,      \* how many kernel answers one act can bring
  MaxDeaths     \* how often the worker dies without an answer

ASSUME UnrenderedAssumption == Unrendered \subseteq Texts
ASSUME OutsAssumption == NoOut \in Outs
ASSUME WidthsAssumption == FirstWidth \in Widths

Sites == {"doc_preview", "doc_preview_label", "doc_preview_err", "kernel_menu", "help",
          "status_flash"}

ASSUME BytesAssumption == Bytes \in [Sites -> Nat]

\* The preview renders at a fixed width: its slot's width is 0.
ASSUME SlotsAssumption == Slots = Sites \X (Widths \cup {0})

Doc == <<"doc_preview", 0>>

\* What the composition reads: the text and the results.  (It also marks the
\* stale ones: whether it does is in no key, and left out.)
Contents == [text : Texts, out : Outs]

VARIABLES
  store,      \* memo_store
  content,    \* the document and what the kernel bridge holds of it
  owed,       \* answers the kernel worker has yet to give
  polling,    \* kernel_deadline: "shut", "open", or "due" once it has passed
  quiet,      \* the last edit is long enough ago for a prefetch
  view,       \* doc_preview: "closed", "ok" or "err"
  menu, help, \* the kernel menu (closes the preview) and the help overlay
  flash,      \* the status line that reports on an overlay just closed
  wanted,     \* preview_wanted
  job,        \* preview_job: none, or its dispatch_key, its snapshot and state
  width,
  focused,
  moved,      \* the document or the bridge content moved since the last frame
  lastUi,     \* what ui_fingerprint saw of the overlays and the width then
  redraw,     \* a redraw is requested
  event,      \* an event was handled since the event loop last went to sleep
  shown,      \* what the last frame drew of the preview
  blank,      \* overlays the last frame had to draw and had no raster for
  acts, deaths

docVars == <<content, owed, polling, quiet>>
uiVars == <<view, menu, help, flash, wanted, width, focused>>
frameVars == <<moved, lastUi, redraw, shown, blank>>
vars == <<store, docVars, uiVars, job, frameVars, event, acts, deaths>>

\* doc_preview_key.  Not all of a result is in it: a value counts to six decimals,
\* a table by the lengths of its text and payloads, an error by its name and the
\* length of its message.
Key(c) == <<c.text, Fingerprint[c.out]>>

NoKey == <<>>
NoJob == [state |-> "none"]
Fails(c) == c.text \in Unrendered

DocRaster(key, c) == [key |-> key, of |-> c, bytes |-> Bytes["doc_preview"]]

\* The raster of an overlay whose markup is fixed.
Markup(site) == [key |-> NoKey, of |-> site, bytes |-> Bytes[site]]

Ui == <<menu, help, view # "closed", width>>

Nothing == [what |-> "nothing"]

Init ==
  /\ store = EmptyStore
  /\ content \in Contents /\ content.out = NoOut /\ owed \in 0..MaxOwed
  /\ polling = "open" /\ quiet = FALSE
  /\ view = "closed" /\ menu = FALSE /\ help = FALSE /\ flash = FALSE /\ wanted = FALSE
  /\ job = NoJob
  /\ width = FirstWidth /\ focused = TRUE
  /\ moved = TRUE /\ lastUi = <<>> /\ redraw = TRUE /\ event = TRUE
  /\ shown = Nothing /\ blank = {}
  /\ acts = 0 /\ deaths = 0

-----------------------------------------------------------------------------
(* Dispatching a compose.                                                  *)

\* dispatch_doc_preview_job, for a store s, a content c, a poll window and a
\* job: the snapshot and its key are taken together.
Dispatched(s, c, window, j) ==
  IF j = NoJob /\ window = "shut" /\ ~ Hits(s, Doc, Key(c))
  THEN [state |-> "composing", key |-> Key(c), of |-> c] ELSE j

\* The store after the lookup that it begins with.
LookedUp(s, c, window, j) ==
  IF j = NoJob /\ window = "shut" /\ Hits(s, Doc, Key(c)) THEN Got(s, Doc) ELSE s

-----------------------------------------------------------------------------
(* What the user does.                                                     *)

Act ==
  /\ acts < MaxActs /\ acts' = acts + 1
  /\ redraw' = TRUE /\ event' = TRUE
  /\ UNCHANGED <<lastUi, shown, blank, deaths>>

\* The kernel is asked anew.
Asked(text, out) ==
  /\ owed' \in 0..MaxOwed
  /\ content' = [text |-> text, out |-> out]
  /\ polling' = "open"
  /\ moved' = TRUE

\* Some results may be dropped, or answered, as soon as the text changes.
Edit(text, out) ==
  /\ Act
  /\ text # content.text
  /\ Asked(text, out)
  /\ quiet' = FALSE
  /\ UNCHANGED <<store, uiVars, job>>

\* A block is run by hand, which is no edit.
Run ==
  /\ Act
  /\ Asked(content.text, content.out)
  /\ UNCHANGED <<store, quiet, uiVars, job>>

AllWidths(site) == {site} \X Widths

\* The label and the error line go with the overlay.
Closed(s) == RemovedAll(s, AllWidths("doc_preview_label") \cup AllWidths("doc_preview_err"))

\* report_overlay_memo_ratio: silent when nothing was looked up since the last.
Reports == \E f \in {flash, TRUE} : flash' = f

\* Closed by Ctrl+R, which reports, or by Esc, which does not.
Close ==
  /\ Act
  /\ view # "closed" /\ view' = "closed"
  /\ store' = Closed(store)
  /\ Reports
  /\ UNCHANGED <<docVars, menu, help, wanted, width, focused, job, moved>>

\* A stale raster at hand is shown while the worker composes the next.
Open ==
  /\ Act
  /\ view = "closed" /\ view' = "ok"
  /\ menu' = FALSE
  /\ wanted' = TRUE
  /\ IF Has(store, Doc)
     THEN /\ job' = Dispatched(store, content, polling, job)
          /\ store' = LookedUp(store, content, polling, job)
     ELSE UNCHANGED <<job, store>>
  /\ UNCHANGED <<docVars, help, flash, width, focused, moved>>

OpenMenu ==
  /\ Act
  /\ ~ menu /\ menu' = TRUE
  /\ view' = "closed"
  /\ UNCHANGED <<store, docVars, help, flash, wanted, width, focused, job, moved>>

\* Closed by Ctrl+K, which reports, or by Esc, which frees the preview's lines.
CloseMenu ==
  /\ Act
  /\ menu /\ menu' = FALSE
  /\ \/ Reports /\ UNCHANGED store
     \/ UNCHANGED flash /\ store' = Closed(store)
  /\ UNCHANGED <<docVars, view, help, wanted, width, focused, job, moved>>

ToggleHelp ==
  /\ Act
  /\ help' = ~ help
  /\ IF help THEN Reports ELSE UNCHANGED flash
  /\ UNCHANGED <<store, docVars, view, menu, wanted, width, focused, job, moved>>

Resize(w) ==
  /\ Act
  /\ width' = w
  /\ UNCHANGED <<store, docVars, view, menu, help, flash, wanted, focused, job, moved>>

Focus ==
  /\ Act
  /\ focused' = ~ focused
  /\ UNCHANGED <<store, docVars, view, menu, help, flash, wanted, width, job, moved>>

UserActs ==
  \/ \E text \in Texts, out \in Outs : Edit(text, out)
  \/ Run
  \/ Open
  \/ Close
  \/ OpenMenu
  \/ CloseMenu
  \/ ToggleHelp
  \/ \E w \in Widths \ {width} : Resize(w)
  \/ Focus

-----------------------------------------------------------------------------
(* A frame.                                                                *)

Memoised(s, slot, raster) ==
  IF Hits(s, slot, raster.key) THEN Got(s, slot) ELSE Inserted(s, slot, raster)

WithOverlay(s, open, site) ==
  IF open THEN Memoised(s, <<site, width>>, Markup(site)) ELSE s

\* ensure_doc_preview_raster: a raster of earlier content stays on screen for
\* the worker to replace; only when there is none is one composed at once.
Ensured(s) ==
  IF view = "closed" THEN [store |-> s, view |-> view]
  ELSE IF Hits(s, Doc, Key(content)) THEN [store |-> Got(s, Doc), view |-> "ok"]
  ELSE IF Has(s, Doc) THEN [store |-> s, view |-> view]
  ELSE IF Fails(content) THEN [store |-> Removed(s, Doc), view |-> "err"]
  ELSE [store |-> Inserted(s, Doc, DocRaster(Key(content), content)), view |-> "ok"]

\* The memo pre-pass, skipped when nothing it reads has moved.
Prepared ==
  LET overlays == WithOverlay(WithOverlay(store, menu, "kernel_menu"), help, "help")
      p == Ensured(overlays)
  IN IF ~ moved /\ lastUi = Ui /\ ~ flash THEN [store |-> store, view |-> view]
     ELSE [p EXCEPT !.store = WithOverlay(@, flash, "status_flash")]

\* What the drawing itself still memoises: the label and the error line.
DrawnStore(p) ==
  LET labelled == WithOverlay(p.store, p.view # "closed", "doc_preview_label") IN
  WithOverlay(labelled, p.view = "err", "doc_preview_err")

Drawn(p, s) ==
  CASE p.view = "ok" /\ Has(s, Doc) -> [what |-> "raster", key |-> s.memos[Doc].key,
                                        of |-> s.memos[Doc].of]
    [] p.view = "err"               -> [what |-> "error"]
    [] OTHER                        -> Nothing

Redraw ==
  /\ redraw /\ redraw' = FALSE
  /\ event' = TRUE
  /\ LET p == Prepared
         s == DrawnStore(p)
         \* the menu is drawn before the label is memoised, help after it
         due == {<<menu, "kernel_menu", Has(p.store, <<"kernel_menu", width>>)>>,
                 <<p.view = "ok", "doc_preview", Has(s, Doc)>>,
                 <<help, "help", Has(s, <<"help", width>>)>>,
                 <<flash, "status_flash", Has(s, <<"status_flash", width>>)>>}
     IN /\ store' = s
        /\ view' = p.view
        /\ shown' = Drawn(p, s)
        /\ blank' = {o[2] : o \in {d \in due : d[1] /\ ~ d[3]}}
  /\ moved' = FALSE
  /\ lastUi' = Ui
  /\ UNCHANGED <<docVars, menu, help, flash, wanted, width, focused, job, acts, deaths>>

-----------------------------------------------------------------------------
(* The pass before the event loop sleeps (about_to_wait).                  *)

\* layout_width: the width of the last frame.
LayoutWidth == IF lastUi = <<>> THEN 0 ELSE lastUi[4]

\* An answer of the kernel is taken in while the poll window is open.
Polled ==
  \/ UNCHANGED <<content, owed, moved>>
  \/ /\ polling # "shut"
     /\ owed > 0 /\ owed' = owed - 1
     /\ \E out \in Outs : content' = [content EXCEPT !.out = out]
     /\ moved' = TRUE

Unaffected == [store |-> store, view |-> view, job |-> job, redraw |-> FALSE]

\* A finished compose of what is still the content.
Filed(key) ==
  IF Fails(job.of)
  THEN [store |-> Removed(store, Doc), view |-> IF view = "closed" THEN view ELSE "err",
        job |-> NoJob, redraw |-> TRUE]
  ELSE [store |-> Inserted(store, Doc, DocRaster(key, job.of)), view |-> view,
        job |-> NoJob, redraw |-> TRUE]

\* drain_preview_job: what was composed from other content is dropped, and so
\* is what a frame has composed meanwhile.
Drained(c) ==
  IF job.state \in {"none", "composing"} THEN Unaffected
  ELSE IF job.state = "died" \/ Key(c) # job.key THEN [Unaffected EXCEPT !.job = NoJob]
  ELSE IF Hits(store, Doc, Key(c)) THEN [Unaffected EXCEPT !.job = NoJob, !.store = Got(@, Doc)]
  ELSE Filed(Key(c))

\* The poll window as the prefetch of this pass sees it.
SlipClosesNextTime == polling  \* slip: the window closes after the prefetch

Window == IF polling = "due" THEN "shut" ELSE polling

\* With the window shut, no compose in flight and no focus, nothing but an
\* event wakes the loop.
Awake == polling # "shut" \/ job # NoJob \/ focused \/ event

Wake ==
  /\ Awake
  /\ event' = FALSE
  /\ Polled
  /\ LET d == Drained(content')
         prefetch == wanted /\ quiet
         s == IF prefetch THEN LookedUp(d.store, content', Window, d.job) ELSE d.store
     IN /\ job' = IF prefetch THEN Dispatched(d.store, content', Window, d.job) ELSE d.job
        \* the status line is up for 3 s
        /\ \E up \in {flash, FALSE} :
             /\ flash' = up
             /\ store' = IF flash /\ ~ up THEN Removed(s, <<"status_flash", LayoutWidth>>)
                        ELSE s
        /\ view' = d.view
        /\ \E blink \in {FALSE, focused} :
             redraw' = (redraw \/ blink \/ owed' # owed \/ d.redraw)
  /\ polling' = IF polling = "due" THEN "shut" ELSE polling
  /\ UNCHANGED <<quiet, menu, help, wanted, width, focused, lastUi, shown, blank,
                 acts, deaths>>

-----------------------------------------------------------------------------
(* The clock and the worker.                                               *)

\* 400 ms without an edit (150 ms with the preview open).
Pause ==
  /\ ~ quiet /\ quiet' = TRUE
  /\ UNCHANGED <<store, content, owed, polling, uiVars, job, frameVars, event, acts, deaths>>

\* 3 s since the window opened: longer than a pause, and than a frame waits.
Deadline ==
  /\ polling = "open" /\ quiet /\ ~ redraw
  /\ polling' = "due"
  /\ UNCHANGED <<store, content, owed, quiet, uiVars, job, frameVars, event, acts, deaths>>

Compose ==
  /\ job.state = "composing"
  /\ job' = [job EXCEPT !.state = "done"]
  /\ UNCHANGED <<store, docVars, uiVars, frameVars, event, acts, deaths>>

\* The worker thread ends without sending anything.
WorkerDies ==
  /\ job.state = "composing"
  /\ deaths < MaxDeaths /\ deaths' = deaths + 1
  /\ job' = [job EXCEPT !.state = "died"]
  /\ UNCHANGED <<store, docVars, uiVars, frameVars, event, acts>>

Next ==
  \/ UserActs
  \/ Redraw
  \/ Wake
  \/ Pause
  \/ Deadline
  \/ Compose
  \/ WorkerDies

Spec == Init /\ [][Next]_vars

\* The loop serves a requested frame (WF of Redraw).
ServesFrames == []<> ~ redraw

\* While anything is to wake it, the loop runs (WF of Wake), so nothing waits
\* for it for ever: no event, passed deadline, finished or possible compose.
Runs ==
  /\ []<> ~ event
  /\ []<>(polling # "due")
  /\ []<>(job.state \notin {"done", "died"})
  /\ []<> ~ (/\ Awake /\ wanted /\ quiet
             /\ Dispatched(store, content, polling, job) # job)

\* Besides, time passes, whatever is redrawn meanwhile (SF), and the worker
\* ends.  The user need not do anything.
FairSpec ==
  /\ Spec
  /\ ServesFrames /\ Runs
  /\ WF_vars(Pause) /\ SF_vars(Deadline) /\ WF_vars(Compose)

-----------------------------------------------------------------------------
(* Properties.                                                             *)

TypeOK ==
  /\ DOMAIN store.memos \subseteq Slots
  /\ \A slot \in DOMAIN store.memos :
       store.memos[slot].of \in IF slot = Doc THEN Contents ELSE {slot[1]}
  /\ ToSet(store.lru) \subseteq Slots /\ store.total \in Nat
  /\ content \in Contents /\ owed \in 0..MaxOwed
  /\ polling \in {"shut", "open", "due"} /\ quiet \in BOOLEAN
  /\ view \in {"closed", "ok", "err"}
  /\ menu \in BOOLEAN /\ help \in BOOLEAN /\ flash \in BOOLEAN
  /\ wanted \in BOOLEAN /\ focused \in BOOLEAN
  /\ job.state \in {"none", "composing", "done", "died"}
  /\ job # NoJob => job.of \in Contents /\ job.key = Key(job.of)
  /\ width \in Widths
  /\ moved \in BOOLEAN /\ redraw \in BOOLEAN /\ event \in BOOLEAN
  /\ shown.what \in {"nothing", "raster", "error"}
  /\ blank \subseteq Sites
  /\ acts \in 0..MaxActs /\ deaths \in 0..MaxDeaths

\* The raster store leaks nothing and counts nothing twice, in whatever order
\* frames, the worker's results and closed overlays insert and remove rasters.
StoreSound == Sound(store)

\* The budget holds one raster of each site, whatever is drawn of them at once.
OneOfEach ==
  Bytes["doc_preview"] + Bytes["doc_preview_label"] + Bytes["doc_preview_err"]
    + Bytes["kernel_menu"] + Bytes["help"] + Bytes["status_flash"] <= Cap

\* A frame never finds the raster of an open overlay evicted: what it memoises
\* on its way does not push out what it is about to draw, nor does what the
\* worker files before a frame that leaves the pre-pass out.  (For a budget
\* that is OneOfEach.)  Three blanks are the code's own: a page that does not
\* render, a raster of earlier content, whose use no lookup records, and a page
\* opened anew when the last frame drew its error.
Unlooked == Has(store, Doc) /\ ~ Hits(store, Doc, Key(content))

NeverEvicted ==
  [][\/ blank' \subseteq blank
     \/ blank' = {"doc_preview"} /\ (Fails(content) \/ Unlooked \/ shown.what = "error")]_vars

\* What is shown was composed from this text and from results that cannot be
\* told from these by their fingerprint.
UpToDate ==
  \/ /\ shown.what = "raster"
     /\ shown.of.text = content.text
     /\ Fingerprint[shown.of.out] = Fingerprint[content.out]
  \/ shown.what = "error" /\ Fails(content)

\* A preview that is not in error comes to show the current text, with results of
\* the current fingerprint, also when the window has lost the focus and nothing
\* wakes the event loop any more.  It need not show the current results: one that
\* differs from what is shown only in what result_fingerprint leaves out is never
\* composed, although the comment there (app.rs 265-272) says that such a change
\* must be detected; and a mark of what is stale can stay.
CatchesUp == <>[](view = "ok" => UpToDate)
=============================================================================
