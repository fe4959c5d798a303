---------------------------- MODULE EventRunner ----------------------------
(***************************************************************************)
(* Consuming a cursored event stream with a durable checkpoint:            *)
(* crates/kernel_client/src/runner.rs (the loop) over checkpoint.rs (the   *)
(* cursor file and atomic_write).                                          *)
(*                                                                         *)
(* The checkpoint is modelled at the level of the calls it makes to the    *)
(* file system: the file and its .tmp sibling are names of inodes, an open *)
(* handle keeps the inode it was opened on, create truncates, a rename     *)
(* moves whatever the name .tmp stands for, and a power loss keeps of a    *)
(* file what was synced and may undo a rename.  A cursor is written as its *)
(* digits, because two writes into one file leave the digits of both.      *)
(*                                                                         *)
(* External: the kernel's log behind Poller, and the file system.          *)
(***************************************************************************)
EXTENDS Naturals, Sequences, FiniteSets

CONSTANTS
  Writers,     \* runners that share one checkpoint path
  None,        \* no file, no handle
  Base,        \* of the digits: 10 in the code
  MaxBatch,         \* largest batch
  MaxCursor,   \* bound: events in the log
  MaxStarts,   \* bound: runs of run_until_idle
  MaxOutages   \* bound: power losses

ASSUME RunnerAssumption ==
  /\ Base \in Nat \ {0, 1} /\ MaxBatch \in Nat \ {0}
  /\ MaxCursor \in Nat /\ MaxStarts \in Nat /\ MaxOutages \in Nat
  /\ IsFiniteSet(Writers) /\ None \notin Nat

Inodes == 1 .. Cardinality(Writers) + 4

VARIABLES
  oldest, latest,    \* the log retains the events oldest .. latest
  handled,           \* events that some handler accepted
  pc, cursor,        \* of each runner
  upto,              \* last event of the batch in hand; the next is in `next`
  next,
  path, tmp,         \* inodes of the checkpoint and of its .tmp sibling
  durable,           \* the checkpoint's inode in the directory on the platter
  content, synced,   \* of each inode
  fd,                \* the inode a runner has open
  starts, outages    \* for the bounds

logVars == <<oldest, latest>>
takenVars == <<handled, cursor, upto, next>>
fileVars == <<path, tmp, durable, content, synced, fd>>
runnerVars == <<logVars, takenVars, pc, fileVars, starts, outages>>

Steps == {"off", "load", "poll", "handle", "check", "create", "write", "sync", "rename"}

\* u64::to_string and parse::<u64>.
Digits[n \in Nat] ==
  IF n < Base THEN <<n>> ELSE Append(Digits[n \div Base], n % Base)

Parsed(s) ==
  LET value[i \in 0 .. Len(s)] == IF i = 0 THEN 0 ELSE value[i - 1] * Base + s[i]
  IN  value[Len(s)]

Readable(inode) == inode = None \/ content[inode] # <<>>

\* load of a readable file; no file is cursor 0.
Stored(inode) == IF inode = None THEN 0 ELSE Parsed(content[inode])

Published == Stored(path)

RunnerTypeOK ==
  /\ oldest \in 1 .. MaxCursor + 1 /\ latest \in 0 .. MaxCursor
  /\ handled \subseteq 1 .. latest
  /\ pc \in [Writers -> Steps]
  /\ cursor \in [Writers -> Nat] /\ upto \in [Writers -> Nat] /\ next \in [Writers -> Nat]
  /\ {path, tmp, durable} \subseteq Inodes \cup {None}
  /\ content \in [Inodes -> Seq(0 .. Base - 1)]
  /\ synced \in [Inodes -> BOOLEAN]
  /\ fd \in [Writers -> Inodes \cup {None}]
  /\ starts \in 0 .. MaxStarts /\ outages \in 0 .. MaxOutages

RunnerInit ==
  /\ oldest = 1 /\ latest = 0 /\ handled = {}
  /\ pc = [w \in Writers |-> "off"]
  /\ cursor = [w \in Writers |-> 0] /\ upto = cursor /\ next = cursor
  /\ path = None /\ tmp = None /\ durable = None
  /\ content = [i \in Inodes |-> <<>>] /\ synced = [i \in Inodes |-> FALSE]
  /\ fd = [w \in Writers |-> None]
  /\ starts = 0 /\ outages = 0

-----------------------------------------------------------------------------
(* The kernel's log.                                                       *)

Record ==
  /\ latest < MaxCursor
  /\ latest' = latest + 1
  /\ UNCHANGED <<oldest, takenVars, pc, fileVars, starts, outages>>

\* The log drops its oldest event.
Evict ==
  /\ oldest <= latest
  /\ oldest' = oldest + 1
  /\ UNCHANGED <<latest, takenVars, pc, fileVars, starts, outages>>

-----------------------------------------------------------------------------
(* run_until_idle.                                                         *)

GoTo(w, step) == pc' = [pc EXCEPT ![w] = step]

Start(w) ==
  /\ pc[w] = "off" /\ starts < MaxStarts
  /\ starts' = starts + 1
  /\ GoTo(w, "load")
  /\ UNCHANGED <<logVars, takenVars, fileVars, outages>>

\* A checkpoint that cannot be parsed ends the run.
Load(w) ==
  /\ pc[w] = "load"
  /\ IF Readable(path)
     THEN cursor' = [cursor EXCEPT ![w] = Published] /\ GoTo(w, "poll")
     ELSE UNCHANGED cursor /\ GoTo(w, "off")
  /\ UNCHANGED <<logVars, handled, upto, next, fileVars, starts, outages>>

\* Events after the resume point were dropped.
Gap(w) == cursor[w] + 1 < oldest

SlipPollThroughGap(w, n) ==  \* slip: the gap is not looked at
  /\ pc[w] = "poll"
  /\ n \in 1 .. MaxBatch /\ cursor[w] + n <= latest
  /\ next' = [next EXCEPT ![w] = IF Gap(w) THEN oldest ELSE cursor[w] + 1]
  /\ upto' = [upto EXCEPT ![w] = IF Gap(w) THEN oldest ELSE cursor[w] + n]
  /\ GoTo(w, "handle")
  /\ UNCHANGED <<logVars, handled, cursor, fileVars, starts, outages>>

\* A batch of n events.  The kernel may cut it short anywhere; a reply that is
\* cut short at no event at all only has the loop poll again.
PollBatch(w, n) ==
  /\ pc[w] = "poll" /\ ~ Gap(w)
  /\ n \in 1 .. MaxBatch /\ cursor[w] + n <= latest
  /\ next' = [next EXCEPT ![w] = cursor[w] + 1]
  /\ upto' = [upto EXCEPT ![w] = cursor[w] + n]
  /\ GoTo(w, "handle")
  /\ UNCHANGED <<logVars, handled, cursor, fileVars, starts, outages>>

SlipEndsOnlyWhenDrained(w) ==  \* slip: a gap is polled over and over
  /\ pc[w] = "poll"
  /\ cursor[w] >= latest
  /\ GoTo(w, "off")
  /\ UNCHANGED <<logVars, takenVars, fileVars, starts, outages>>

\* The run ends: on a gap, or with nothing new and nothing cut short.
PollEnds(w) ==
  /\ pc[w] = "poll"
  /\ Gap(w) \/ cursor[w] >= latest
  /\ GoTo(w, "off")
  /\ UNCHANGED <<logVars, takenVars, fileVars, starts, outages>>

Handle(w) ==
  /\ pc[w] = "handle"
  /\ handled' = handled \cup {next[w]}
  /\ next' = [next EXCEPT ![w] = @ + 1]
  /\ GoTo(w, IF next[w] = upto[w] THEN "check" ELSE "handle")
  /\ UNCHANGED <<logVars, cursor, upto, fileVars, starts, outages>>

SlipRejectStores(w) ==  \* slip: a rejected event is counted as consumed
  /\ pc[w] = "handle"
  /\ upto' = [upto EXCEPT ![w] = next[w]]
  /\ GoTo(w, "check")
  /\ UNCHANGED <<logVars, handled, cursor, next, fileVars, starts, outages>>

\* The handler refuses the event, or the kernel numbered it at or before the
\* resume point: the run ends before its batch is stored.
Reject(w) ==
  /\ pc[w] = "handle"
  /\ GoTo(w, "off")
  /\ UNCHANGED <<logVars, takenVars, fileVars, starts, outages>>

-----------------------------------------------------------------------------
(* store and atomic_write.                                                 *)

\* A stored cursor beyond the batch wins; one that cannot be read does not.
Check(w) ==
  /\ pc[w] = "check"
  /\ IF Readable(path) /\ Published > upto[w]
     THEN cursor' = [cursor EXCEPT ![w] = Published] /\ GoTo(w, "poll")
     ELSE UNCHANGED cursor /\ GoTo(w, "create")
  /\ UNCHANGED <<logVars, handled, upto, next, fileVars, starts, outages>>

InUse == {path, tmp, durable} \cup {fd[w] : w \in Writers}

\* File::create: the file named .tmp, truncated, or else a new one.
Create(w) ==
  /\ pc[w] = "create"
  /\ LET i == IF tmp # None THEN tmp ELSE CHOOSE j \in Inodes : j \notin InUse IN
       /\ fd' = [fd EXCEPT ![w] = i]
       /\ tmp' = i
       /\ content' = [content EXCEPT ![i] = <<>>]
       /\ synced' = [synced EXCEPT ![i] = FALSE]
  /\ GoTo(w, "write")
  /\ UNCHANGED <<logVars, takenVars, path, durable, starts, outages>>

\* Bytes over bytes: what was longer keeps its tail.
Overlay(new, old) == new \o SubSeq(old, Len(new) + 1, Len(old))

Write(w) ==
  /\ pc[w] = "write"
  /\ content' = [content EXCEPT ![fd[w]] = Overlay(Digits[upto[w]], @)]
  /\ synced' = [synced EXCEPT ![fd[w]] = FALSE]
  /\ GoTo(w, "sync")
  /\ UNCHANGED <<logVars, takenVars, path, tmp, durable, fd, starts, outages>>

SlipNoSync(w) ==  \* slip: renamed without waiting for the bytes
  /\ pc[w] = "sync"
  /\ GoTo(w, "rename")
  /\ UNCHANGED <<logVars, takenVars, fileVars, starts, outages>>

Sync(w) ==
  /\ pc[w] = "sync"
  /\ synced' = [synced EXCEPT ![fd[w]] = TRUE]
  /\ GoTo(w, "rename")
  /\ UNCHANGED <<logVars, takenVars, path, tmp, durable, content, fd, starts, outages>>

Rename(w) ==
  /\ pc[w] = "rename" /\ tmp # None
  /\ path' = tmp /\ tmp' = None
  /\ fd' = [fd EXCEPT ![w] = None]
  /\ cursor' = [cursor EXCEPT ![w] = upto[w]]
  /\ GoTo(w, "poll")
  /\ UNCHANGED <<logVars, handled, upto, next, durable, content, synced, starts, outages>>

\* A call of atomic_write fails (a rename that finds no .tmp always does): the
\* temporary file is removed and the run ends.
IoError(w) ==
  /\ pc[w] \in {"create", "write", "sync", "rename"}
  /\ tmp' = None
  /\ fd' = [fd EXCEPT ![w] = None]
  /\ GoTo(w, "off")
  /\ UNCHANGED <<logVars, takenVars, path, durable, content, synced, starts, outages>>

-----------------------------------------------------------------------------
(* Crashes.                                                                *)

\* The process of a runner dies; the file system is left as it is.
Crash(w) ==
  /\ pc[w] # "off"
  /\ fd' = [fd EXCEPT ![w] = None]
  /\ GoTo(w, "off")
  /\ UNCHANGED <<logVars, takenVars, path, tmp, durable, content, synced, starts, outages>>

\* The directory reaches the platter.
Flush ==
  /\ durable # path
  /\ durable' = path
  /\ UNCHANGED <<logVars, takenVars, pc, path, tmp, content, synced, fd, starts, outages>>

\* The machine dies.  The directory has the checkpoint's new inode or the old
\* one; of a file that was not synced any prefix may be left.
PowerLoss ==
  /\ outages < MaxOutages
  /\ outages' = outages + 1
  /\ pc' = [w \in Writers |-> "off"]
  /\ fd' = [w \in Writers |-> None]
  /\ path' \in {path, durable}
  /\ durable' = path'
  /\ tmp' \in {None, tmp} \ ({path'} \ {None})
  /\ \E kept \in 0 .. Len(Digits[MaxCursor]) :
       content' = [i \in Inodes |->
         IF synced[i] \/ kept > Len(content[i]) THEN content[i] ELSE SubSeq(content[i], 1, kept)]
  /\ synced' = [i \in Inodes |-> TRUE]
  /\ UNCHANGED <<logVars, takenVars, starts>>

-----------------------------------------------------------------------------

Step(w) ==
  \/ Load(w) \/ (\E n \in 1 .. MaxBatch : PollBatch(w, n)) \/ PollEnds(w)
  \/ Handle(w) \/ Check(w)
  \/ Create(w) \/ Write(w) \/ Sync(w) \/ Rename(w)

RunnerNext ==
  \/ \E w \in Writers : Start(w) \/ Step(w) \/ Reject(w) \/ IoError(w) \/ Crash(w)
  \/ Record \/ Evict \/ Flush \/ PowerLoss

RunnerSpec == RunnerInit /\ [][RunnerNext]_runnerVars

\* A runner that is not stopped goes on.
FairRunnerSpec == RunnerSpec /\ \A w \in Writers : WF_runnerVars(Step(w) \/ (pc[w] = "rename" /\ IoError(w)))

-----------------------------------------------------------------------------
(* Properties.                                                             *)

\* The checkpoint never claims an event that no handler accepted: a restart
\* may replay, and never skips (run_until_idle; checkpoint.rs, module doc).
NeverSkips == Readable(path) => 1 .. Published \subseteq handled

\* Neither the checkpoint nor what a power loss would leave of it is ever a
\* file that cannot be read (atomic_write).
NeverTorn ==
  /\ Readable(path) /\ Readable(durable)
  /\ path # None => synced[path]
  /\ durable # None => synced[durable]

\* No event is handed to a handler that the checkpoint already covers, and
\* none before every earlier one: the stream is replayed from the checkpoint,
\* in order and without holes, gaps in the log included.
InOrderFromCheckpoint ==
  [][\A w \in Writers : pc[w] = "handle" /\ next'[w] # next[w] =>
       next[w] > Published /\ 1 .. (next[w] - 1) \subseteq handled]_runnerVars

\* A run ends once the log stops growing: at the end of the log, at a gap, or
\* with an error.
RunsEnd == \A w \in Writers : pc[w] # "off" ~> pc[w] = "off"
=============================================================================
