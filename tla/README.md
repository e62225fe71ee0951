# acm in TLA+

Models of agent-context-manager (`acm`): one binary that captures the conversations
of coding agents into a SQLite database, compacts them into a DAG of summaries,
gives them back on demand, and runs batch jobs outside the context. Every command
and every hook is a process of its own over the same `.acm` directory, so what is
hard here is what happens *between* the transactions of those processes, and what
is left when one of them dies. That is what the models are about.

## 1. Inventory

| Part | State it keeps | Operations | Meets |
|---|---|---|---|
| **Engine** (`internal/engine`) | a pass's in-memory window | `Compact`, `ArchiveToFreshTail`, `Assemble`, `Expand`, `ExpandToMessages` | the store; a summarizer |
| **Store: messages** (`store/sqlite_core.go`) | `conversations`, `messages` with sequence numbers | `EnsureConversation`, `AppendMessage`, lists, FTS search | everybody |
| **Store: DAG** (`store/sqlite_dag.go`) | `summaries`, their sources, `context_items`, `large_files` | `CreateLeafSummary`, `CreateCondensedSummary`, `ReplaceContextItems`, `CreateLargeFile` | engine |
| **Store: lifecycle** (`store/sqlite_lifecycle.go`) | `conversation_pins`, `summary_expansions` | `SetConversationPin`, `MarkSummaryExpanded`, `ListPruneCandidates`, `DeleteConversations` | retention |
| **Ingest service** (`core/service.go`) | none | `Ingest`: policy, ensure, one append per message | hooks, backfill, carry-over |
| **Host capture** (`cli/hook.go`, `agents/capture.go`, `agents/transcript.go`) | none | a hook event becomes messages; Stop hooks compact | ingest, engine |
| **Backfill** (`cli/backfill.go`) | none | stored messages against transcripts, then ingest | ingest, store |
| **Recall** (`agents/recall.go`, `agents/automatic_recall.go`) | none | candidate search and ranking | store |
| **Retention** (`cli/prune.go`, `pin.go`, `carryover.go`, `backup.go`) | backups, offloaded files | list, back up, delete, clean; pin; seed and pin | lifecycle, ingest, disk |
| **Map runs** (`llmmap`, `cli/map.go`) | state directory: manifest, snapshot, item states; output file | admit, scan, work, assemble, remove; resume | processors |
| **Sub-agent runner** (`agentmap`) | counters of one host event stream | run a host under tool and turn limits | map runs |
| **OpenCode plugin** (`install/assets/opencode-acm.ts`) | buffers, command queue, last plan | event capture, context hook, compaction hook | OpenCode, the binary |
| **OpenCode plan** (`opencode/context.go`, `cli/opencode_context.go`) | none | archive, assemble, recall, build a plan | engine, plugin |
| **Summarizers** (`summarize`, `tokens`) | none | a host's CLI or the deterministic text, under `summarizeWithGuard` | engine |
| **Installer** (`install`) | the hosts' configuration files | merge hooks, notify, plugin and instructions; `doctor` | the user's own edits |
| **Privacy** (`privacy`) | none | session modes, exclusion, redaction | ingest |
| **Explore, config, wiring** | none | file heads, flags, help | the parts above |

What makes each correct, and what is hard about it:

* **Engine and DAG.** *Lossless*: whatever is folded, the assembled window stands for
  every captured message once and in order, and expanding a summary gives back
  exactly what it says. Hard: a pass reads the window, reads the newer messages,
  creates rows one transaction at a time and overwrites the persisted window last;
  nothing locks the conversation meanwhile, and a pass can die anywhere.
* **Retention.** Pins protect, a deletion is preceded by a verified snapshot, nothing
  is left dangling. Hard: prune decides in one transaction, backs up outside any,
  deletes by ID in another and removes files after the commit.
* **Map runs.** An item is called at most so often, the output is complete and of one
  configuration, and an interrupted job can be finished. Hard: kills between two
  file operations, workers that fail while the scanner blocks on a full channel.
* **OpenCode.** Every message with a text is stored, in the order of completion, unless a failure
  took it; the request shows a message raw or under a summary; the hook that the host awaits
  always returns. Hard: the event stream is not replayed, the hook runs
  ahead of it, the queue drops and the drain gives up.
* **Capture, backfill.** One row per host event however often and by whichever path it is
  delivered; nothing excluded is stored. Hard: batches that fail midway, two processes
  with the same event, a rollout that grows or moves while it is read.
* **Recall.** What is injected is outside the fresh tail and the best under the quotas.
  Hard: three queries that are no transaction.
* **Sub-agents.** An answer is accepted only of a child that ended by itself within its
  limits; a call always ends. Hard: pipe, child, timer and cancellation at once.
* **Installer.** The user's text survives and acm's parts are there once. Hard: repeated,
  concurrent and interrupted installations over files in any state.

## 2. Plan

Order: what carries the product's promise first.

1. `ContextWindow`, `LosslessContext`, `Compaction`, `CompactionProofs`, `FiniteFacts` — done.
2. `MapJob`, `MapRun`, `MapRunProofs` — done.
3. `Retention`, `RetentionProofs` — done.
4. `OpenCode`, `OpenCodeProofs` — done.
5. `Capture` with `CaptureProofs`: hooks, transcripts, policy, ingest and backfill on one store — done.
6. `Install`, `ModelCall`, `SizeGuard`, `Recall`, checked together by `MCTools`; `InstallProofs`
   for the first and `ToolsProofs` for the others — done.
7. Every safety property of every passing run has its theorem. Left: the types of `Install`, `SizeGuard` and `Recall`
   as checked invariants, only if a property comes to need them; facts about
   `ContextWindow`'s operators beyond what `CompactionProofs` uses.

`MapRun` refines `MapJob` and `Compaction` refines `LosslessContext`. `Retention`,
`Capture` and `OpenCode` use the same store and keep only as much of compaction as their own
properties can tell apart; composing them with `Compaction` multiplies states
without a property that would see the difference.

## 3. Modules and code

### ContextWindow, Compaction, CompactionProofs, FiniteFacts — `engine.go`, `sqlite_core.go`, `sqlite_dag.go`

`messages`, `summaries` (with `summary_messages`/`summary_parents` folded into `src`),
`descendants` and `contextItems` are tables; `pc`, `archive`, `window` and `folds` are the
local variables of one `compactWindow` call per compactor. An ID is a digest of what
it identifies, so the models use row numbers and look a summary up by depth and sources.
`DescendantsAt` is the sum that a condensing fold stores as its row's descendant count.

| Action | Code |
|---|---|
| `AppendMessage` | one transaction of `AppendMessage`: the next sequence number |
| `ReadStoredWindow` | `buildWindow`: `ListContextItems`, each reference resolved |
| `ReadNewerMessages` | `buildWindow`: `ListMessages` after the window's last sequence number |
| `FoldLeaf` | an iteration: `findMessageBlock`, `makeLeaf`, `CreateLeafSummary`, `replaceRange` |
| `FoldRun` | an iteration: `condenseRun`, `makeCondensed`, `CreateCondensedSummary` |
| `Persist` | the loop ends; `ReplaceContextItems` |
| `Abandon` | summarizer or store error, or a kill |

`buildWindow` resolves references one by one; rows are immutable and this module has no
deletion, so reading them in one step sees the same thing. A summary's size is any
of `SummaryTokens`: what `summarizeWithGuard` makes of it is `SizeGuard`'s.
`LosslessContext` is what a user is promised: a log that is only appended to and a view
that always shows all of it. `LosslessSpec` says `Compaction` implements it.

### MapRun, MapJob, MapRunProofs — `llmmap.go`

`manifest`, `snapshot`, `items` and `output` are files; the rest is one process. Saves are
atomic renames. `Open` is settings, preflight and manifest; `Skip`, `Enqueue`, `StopScan`,
`EndScan` the scanner; `Take`, `Yield`, `Call`, `Complete`, `Reject`, `GiveUp`, `FailSave` a
worker; `Finish`, `Assemble`, `Remove`, `Succeed` the end of `Run`; `Cancel` and `Die` are
interrupt, timeout and kill. One run at a time is assumed to use a state directory: nothing
in the code locks it. An attempt that was cancelled or killed counts, as in the code.

### Retention, RetentionProofs — `sqlite_lifecycle.go`, `prune.go`, `pin.go`, `carryover.go`, `backup.go`

A conversation's row carries all that cascades from it. `BeginIngest` and
`AppendMessage` are the two transactions of an ingest; `BeginPass` … `Persist` a compaction
with its offloads; `Select`, `EnsureTarget`, `AppendSeed`, `PinSource` a carry-over; `List`,
`Backup`, `Delete`, `RemoveFile` a prune; each can end at any point. No command removes a
pin, so there is no such action. Left out: condensed layers, the depth and size
limits of a carry-over, and the integrity check of a snapshot. Lines that matter: a
deleted session that is captured again gets the *same* IDs, so a process that
outlives the deletion can write into it. A statement on a deleted row fails its
foreign key; context items are checked by no key.

### OpenCode, OpenCodeProofs — `opencode-acm.ts`, `opencode/context.go`, `cli/opencode_context.go`

`stream`, `connection`, `failures` and `buffered` are `consumeEvents` and
`createCapture`; `queue` is `createQueue`, its first command the one that is running; `hook`,
`plan` and `elided` are the context hook. `BeginPrompt`, `EndPrompt`, `StartStep`, `SayText`,
`EndTool` and `EndStep` are the host session, which is not in this repository: it is modelled by the
events and hook calls the plugin relies on (external in the map), in the order of the
recorded stream (`install/testdata/opencode-events.jsonl:10-12`): the results of a step's tools come before the
step's own end, with which its text is flushed, so the store has the tools first though the
session's array has the step first. `transcript` is the array, `ended` the order of completion.
`worded` are the messages with a text of their own: `createSink` and `flushStep` return without a word for a
prompt that is empty or acm's own and for a step that only called tools, as
`TestOpencodePluginCapturesV2Events` expects, so these have no row and no failure is at fault. Left out:
prompts sent while the model works, cancelled prompts, parts and ordinals, provider data,
text limits, the token floor of the fresh tail, and `bound` on the tool maps, which
only costs a tool its name. `acm opencode-context` does not go through the queue.

### Capture, CaptureProofs — `hook.go`, `capture.go`, `transcript.go`, `service.go`, `policy.go`, `backfill.go`

The host is external: it prompts, uses tools, says texts, ends, completes or aborts turns, and
moves or deletes its rollout. `emitted` is what it has handed to hooks; each payload may be
delivered any number of times, late or never, to a process of `process` that may fail or be
killed between any two steps. `Hook` and `StopHook` are the parsing of a payload and of the
transcript (`Reconcile` is the Codex task state machine, and each assistant line for Claude
Code); `Ensure` is the policy and `EnsureConversation`; `AppendMessage` one
transaction of the batch, which probes for the identity and inserts; `ListMessages`,
`Probe`, `Scan` are backfill up to the ingest, with the lookup order of `openTranscript`.
An identity is the source's ID, else the raw payload, else role and content, as in
`IdentityHash`. Left out: line limits, malformed lines, detectors and globs (the policy is a
set of excluded contents and one of contents with a secret), more than one conversation,
the dry run. `early` and `due` are history: which turns a backfill read before they ended, and
what a process owes when it reports success. `reader` is the state that any reader of the transcript has
once it has consumed every line written so far, and `todo` holds the indexes of a request's messages that the
process has still to append.

### Install, InstallProofs — `install.go`, and the checks of `doctor_integration.go`

A file is the sequence of items that matter: the user's text, hooks, the notify line, markers,
blocks. `Run`, `ReadFile`, `Rename`, `AbortInstall` are one `acm init --global`, which handles its files
one by one: read and edit in memory (`Edited`, one operator per managed file), then
rename over the target of the links. `EditConfig` is the user. Several installations, and two paths
linked to one file, are covered. `ensureHooks` goes through `HookEvents` in any order, which no
result depends on. Left out: file modes, the dry run, valid JSON of the wrong shape.

### ModelCall, ToolsProofs — `agentmap.go`, `summarize/stream.go`, `procutil`

One call of a host CLI: `ChildEmit`, `ChildExit` are the child, `StartCall`, `ScanEvent`,
`EndOfEvents`, `WaitChild` the caller's goroutine, `Cancel` and `Expire` the context, `Kill` the
process group's end. `used` is what the child has truly written, against `state`, what the
caller has counted. `EventBudget` stands for the code's `512 + 8·MaxTools + 16·MaxTurns`.

### SizeGuard, ToolsProofs — `engine.go`, `tokens.go`, `summarize`

`Ask` is an attempt of `summarizeWithGuard` at the normal or the aggressive target, `Truncate` the
last resort; the target sizes only reach the summarizer, whose answer is any text. Texts are
sequences of letters and spaces, and `CountTokens` and
`truncateToTokens` compute exactly what the code does on them.

### Recall, ToolsProofs — `recall.go`, `automatic_recall.go`

`ReadTail`, `SearchMessages`, `SearchSummaries` are the three queries of one prompt hook with
`Arrive` and `FoldSummary` of other processes between them. A search returns the matching rows in
any order up to its limit. `RecentConversationalMessageIDs` and `RankRecall` are the code's loops, a row and a choice
at a time; the property compares the second with sorting. `MaxFreshTailRows` (4096) ends the first loop though
its floors are not reached: `Fresh` says so. Left out: the extraction of terms, the printed block.

## 4. Runs

| Run | Instance | Shows |
|---|---|---|
| `compaction_races` | 2 compactors, 3 messages, fanout 2, floors of 1 message and 2 tokens, 1 crash, fair passes | no dangling reference, the assembled window tiles the log, fresh turns raw up to both floors, one row per fold, implements `LosslessContext`; repeated passes converge although windows are overwritten |
| `compaction_deep` | 1 compactor, 5 messages of 2 sizes, 2 condensed levels | lineage and descendant counts exact at each depth, folds bounded by messages |
| `maprun_safety` | 2 workers, 2 items, 2 inputs × 2 keys, budget, 2 faults | calls within budget, assembly only of settled items, output of one job, implements `MapJob` |
| `maprun_liveness` | 1 worker, 3 items, 2 faults | a run ends though its worker is gone and the channel full; a restarted job is published |
| `maprun_reuse` | violation | see findings |
| `retention_safety` | host, compactor, carrier, 2 prunes alike; 2 sessions, 5 commands | pins no prune overlooked hold, what a prune listed is in its snapshot before it goes, no dangling for what was never pruned |
| `retention_pins` | violation | see findings |
| `opencode` | 4 messages, queue of 2, 2 faults, fair plugin | stored in order of completion, no text lost without a failure, a full drain plans with what was queued, only what was late or lost is elided without a summary, the hook returns |
| `opencode_elision` | violation | see findings |
| `capture` | 2 processes alike, 3 started, 1 fault; 2 turns of 2 texts; both hosts; captured and stateless; an excluded prompt, a secret reply and prompt | one row per host event, the reply stored is the turn's last, the policy holds on every path, success means stored, a moved rollout is found |
| `tools` | 2 installers, 3 installations, 1 edit, 1 abort; a call of 4 events with a pipe of 2; 3 messages and 3 summaries | the user's text survives and installation settles; an answer is earned and a call ends; recall outside the tail and best |
| `size_guard` | violation | see findings |

Why the bounds suffice for what they are to show. Two compactors are enough for a lost
update, and three messages with leaf blocks of one give the two leaves of a condensed row beside
a message that is still raw or late; five give `compaction_deep` a condensed row over
condensed rows. With one token a message the floor in tokens outlasts the one in messages: a tail that stopped at
the first floor would be too short. Chunk and soft limit are small so that each is both reached and
missed. In `MapRun` the channel's capacity is
the pool size: three items with one worker are what fills it. Five commands in `Retention`
allow capture, compaction, carry-over and two prunes that list before either deletes, or a
prune and capture and compaction again of the pruned session. Three processes in `Capture`, two at
a time, are a hook twice and a backfill; two turns of two texts are a reply that supersedes one
of its turn and one of the next. Four messages in `OpenCode` are a prompt, a step with a tool call, and the
next step, or two turns; arrays of up to three go through the hook (`MaxTransform`), a fourth message is past it;
a tracked limit of 0 and a queue of 2 make both limits be met;
two faults are what closes a connection for good.
In `tools` the limits are scaled down so that the
child's four events can exceed each of them and a search more hits than a quota. The size guard steps through
this run too; what is claimed of it is `size_guard`'s, over whole words and a limit that no fold reaches.
Its four components share no state, so a behaviour of `MCTools` is one of its `subject` alone: one run
asks of each what a run of its own would. `capture` takes about a minute, `tools` a minute and a half.
Bounds named in the modules (`MaxMessages`, `MaxFailures`, `MaxFaults`, `MaxStarts`, `MaxInstalls`,
`MaxEdits`, `MaxAborts`, `MaxEmits`, `MaxStored`, `PipeCapacity`) stand in
guards of inputs and faults only, never in what the code does. The `Retention`, `OpenCode`,
`Capture` and `MCTools` runs switch deadlock checking off since once every command is used, or the
session is at its last message, the system may rest.

### Fairness

* `Compaction`: a pass that has started is run to its end by its process (weak fairness of
  its steps). Nothing makes a process start one; `CompactionConverges` assumes it.
* `MapRun`: the scanner, the conclusion and each worker are goroutines of a live process, and
  a processor answers because its command is killed with the context or its deadline. No
  fairness for starting a run: `JobPublished` is about jobs that are started again and again.
* `OpenCode`: callbacks that are due run, a command ends at `COMMAND_TIMEOUT_MS` at the
  latest, the drain at `QUEUE_DRAIN_TIMEOUT_MS`, the plan command likewise. The host owes nothing,
  and reconnecting is not assumed to succeed.
* `ModelCall`: the caller's goroutine runs, the call's timer fires, and a killed process group
  ends. The child owes nothing. That its pipe closes with it assumes that no descendant has left the
  process group with the pipe open.

## 5. Proofs

`CompactionProofs.tla` proves, for every set of compactors, every number of messages and every
thresholds that satisfy `ConfigAssumption` (what `Config.Validate` demands) and
`InputAssumption`:

* `TypeCorrect` — `Spec => []TypeOK`, with it that no reference dangles;
* `AssembledWindowAlwaysTiles`, `LineageAlwaysExact`, `SummariesAlwaysUnique`;
* `CompactionIsLossless` — `Spec => LosslessSpec`;
* `FoldsAlwaysLinear`;
* `ExpansionAlwaysExact`, `FreshTailAlwaysRaw`.

None of these is inductive. A fold is correct because the window it folds in
*memory* is, so the inductive invariant `IInv` says that every window — the persisted one once
resolved, and that of each pass — consists of items that agree with their rows and tiles a
prefix of the log, and that every summary row is exact over the rows before it. A pass that
finds the row of another with the same depth and sources takes it in place of its own, which
`SameSourcesSameSpan` shows to be harmless: exact lineage fixes the span. Tables only grow, so every such fact survives
the steps of others (`WindowOKGrows`, `RefOKGrows`, `StoredWindowGrows`): this is the
reason why last-writer-wins on the persisted window loses nothing. `ExtendTiles` is what
reading the newer messages does, `ReplaceTiles` and `FoldedWindowOK` what a fold does,
`NextIInv` puts them together one action at a time.

`FoldsAlwaysLinear` adds `Paced` to it: folds made, plus window length, plus messages still raw
in the window stay within twice the messages of the conversation. A leaf fold takes at least one
raw message away (`ReplaceSpends`), a condensing fold at least one item, and what a pass reads has
no more items than messages, since it tiles them (`TilesLen`).

`ExpansionAlwaysExact` goes over the rows in the order of their creation: sources come before
the row they make, so the expansion of a row is the union of spans already shown to be exact, and these tile its own
(`ExpandOne`). The advertised count is right because a fold adds up the counts of a block that
tiles (`CountsExact`). `FreshTailAlwaysRaw` cannot speak of windows alone, as another pass's window may be older than
the tail: `TailClear` says that no *row*, orphaned or in use, covers a message that is now in the tail of the log. A
message that leaves the tail never returns, and what a stale window protects contains what the log protects, since the
messages it has not read yet can only fill the floors sooner. `FreshTailRaw` states the floors by themselves, not by
the code's scan: a message that is not shown raw has enough newer ones.

`MapRunProofs.tla`, for every number of items, inputs, configurations, workers, attempts and
faults: `MapRunTypeCorrect`, `CallsStayWithinBudget`, `AssemblyAlwaysReady`,
`OutputAlwaysMatchesJob`, and `MapRunKeepsPromise`, the refinement of
`MapJob`. The invariant beside the types:

* `Line`: queue and busy workers hold different items, in input order, all before the scanner's
  position, and not settled yet. This is what makes two workers never save the same item;
* `Counted`: a call is recorded in the item's file before it is made, and a run whose worst case
  exceeds the budget never gets past its preflight;
* `Scanned`: an item the scanner has passed is terminal, in the queue, held by a worker, or
  the pool's context is done. `AssemblyReady` is its last case, when queue and workers are empty;
* `Owned`, `Delivering`: the states in the directory are of the manifest's configuration unless
  a removal was interrupted (`torn`), and the published output is what they were.

`RetentionProofs.tla`, for every set of sessions, events and processes, any number of
prunes among them: `RetentionTypeCorrect`, `NothingEverDangles`, `RollbackAlwaysCoversPlan`,
`PinAlwaysHolds`. The invariant is `Sound`: for each kind of process, what it carries in memory
resolves as long as its conversation was never deleted (`RowSound`, `PassSound`, `CarrySound`), and what
a prune listed is still in the conversation or the conversation has been deleted meanwhile, by
another prune (`PruneSound`): the snapshot covers what was *not*.

`OpenCodeProofs.tla`, for every length of a session, every limit of the plugin and any number of
faults: `OpenCodeTypeCorrect`, `AlwaysStoredInOrder`, `AlwaysAccounted`, `AlwaysDrainedBeforePlan`,
`AlwaysElisionExcused`. The order of the store follows only from that of the whole
line of store, queue and stream (`Ordered`), and this from the host's (`Sent`: the stream has the
ends of messages in the order of completion, once each, and after their beginnings if they have text). `Hosting`
says what the array looks like in each state of the session. The prompt is the one message the hook can place
out of order: `Handed` says that in every turn whose array the hook takes the prompt is in store, queue or lost
before anything else ends. `Kept` is that every completed text is somewhere on the line or lost. A drain is
counted from the front of the queue: what the hook waits for is stored, lost, or among the `ahead` first commands
(`Draining`). While a plan is being applied every text of the array is fresh, covered, lost or was unseen (`Planned`),
and that is all `applyPlan` can elide.

`CaptureProofs.tla`, for either host and any number of processes, turns, texts, deliveries and faults:
`CaptureTypeCorrect`, `OneRowAlways`, `RepliesAlwaysFinal`, `PolicyAlways`, `SuccessAlwaysStored`,
`RolloutAlwaysFound`. A row was a message of a request before, and that a line of the transcript or
a payload: the invariant says on each of these places what the message has to be once it is stored.
`Good` (its event determines its identity, and a reply is the last text of its turn or its turn was read early)
holds from the payload on, `Allowed` (what the policy lets through) from `Ensure` on. `ReaderOK` says what a
reader holds pending at any line, `Owes` that what a process is to report stored is stored or among the rest of its
batch, `Ahead` that both the lookup and the rollout move down the same order, so that a lookup never
overtakes it.

`InstallProofs.tla`, for any number of installers, installations, edits and kills: `UserAlwaysKept`,
`InstallAlwaysSettled`. Each kind of file has a `Form` that all edits keep, acm's and the user's: no part of acm's twice,
no notify of acm's beside its legacy line, at most one block, closed by an end marker. An edit of acm makes it `Complete` (`EditSettles`), and
nothing makes it incomplete again. What a run holds in memory between its read and its rename has the form, is complete
and keeps what the user had (`RunOK`): hence it does not matter which of several installations renames last.
`Keeps` is stronger than `UserKept`: an item of the user's must not only be there, it must also not lie where a later
installation would put its block (`Shielded`).

`ToolsProofs.tla`, for the components that share no state:

* `EveryAnswerEarned`: the caller's counts agree with the child's own account only up to the last event it has read, so
  the invariant ties the two by the *history* of accounts, one for each event in the pipe: the first is the caller's, the last
  what the child has written, and each follows from the one before by its event.
* `SummaryAlwaysBounded`: what holds in place of the document's claim that `size_guard` refutes, two tokens or a quarter
  of a token a source above the input at most: words and characters of the joined sources are compared with the sum
  of their counts source by source (`JoinedBound`), and a prefix has no more words than the text (`CutWords`).
* `RecallAlwaysSound`: after each round the selection is a set of expected hits that holds every expected hit better than
  one of its own (`Selected`). A hit that is expected and not selected is open, as those of its kind that are
  selected are better than it and these do not fill its quota; the best open hit is expected, as a better one of its kind
  would be open too. With the limit reached or nothing open, what is selected is what sorting would give. The tail is
  likewise closed upwards at each row (`TailTaken`), which with a sum that only grows (`SizeGrows`) makes it hold all
  that was fresh; later messages do not matter (`FreshStays`).

Induction over data is done without the library's induction theorems, which the installed provers cannot
instantiate. `FiniteFacts.tla` takes least counterexamples instead (`LeastSubset`, `LeastNumber`, from the
well-foundedness of strict inclusion), from which follow `Upward`, for sets of numbers that
are closed under successor, and `LoopExists`: a loop in the code is a recursive function over the steps taken, and such a function
exists. A sum over a set (`MapThenSumSet`) is shown to count units (`SumsOverCounts`), so that sums are compared by
inclusion and bijection.

The assumptions are the modules' own (`ConfigAssumption`, `InputAssumption`, `RecallAssumption` and so on), which
TLC evaluates in every run. With that, every safety property that a passing run checks is a theorem; all
liveness (`CompactionConverges`, `JobPublished`, the hook that returns, the call that ends and the others) is only
model-checked, as the prover does neither fairness nor `ENABLED`.

## 6. Findings

* **State of another configuration can be published** (`maprun_reuse`). `RemoveAll` deletes the
  manifest before the item states; a run killed in between leaves completed items that the
  next run, whatever its configuration, accepts by their input hash.
* **A pin set while a prune is under way does not hold** (`retention_pins`). The delete
  transaction takes the IDs listed before the backup and looks at no pin.
* **A message the store never got can be elided** (`opencode_elision`). `applyPlan` replaces
  what the plan does not name fresh, not what the plan has archived: a message whose event is still on the stream, or
  was lost, is gone from the request. `ElisionExcused` says that this is all that can go.
* **A summary can be larger than its input** (`size_guard`). `docs/architecture.md:79-80` says it never is, but
  `truncateToTokens` of sources joined with line ends is returned without being counted against them
  (`engine.go:399-400`): two one-word messages of two tokens each make a summary of five.

What else the models show, where a property makes an exception that the reader should know of:

* `NothingDangles` excepts seeds of pruned sources: a source pruned while a carry-over
  is between its selection and its pin leaves a seed with pointers to nothing. It also excepts
  conversations deleted and captured again: a pass that outlives the deletion may
  persist a window of rows that are gone, and later passes then fail.
* `RollbackCoversPlan` speaks of what the conversation held since the prune listed it. A message captured after the
  listing is deleted too, in no snapshot if it came after the backup (`sqlite_lifecycle.go:162`).
* `StoredInOrder` excepts prompts: the context hook stores the current prompt ahead of the turns whose events are late,
  and a prompt whose command was lost is stored at a later request of its turn.
* The aggressive target is never below `TruncateTokens`, so it can equal the normal one (`engine.go:391`); no model
  looks at targets.
* `UserKept` excepts text below a start marker that has no end marker: the first installation
  appends a whole block, and the second takes the stray marker for its start and
  replaces all in between (`install.go:326-341`). It also excepts what the user saves between the read and
  the rename of an installation.
* `InstallSettled` has to except a hook the user has wrapped and a notify of the user's: the installer
  accepts both, `acm doctor` reports both as missing.
* `RepliesFinal` excepts turns that a backfill read before they had ended (`early`): the
  text it found is stored under the turn's ID, and the final one is then taken for a duplicate.
* `RecallSound` speaks of the fresh tail that was read: a message of the session that arrives
  between that read and the search can be recalled into the prompt it belongs to. Nor does it speak of messages beyond
  the newest `MaxFreshTailRows` where these do not reach the floors.

ADR 0003 speaks of an expanded "summary root" where the code, and the guide on session
lifecycle, require every summary of the conversation to have been expanded; the model follows the code.

## 7. Not modelled

Full-text search and its ranking inside SQLite; glob matching, redaction and the detectors (string
work; the policy is a set of contents); the extraction of search terms; schema, migrations and
`health.go`, whose counts are separate reads (each transaction is one step of a model, which
`_txlock=immediate` in `sqlite.go:140-156` justifies); prompts of the summarizers, and their HTTP (any
answer or failure); answers of `expand_query`; explore (text heads of files); file modes,
dry runs and line-size limits; configuration, flags and command wiring (no state that another part
shares). `PROJECT.json` lists each part with its reason, and every hazard with the properties that
cover it or the reason why none does.
