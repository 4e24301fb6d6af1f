# A formal model of ExplainIT

ExplainIT is a VS Code extension that stops every file change an AI assistant
proposes, shows it function by function with its plain-English meaning, and lets
it land only when the person accepts it. It also keeps English "twins" of source
files, a hash-chained journal of what was proposed and decided, and restore
points. This directory holds TLA+ modules that model its core, TLC
configurations that check them on small instances, and proofs checked by TLAPS.
Paths below are relative to the repository; `controller.ts` without a directory is
`src/gate/controller.ts`.

## 1. The system

### Components

| component | state it keeps | operations | talks to |
|---|---|---|---|
| gate controller (`src/gate/controller.ts`) | paused, disposed, `pendingHuman`, `pendingBySession`, `expected` (landings waited for), one async handler per hook call | handle/route/review, commitAccepted, commitPartial, handlePost, landed, setPaused, dispose, 10 s fallback timers | memory, panel, journal, restore points, twin engine, disk |
| decision memory (`src/review/pure/memory.ts`) | hunk keys and file/session grants with expiry, a cap of 10000 hunk keys per memory | lookup, remember, sweep, clearAll | controller |
| differ (`src/gate/pure/differ.ts`) | none | computeHunks, reconstruct | controller |
| review panel (`src/review/panel.ts`, `src/review/pure/state.ts`, `html.ts`, `media/review/review.js`) | queue of reviews, the active one, its cards, explanation calls in flight, webview | review, dispatch of accept / reject / rest of file / rest of session / retry, close, dispose | controller (promise), router (explanations), webview (messages) |
| hook server (`src/gate/server.ts`) | pending map of request ids, waiters, sweep timer, session file | POST /v1/hook (fast path, 202), GET /v1/decision (long poll), sweep, stop | hook script (HTTP), controller |
| hook script (`hooks/explainit-hook.js`) | one process per tool call: deadline, retries | find session, post, poll, print the decision | server, assistant |
| change journal (`src/journal/pure/journal.ts`) | JSONL file with a hash chain, archives, cached tail | append, rotate, recover, verify | controller, view; other windows on the same file |
| restore points (`src/journal/pure/checkpoints.ts`) | index.json and snapshot files | save, restore, rotate, remove, self-test | controller, view; other windows |
| twin engine, staleness, sidecar (`src/twin`) | per file: a queue of runs, the page (twin), the sidecar with the hashes its sections describe, a staleness timer | ensureTwin, refresh after a landing, regenerate a section, mark stale | structure engine, router, controller |
| backfill (`src/twin/backfill.ts`) | state, records, pause, cancel source, one progress file per folder | start, pause, resume, cancel | twin engine, project permission |
| project permission (`src/core/projectConsent.ts`, `src/twin/projectPermission.ts`), `autoOpen.ts` | decision per folder, open question, cooldown, openings that wait | ask, set, listener | state.json, twin engine, instruction files |
| instruction files (`src/instructions`), exclude list (`src/core/gitExclude.ts`) | sections in the assistants' files, `.git/info/exclude` | ensure, ensureFileExcluded | disk; other calls and the person on the same files |
| structure engine (`src/structure`) | parser instances, symbol maps | function map of a text | twin engine, controller |
| generation router, cache, channels (`src/generation`) | consent, channel availability and checks under way, child processes, cache in memory and on disk | explainFunctions, explainChange, availableChannels | child processes, language model API |
| adapters, installer, arm (`src/adapters`) | hook script and wrapper, assistants' hooks files, Codex's trust by place, integrity record in state.json | verify, install, update, uninstall, arm, repair | files that other windows, the person and the assistants share |
| Copilot watcher (`src/adapters/copilotWatcher.ts`) | snapshot and timers per document | takeSnapshot, scheduleReview, keep, undo | documents |
| core services, user interface | settings, state file, views | | all |

All of the extension runs on one thread; two stretches of code interleave exactly
at `await`. Hook scripts, assistants, other windows and other editors run
concurrently with it.

### Interactions on the path of one change

assistant → hook script → `POST /v1/hook` → `GateController.handle` → `route` →
`review` (function maps awaited, memory asked, cap checked, journal awaited) →
`ReviewPresenter.review` → person → verdict → `commitAccepted` (restore points,
journal, expectation, memory) or `commitPartial` (ExplainIT writes the accepted
hunks itself) → answer → hook prints it → the assistant's tool runs →
`PostToolUse` → `handlePost` → `landed` → journal and twin. If no `PostToolUse`
comes, a 10 s timer compares the disk with the expectation.

### What is hard

* awaits between a check and its use: the re-read of a file, its restore point
  and its write; the shutdown during a review; the pause during a commit;
* several hook calls of one session, the cap on waiting reviews and its counters;
* memory that must neither forget nor generalise what the person decided;
* patches with several files, of which a later one fails after an earlier landed;
* the fallback timer, the report of the hook and writes of others racing on one
  expectation;
* messages between webview and host that arrive late, explanations that stream
  after their try was given up;
* a journal and a restore point index shared by two windows, and crashes in the
  middle of a rotation;
* a twin of two files (page and sidecar) that runs, late answers, renames, failed
  writes and crashes keep apart or bring together; marks that must catch up;
* checks of assistants that outlive a change of settings, retries that multiply,
  processes that outlive their request, replies in part, out of order, without labels;
* hooks files and state.json that are read, edited and replaced by two windows, the
  person and other tools, and a trust that depends on an entry's place;
* instruction files and an exclude list of which only some lines are ExplainIT's;
* a backfill whose calls share variables across awaits and whose progress file must
  survive a restart;
* positions in a text that shift while hunks are taken out of it.

### What makes each component correct

* controller: nothing lands that the person did not accept (or allow by an earlier
  acceptance in that session), everything that lands can be undone, what is
  journaled as applied was decided, every call is answered, the cap holds, a
  shutdown decides nothing;
* memory: only what the person accepted is remembered, for the session it was
  accepted in;
* panel: no review is lost, nothing is accepted without an explanation on the
  screen, an explanation is always asked for, a click means what was clicked, the
  decision reports "rest of file" or "rest of session" only where that was clicked;
* server and hook: what the hook prints was decided for that call, every call ends,
  the cap on calls holds;
* journal, restore points: the chain verifies unless somebody tampered; no entry
  and no restore point is lost in a rotation or a crash;
* restore points: what is listed can be restored, a restore can be undone;
* twin engine: a section's hash is that of the words on the page, no words are lost,
  no stale section is presented as fresh for good;
* generation: nothing kept is of another time or about another function, spending is
  bounded, every request ends and leaves no process;
* adapters: a session ends protected, and the person's own hooks and trust stay;
* projects, instructions, backfill: the person's files stay the person's, the progress
  file is true;
* differ and edits: what lands is what was accepted, line by line.

## 2. Modules

| module | models |
|---|---|
| `Hunks` | the vocabulary: hunks, their ids and content hashes, contents as sets of hunks, the split of an edit into hunks and its partial reconstruction |
| `DecisionMemory` | the memory: keys, grants, cap, expiry, `lookup`, `remember`, `clearAll` |
| `Gate` | the controller composed with memory, disk, journal, restore points, assistant's tool, twin engine and foreign writers |
| `HumanCheckpoint` | the abstract specification of the gate: a change may land after, and only after, the person's consent |
| `GateProperties` | type invariant, safety, action and liveness properties, the inductive invariant, the refinement mapping |
| `GateProofs` | the theorems about the gate: what it decides, and what it leaves behind |
| `MCGate` | instances for TLC |
| `Cards` | `buildCards`: which hunks share a card, in which order |
| `ReviewPanel` | presenter, state machine of a review, explanation calls, webview |
| `ReviewPanelProperties`, `ReviewPanelProofs`, `MCReviewPanel` | its properties, theorems and instances |
| `HookServer` | the gate's HTTP server: the map of pending requests, the cap, fast path, long polls, sweep, stop |
| `HookCalls` | hook scripts with their watchdog and retries, composed with the server and a clock |
| `HookCallsProperties`, `HookCallsProofs`, `MCHookCalls` | their properties, theorems and instances |
| `AppendOnlyLog` | the abstract specification of the journal: a chained log that grows at its end |
| `Journal` | the journal's files, the windows that append to them, crashes, failing calls, edits by hand |
| `JournalProperties`, `MCJournal` | its properties, the refinement mapping and instances |
| `RestorePoints` | the index and the snapshots of one folder, and the windows that save, restore, test and rotate them |
| `JournalView`, `MCJournalView` | the view over them with its polling, restore and Undo; properties, instance |
| `JournalProofs` | theorems about the journal and the restore points |
| `Twins`, `TwinsProofs`, `MCTwins` | the twin of one source file: page, sidecar, runs, staleness timer; properties, theorems, instance |
| `Generation`, `GenerationProofs`, `MCGeneration` | router, channels and cache: probes, chunks, retries, pairing of replies; properties, theorems, instance |
| `Arming`, `ArmingProofs`, `MCArming` | installing, checking, repairing and removing the hook in two windows; properties, theorems, instance |
| `Projects` | a project's permission, its twins that open, its instruction files, the exclude list; properties |
| `Backfill`, `MCProjects` | the backfill over the permissions of `Projects`; properties, instance |
| `ProjectsProofs` | the theorems about the person's files, the exclude list and the backfill's progress files |
| `Selections` | what a filter leaves of a list, as the elements at some of its places |
| `Differ` | pure: the outline of a text, its hunks line by line, the trivial ones, reconstruction |
| `Edits`, `MCEdits` | one tool call on one file from proposal to landing, over `Differ`; properties, instance |

### Gate

One action per stretch of a handler between two awaits; `pc[r]` names the await at
which request `r` is, `before[r]` is what `review()` read from disk before its first
await, `idx[r]` the write being committed, `dec[r]` the decision, `answer[r]` what
`handle()` returned. `Route*` is `route()`; `Triage*`, `Propose`, `Decide`,
`AfterShutdown` and `PresenterFails` are `review()`; `SaveRestorePoint`,
`CommitWrite` and `RestorePointFails` are `commitAccepted()` with `checkpoint()`;
`Partial*` is `commitPartial()`; `PostArrives` and `HandlePost` are
`handlePost()`/`landed()`; `FallbackTimer` is the timer of `expectLanding()`.
`AgentRuns`, `ForeignEdit` are the environment.

Abstractions: a content is the set of hunks applied so far (so "accept these,
revert those" is set difference and equal hashes are equal contents); the journal
is a set of notes, and its awaits are merged with the adjacent stretch since an
append only adds a note; a restore point exists once its `await` is over; a call
is split as `route()` splits it, into the `writes` that are reviewed and those that a
patch makes `besides` (twins, files outside every workspace folder), which nobody is
shown but which the tool makes when the call is allowed (`WholeCall`); the
policies (protected paths, shell commands, notebooks, size limits) give a
nondeterministic answer; the panel gives any of `Decisions`, an over-approximation
of what `ReviewPanel` can return (its invariant `DecisionLoosensLittle`); an
identical re-proposal that changes nothing is answered without a review, as in
the code. Renames (`kind: 'move'`) are not modelled.

### ReviewPanel

`queue`, `active`, `done`, `panel`, `disposed` are the presenter's variables;
`cards`, `current`, `scope`, `files`, `closed` are `ReviewState`; `runs` holds for each
card the locals of `runExplain()`: which of its two tries waits for the assistant,
whether it pauses before the second, which tries may still stream. `Starting` is the
loop of `scheduleExplains()`. `view` is what the webview shows: any earlier state of
the active review, brought up to date by `Render`. `mail` holds clicks on their way;
the `job` field of a message is not in the code's message and is read by no action.
`Accept` ... `Refused` are `dispatch()` with the cases of `reduce()`. `ClosePanel` is
`onDidDispose`. Left out: warnings (the gate never sets any on a request that
reaches the panel, controller.ts:258), the cancellation token (the gate never
cancels it), revealing the file, a review without cards (the gate answers those
itself, controller.ts:433).

### HookServer and HookCalls

`pending[id]` is the map of `server.ts` (`Unknown` is no entry), `deciding` the ids
whose `handle()` has not settled, whether or not the map still has them, `link[c]`
the connection of one script: `sent` (in the socket), `held` (in `waitFor()`, with
the time it has left), `back` (answered), `lost`. `TooBusy`, `RefuseBody`,
`ReceivePost` and `HoldExpires` are the stretches of `onHook()`; `ReceivePoll` and
`HoldExpires` those of `onDecision()`; `Decide` is the callback of `handle()` with the
waiters that it wakes. `Stop` is `stop()` or the death of the process (a
session file of a dead process counts as none, explainit-hook.js:434), `Start` a new
window with a new port and token (`epoch`). A frozen window accepts connections
but runs nothing; what it has not read may be read when it thaws even if the
script has gone (`abandoned`).

`hook[c]` holds the closure of `gateFlow()`: `left` is the time to `deadline`, `timer`
the timeout of the current request or the pause before a retry. `ReadAnswer`,
`ConnectionLost` and `Timeout` are the callback of `request()` for an answer, an error
and a timeout. `Tick` lets time pass only when nothing is ready to run, so a timer of
the model fires when the code's does. `said[c]` and `disturbed` record what was decided
for a call and whether something broke during it. The one-second pause after a heartbeat
that comes at once (line 490) cannot happen, since a heartbeat comes after `LongPoll`. A
script that ends before it asks prints nothing: `NoSession` when no window runs
(`alone`), `Unread` when its input is too long, broken or no JSON, when it throws, or
when the session file of the running window cannot be read (`unread`). Folder matching
among windows is left out: one window owns the files. The decision is any of `Results`;
`Gate` has how it comes about.

### Journal

`active`, `archives`, `tmps` are the files; a file is a sequence of lines and whether
it ends with a newline, a line is an entry or `Junk`. `st[w]` is the `TailState` of a
window (`seen` stands for its `bytes`: two texts of one length are taken to be
equal only if they are equal), `pc[w]` the file-system call its append is about to
make, `job[w]` the locals. `StatMissing` ... `FinishLine` are `ensureLoaded()`, `Readdir`,
`CompleteRotation`, `Discard`, `RecoveryFails` are `recoverTmpArchives()`, `WriteChange` and
`Repair` are `writeEntry()`, `Rotate` ... `NoteRotation` are `rotateIfNeeded()`. `Stop`
kills a process before or in the middle of a call, `CallFails` makes the call fail, and
`BrokenOff` says what either leaves on disk: nothing, part of a line, a line without its
newline, a prefix of a temporary file. `VerifyChain` is `verifyLocked()`; it and
`list()` change nothing. A hash is a fresh number and an entry says whether it still
matches its hash (`intact`). Two windows never choose the same archive name here
(the code distinguishes them by millisecond).

`Log` reads the files as one log, with the archive of a rotation that has swapped
the active file but not yet named its archive: under this mapping the journal
implements `AppendOnlyLog` as long as nobody edits the files, recovery can clean up
and windows take turns. `history` records, for each entry, how it was written and the
log that it continued, and is what `VerifiedIsAsWritten` compares the files with.

### RestorePoints and JournalView

`index` is `index.json` (replaced by a rename, so whole, but `Damaged` by somebody
else), `snap[i]` the file `<id>.snap`, `op[w]` what the queue of window `w` runs: the
stages it still has to go through, each the stretch between two awaits of
`checkpoints.ts` (`ReadForSave`, `WriteSnap`, `WriteIndex`, `Find`, `Look`, `Write`,
`Witness`, `Plan`, `Trim`, `Unlink`, `Sweep`). The lists `SaveStages`, `RestoreStages` and
`RotateStages` are the order of the code. `Fail` and `Crash` may take any stage, with
the file they were writing left torn. Windows have no lock between them; `disturbed`
records that two overlapped or that the clock was set back. `view[w]` is the tree
view: what it shows, whether it has a stamp to compare with, whether VS Code was told
to ask again, whether the last load failed (`LoadFails`; it is not tried again before the
next change). A snapshot's text, labels and the journal's own lines in the tree are left
out.

### Twins

A function is a name and a body (its content hash); the words of a section are the
body they describe. `run["now"]` is the refresh that runs, with its plan, what was
produced and the commit it is at; `run["late"]` one whose assistant answers after the
engine stopped waiting (`engine.ts:693`), which goes on rewriting the page outside the
queue. A commit is three steps: sidecar, page, removal of the page under the old
name; `WriteFails` and `PutBack` are its failures. `torn` is set by the six events that
break the agreement of sidecar and page (the comment on `SidecarTellsTruth` lists them)
and by nothing else: a late rewrite before, between or after the commits of another run
is not excused there. For `MarksCatchUp` it is (`missed`). `Begin` reads the text and plans
(`planSections`, with `matchPrevious` in `MatchPrevious`), or, when the outline fails,
keeps what there is (`PlanWithoutOutline`). `Arrive` and `Rewrite` are the streamed
answers. `Edit`, `Land`, `Sibling` and `Lose` are the person, the gate, a file that
changes the twin's name, and a deleted page or sidecar. `WatchFires` is
`staleWatch.ts`. Left out: the page's text, and edits of the page itself.

### Generation

`req[r]` is a call of `explainFunctions()` (the chunk it is at, the assistants still to
be asked, whether its re-ask is spent), `child[r]` the process or model call that works
for it, `entry` and `probes` the availability cache with the settings and the consent
each check was started under, `mem`, `timer`, `dirty`, `saving` and `file` the cache of
explanations. `Answers` are all replies an assistant may give to a prompt: a part, in
any order, with or without labels, as JSON items or as plain text; `MatchItems` is
`matchItemsToFunctions()` with its three passes (`ByKey`, `ByName`, `ByPlace`), so `mem` holds
for each hash the function its words are about. Left out: `explainChange()`, `segmentWithAi()`,
the forced channel, the estimate, `flush()` and the reading of the file at a restart,
and what a prompt says.

### Arming

All windows work on the same files; `win[w]` is where a window's startup pass or
command is, one file-system call per action. A hooks file is a sequence of groups of
handlers of which `ours` marks our own; `trust` is what Codex knows, by place.
`InstallScript`, `InstallWrapper`, `ReadHooks`, `WriteHooks`, `OpenState`, `FillState` are
`install()` and `update()` with `state.json` truncated first; `Check`, `Rearm`,
`EnsureArmed`, `Arm` and `Greet` the startup of `extension.ts`. The person edits,
breaks and removes hooks, tampers with the script, changes the watchdog, trusts.
`theirs` is what the person's hooks should be, `raced` whether an edit fell between the
read and the rename of a file, `unreadable` the files whose reads fail (`CannotRead`), which
`readText()` takes for missing ones (`Seen`), `lost` those written over in that state,
`quiet` the sessions that nothing disturbed. The text of TOML, JSON and wrappers is left
out; the two events of a file are treated alike by the code and are one here.

### Projects and Backfill

`decision`, `question`, `cool` are the permission of a project, the question on the
screen and its five minutes; `waits` and `opening` the code files whose twin waits for
the answer or is about to be written. `jobs` are calls of `ensure()` and
`ensureGitExclude()` with what they read; an instruction file is a sequence of lines,
of which the markers and the body are told apart (`Upserted` is `upsertSection()`).
`OpenExclude` truncates and `FillExclude` writes. `NoteUnread` and `ReadExcludeFails` are
failed reads, which the code takes for a missing file and an empty list; `NoteFails` and
`ExcludeFails` are the failures that it reports. `unread`, `disturbed` and `emptied` record
what happened to whom, for the properties, and `team` the files that were the person's
when ExplainIT looked. `listening` says whether `extension.ts` has reached the
registration of its listener, which never happens when the preparation throws
(`NoteFails`).

`Backfill` keeps the controller's shared variables (`bstate`, `records`, `pausing`,
`running`, `source`) and one thread for each call of `start()` or `resume()` that is under
way, since `running` is tested before several awaits and set after them. `saved` is
`backfill.json` of each folder, written one folder after the other (`Persist`), so a crash may
leave some folders with a record and some without. `PersistFails` and `SaveFails` are
writes of a progress file that fail, in `start()` where the error is caught or in
`resume()` where it is not, with the file as it was or cut short. `Explain` does one file;
`Stop` is what a pause or a cancel makes of it. `planned` are the files the person
confirmed and nobody has cancelled since; a crash or a failed write takes from it what
it cuts short and what no record names yet. `shared` says whether two calls have ever
worked on the shared variables at once. The estimate is a step without a number.

### Differ and Edits

`Differ` has no variables. Of a line it tells apart its indentation, the function it
defines, its braces, whether it closes a block, what it says without its space, and its
part in the comments and triple-quoted strings of a *style* (the rows of `STYLES`): the
regular expressions that find these are the constants. `Outline` is the order of asking
(`SymbolsToRaw` of a provider's symbols, `ExtractFunctions` of a syntax tree,
`HeuristicRaws` with `BlockEnd` by braces or indentation), `FunctionMap` is
`buildFunctionMap()`. The rest is `differ.ts`: the leaves, the slots between them, the
pairing of both sides' functions, the hunks of each slot, `IsTrivial` with `Stripped` (no
comments, nothing between triple quotes, no space, no line breaks), `Reconstruct`.
Positions count from 0 as in the source. `WhatRuns` in `Edits` is the reference for what a
text runs: it reads the whole file, and keeps triple-quoted values.

`Edits` plays a tool call on a file: `Write`, `Edit` with its strings (whole lines
here), `Update File` with `ParseUpdate`, `SeekSequence` and the chunks put in from the
bottom, `Delete File`. `Propose` makes the hunks from both outlines, `DecidePart` is
`commitPartial()`, `AcceptAll` lets the agent play its call itself, `Touch` is
somebody else. Moves and line endings are left out.

## 3. Runs

| run | bounds | shows |
|---|---|---|
| `gate_core` | 2 requests, 2 files, a twin and a file outside, 4 kinds of calls (two hunks of one file; a patch of two files, one of them new, with the twin and the outside file besides; a deletion; no session), cap 1, memory of 4 keys | the inductive invariant (types, counters, cap, progress, trust of the memory), consent and undo of all that is reviewed; a review that ends after a shutdown only answers ask; rejected hunks are never written |
| `gate_twin` | 2 requests, a file and its twin, 1 pause, 1 foreign edit | what is journaled as applied is journaled as decided, in favour; refinement of `HumanCheckpoint`; every call is answered, every expectation settles |
| `gate_escalation` | 3 requests on two files | counterexample: an automatic acceptance widens the memory |
| `panel_core` | 2 reviews, 3 cards (one of them batched over two files) and 1, one place for explanations, 1 retry, 1 click in flight | types, no review lost, no card forgotten; explained before accepted, one try per text, scope; a patient person decides every review |
| `hook_calls` | 2 scripts (Claude and Codex; Codex with passthrough and a report), 2 calls in flight, fast path 1, long poll 2, watchdog 3 ticks, any two of: a stop, a freeze, a lost connection, an error; any script may fail to read its input or session file | what is printed was decided for that call, nothing that was asked about passes unchecked, no script outlives its watchdog and work is capped, every call ends |
| `journal_core` | 2 windows, 4 appends, files of 2 lines (so two rotations), any two of: a crash, a failing call, an edit by hand, an overlap of two appends | refinement of `AppendOnlyLog`, nothing recorded is lost, no false alarm, what verifies is as it was written |
| `restore_points` | 2 windows, one with the view, 2 paths, contents of two sizes, 3 saves, 2 points per file, one edit, and one crash, failing call, damaged index, overlap or clock set back | what the index lists can be restored; a restore loses nothing and offers an Undo that survives the rotation; the view catches up, or says that it cannot read |
| `twins` | one file of 2 functions in 4 versions (edited, swapped, with each other's body, one gone), 2 names, any 3 of 2 edits or landings, 2 calls, 2 troubles | the sidecar's hashes are those of the words on the page, no run drops words, marks catch up |
| `generation` | one request of 3 functions (two share the last part of their names, the third has only that part) in 2 chunks, one command-line assistant and Copilot, any 3 of 2 changes of consent or settings, 2 failures, 1 cancel | kept answers are of the present settings, no process is left, prompts are bounded, words reach their function, every request ends |
| `arming` | 2 windows with different scripts and one Node, 2 sessions, both assistants, a hook of the person's, any two events | an undisturbed session leaves the hook in place, also where the file cannot be read; but for a file written over unread or edited between read and write, the person's hooks stay and updates keep Codex's trust |
| `project` | one folder with 2 code files and 2 instruction files, 2 calls of `ensure()`, 2 calls of the backfill, any three events, failed reads and writes among them | the person's lines stay and are not hidden from git, but for a file that could not be read; the exclude list keeps the person's lines, though writes cross, unless it was taken for empty; the progress file claims neither too much nor too little |
| `edits` | texts of up to 3 lines over some alphabets, in a language with block comments, one with triple quotes and an unknown one, every write, edit, patch of up to 3 items and deletion, outlines by symbols, tree, heuristics or none | a partial landing is exactly the accepted hunks, the trivial card changes nothing that runs but for the cases its comment names, a patch goes where it fits |

Two concurrent requests are enough for every race of two handlers on a counter, a
path, the memory or the journal: the code has no state that distinguishes a third.
The third request of `gate_escalation` is the change that profits from the widened
memory. Two files give every order of "one fails after the other". A cap of 1 makes
the cap bite with two requests; a memory of 4 keys overflows with two acceptances.
With one place for explanations two cards already compete as three do for the two
places of the code (`MaxInFlight` is a parameter).

The code calls of `gate_twin` have one write of one hunk each, so a decision there is
never partial: its liveness covers the path to an allow and the rejection, and that
`commitPartial()` gets to its answer is not checked as liveness (with a second hunk or a
second write the run takes longer than five minutes). `gate_core` has the partial
decisions and the patch whose later file fails, for safety; that what such a failure
leaves expected was decided is proved for any number of writes
(`AppliedOnlyWhenDecided`).

A cap of 2 lets two calls be decided at the same time and is reached by two calls of
which one is posted again after a lost connection. The times keep the order of the
code's (1.5 s, 25 s, at least 30 s): a long poll fits into a watchdog, two
do not. Of the decisions only `allow` is tried, since the others are
carried in the same way (`ask`, `none` and `deny` come from the cap, the lookup of the
session and the protected paths).

Files of two lines (the least `effectiveMaxEntries()` allows) rotate on the third
append and again on the fourth, so a rotation meets what the one before has left.
Two troubles give every pair (a crash and a failing recovery, a torn line and an
edit, two windows and a crash); three found nothing more with the same bounds.

In `restore_points` three points with two per file make a rotation, and with two sizes
either cap may be the one that bites; the safety point of a restore is the third. In
`twins` three versions a body can move between functions make every case of
`matchPrevious` (same id, same hash elsewhere, nothing); two troubles are a crash and
the failure after it. In `generation` a chunk size of 2 gives a full and a last chunk,
three functions every way in which labels, names and places can disagree. In `arming` a
second version is enough for "older" and "newer", two sessions for a repair of what the
first left; with different Nodes too, the run was tried and finds no more, but takes too
long to repeat each time. In `project` one folder suffices for the races on the person's
files, since folders share only the exclude list, which the two calls of `ensure()`
write already. What several folders add is a crash between two of their progress files:
that takes more states than five minutes allow, was tried with two folders and no calls
of `ensure()`, and is covered by the theorem `ProgressTold`. So is a failed save of a
run that `resume()` began, which takes four events. In `edits` three lines hold two
functions at one place, a nested one, an empty range at the end of the file, and a
comment's or a string's two ends with a line between; longer texts repeat these. Each of
the three cases that `Misjudged` names is met: without any one of them the run finds a
counterexample.

Where a run bounds several kinds of events and all of them together, the joint bound is
what keeps it finite in minutes; each pair or triple of events occurs in every order.
Runs with symmetry permute requests, windows, or the calls of the backfill and of
`ensure()`, and check no liveness. Deadlock is checked for the restore points only:
every other system here may stop (all requests answered, all reviews decided).

### Fairness

`Gate!Fairness`: a handler's next stretch eventually runs (each await has a timeout,
and the person decides or closes an open review), timers fire, renderings end, a
report that was sent is handled. Nothing forces the assistant to call or to run its
tool, or anybody to pause or edit. `ReviewPanel!Fairness`: calls to the assistant
end (they have a timeout in `runExplain()`), messages arrive, and a patient person
accepts the shown card once it is explained or rejects it when it cannot be. The
person is free to do anything else in between.

`Twins!Spec`: a run that is under way goes on (each await has a timeout or is a file
operation), the queue takes its turn, the staleness timer fires. Nothing forces an
assistant to answer: a run that waits ends by `Finish`.
`Generation!Fairness`: checks and attempts end (both have timeouts), a request takes its
next step, a save begins and ends. `JournalView!Fairness`: a window finishes the job it
runs, a visible view polls, and its load takes its turn although others' jobs keep
coming into the queue between (strong fairness: the queue is first come, first served).
`Arming`, `Projects`, `Backfill` and `Edits` are checked for safety only.

`HookCalls!Fairness`: scripts and a running server do what they can, timers fire, and
the window decides what it is asked; a frozen window need not thaw and a stopped one
need not start again.

## 4. Proofs

`GateProofs` proves for every number of requests, files, calls, texts and every cap:

* `TypeCorrect`: `Spec => []TypeOK`;
* `Invariance`: `Spec => []GateInvariant`, the inductive invariant;
* `CapIsKept`: the counters equal the number of waiting reviews and the cap holds;
* `NothingWithoutTheHuman`: `Spec => []AllowNeedsHuman`: each write of an allowed call had all
  its hunks accepted, or the person accepted something in the same session; or it is
  a twin's, or outside the workspace, and came with reviewed code (section 5);
* `ShutdownNeverDecides`: `Spec => ShutdownAnswersAsk`: a review that ends after the shutdown
  answers ask and leaves memory, journal, disk, restore points and expectations alone;
* `Refinement`: `Spec => ImplementsHumanCheckpoint`.

`GateInvariant` conjoins the type invariant with what makes it inductive: `idx` is a
position of a write while one is being committed (`IndexOK`); the counters equal
the number of requests between `TakeSlot` and `ReleaseSlot` (`PendingMatchesReviews`);
what the position of a handler says about its call, decision and answer
(`ProgressOK`); and that every entry of the memory stems from a session in which the
person accepted something (`TrustOK`), which is what an automatic acceptance rests
on. Without the last two, "allowed" in a state says nothing about how it came
about. The proofs assume only the named assumptions on constants in `Hunks`,
`DecisionMemory` and `Gate`.

A second part goes on from `GateInvariant` to what the gate leaves behind:

* `RestorePointsFirst`: `Spec => []AllowIsUndoable`. Strengthening (`SecuredSoFar`): while
  the writes of a call are committed one after the other, those before `idx` have a
  restore point and a note, and the current one has its restore point once it is
  about to be committed;
* `AppliedOnlyWhenDecided`: `Spec => []AppliedWasDecided`: a note "applied" has its
  "decided", since an expectation is only set with that note (`RecordedOK`), and its
  request was decided in favour (`FavouredOK`);
* `RejectedNeverLands`: `OneSectionPerFile => (Spec => RejectedStaysOut)`. The hypothesis says
  that a call names each file once: without it the statement is false, because
  `hunksByPath` keeps the last section only (section 5).

`HookCallsProofs` proves, for any number of calls and any times:

* `WorkIsCapped`: `Spec => []CapOnWork`. Strengthening: what is being decided is in
  the map as undecided (`DecidingIsPending`), so the cap on the map's undecided
  entries bounds it; the sweep and errors only remove what is finished;
* `NobodyHangs`: `Spec => []NeverHangs`. Strengthening (`TimersMeetDeadline`): the timer
  of a request ends at most a tick after the deadline, the pause before a retry not
  after it;
* `StaysWithinBounds`: both together, as `hook_calls` checks them;
* `NothingUncheckedPasses`: `Spec => []NothingPassesUnchecked`. Strengthening
  (`Ownership`): an id belongs to the one call it was made for, so what a connection
  carries and a script prints, whatever broke, was said of that call; the silence of a
  script that has not asked (`alone`, `unread`) is the named exception;
* `DecisionArrives`: `Spec => []AnswerIsTheDecision`. Strengthening (`Calm`): for a call
  that nothing disturbed the window is up, the question on the connection ends before
  the watchdog, and a decision does not age before the script reads it.

They assume `ServerAssumption` and `HookAssumption` (a long poll fits into a watchdog).

`ReviewPanelProofs` proves, for any reviews, cards, files, places and retries:

* `NoReviewLost`: `Spec => []PanelInvariant`;
* `AcceptNeedsExplanation`: `Spec => []AcceptedWasExplained`;
* `LoosensLittle`: `Spec => []DecisionLoosensLittle`.

All three follow from one inductive invariant, `PanelIInv`: the queue names each review once
and none that is shown or over (`Line`); and of each review its *dossier* (cards,
explanation calls, choices) is that of a review not yet begun, on the screen, or over
(`Dossiers`). The parts that were missing: a card's call and its text agree on the try
that streams (`CellOK`), a card that still waits for its explanation waits for a place
among those in flight (`Served`), and what an "accept the rest" widened was explained by the card
where it was chosen (`Explained`, `Widened`). `LoosensLittle` needs one more fact, inductive on
its own beside `PanelIInv`: the files and the scope kept are those of "rest of" clicks that
were obeyed on cards of this review (`AskedIInv`, over the recorded clicks `asked`). They
assume `CardsAssumption` and `LimitsAssumption`.

`GenerationProofs` proves, for any requests, functions, channels and chunk sizes:

* `AnswersKeptAreCurrent`: `Spec => []AnswersAreCurrent`;
* `NobodyWaitsForNothing`: whoever waits for a check waits for one that is under way;
  this is no property of a run, but is what the liveness of `generation` rests on;
* `NoProcessOutlives`: `Spec => []NoChildLeft`;
* `PromptsAreBounded`: `Spec => []SpendIsBounded`;
* `WordsReachTheirFunction`: `Spec => []WordsFindTheirFunction`.

The first four follow from `GenerationIInv`, which has two halves that do not need each
other: what the availability cache and its checks know (`Checks`: an entry names the
settings and the consent its check was started under, or a check with its number is
still running), and each request with its process (`AtWork`: a process belongs to a
request that waits for it, or to one that was cancelled and is then no longer fed;
prompts sent and still owed are counted by turns and by the one re-ask).

The last has an invariant of its own, `WordsIInv`: memory, the file and what a save is writing
hold true words only, and so does what a request keeps while it asks again; the chunk of
which it asks a part was itself sent whole, so it is a prompt. What a reply brings is proved
pass by pass of `matchItemsToFunctions()`: an item with its label goes to the function with
that label (no hash is a label, which is assumed); one with a name finds the function it is
about still free, for whatever had gone there would be about it too (`ByNameFits`); what is
left, if as many functions are left, is in the order of the prompt, so the k-th open place
is that of the k-th item (`ByPlaceFits`, by counting what lies below). The
code goes through items one by one, the model folds; that a fold exists and stays where its
steps do (`FoldExists`, `FoldStays`) is proved with a least counterexample instead of an
induction, as in `TwinsProofs`. The theorem is about the replies of `AssistantReplies`:
sections 3 and 5 say which it leaves out. All five assume `GenerationAssumption`.

`TwinsProofs` proves, for any functions, texts and names:

* `HashesAreOfTheWords`: `Spec => []SidecarTellsTruth`;
* `WordsAreKept`: `Spec => []NoWordsLost`.

For the first, `TwinsIInv` says, of a disk that is not torn: sidecar and
page agree and no other page exists, except within the steps of a commit, where the page
still goes with the sidecar that was replaced (`over`), and after them, until the old page
is gone (`DiskOK`); a plan keeps a hash only with the words it was written for
(`SoundPlan`); and the two runs are not both in the middle of a commit. A late run may
write at any other time.

The second needs a different invariant, `WordsIInv`: sidecars, pages and plans name each
function once (`NamedOnce`), and the plan of a run has words for every function in hand and a
body for every one it asks about (`Provides`), so that a last page built from it has
no gap. That a plan provides them is a matter of `MatchPrevious`, two folds that claim sections
first by body, then by name: a function whose section nobody else can have by body
gets it by name at the latest (`OwnSectionIsClaimed`). The folds are those of the model,
not an equation put in their place: that the fold of the community modules has a solution is
`FoldExists`, its steps are `Passes`, and what holds after each is shown by the least step at which it
would fail (`Climb`, from `LeastNumber`, the one place that uses a well-founded order).
Both assume `TwinsAssumption`.

`JournalProofs` proves of the change journal, for any windows, rotation length and bounds:

* `VerifiedHistoryIsWritten`: `JournalSpec => []VerifiedIsAsWritten`: whatever crashes, failed calls,
  simultaneous appends and edits of the files there were, a journal that verifies
  holds its entries as they were written, each behind the log that it continued.

`JournalIInv` says where lines can come from (`Holds`: every line of the files, of a tail
state and of a rotation under way is junk, an entry as it was written, or one that somebody
has altered) and what is remembered of each hash (`Remembers`: its entry, and a list of
hashes that leads to it from the genesis hash). It says nothing of the order of lines, which
people can change at will: the order follows from verification itself. Two lists of
hashes that end with the same one, and of which each link is the `prev` of the next, are the
same list (`SamePast`, counted from the end), so the chain that verification has walked is the log
that the entry continued. Archives are put in chain order by their ranks; that each rank is
taken by one archive is `RankTaken`.

* `TheLogOnlyGrows`: `JournalSpec => AppendOnly`, the refinement of `AppendOnlyLog`: as long as
  nobody edits the files, recoveries can clean up and windows take turns, a step of the
  program leaves `Log` alone or adds one entry at its end, chained to the last.
* `HonestJournalVerifies`: `JournalSpec => []JournalInvariant`: the types and bounds; that every
  entry that was written and synced is still in the files (`RecordedIsKept`); that
  verification reports nothing once an append has gone through (`NoFalseAlarm`).

For these the order of lines matters, and `JournalIInv` allows any. `Honest` adds, while the
journal is undisturbed, what the files hold together (`Whole`: the archives in order, the
archive that a rotation has not yet named, the active file without a line that was cut
off): one chain in which each entry has the number of its place (`Chained`), of which the
archives are the beginning and every note names an archive and its last hash (`Filed`), with
temporary files of the last rotation only (`Named`). For the one window that is in an append,
`AtWork` says for each file-system call what it knows of the files: that its tail is that of
the active file, that no rotation is left over once it writes, that the halves it has
written make up the file. For the others, `AtRest` says that their tail is one the file had,
and after a half rotation only an earlier one: this is why the next append reads the file
again and finds what to finish. A temporary archive is told from a copy of lines
that are still in the active file by the `prev` of the first line there
(`CopyDoesNotLink`, `Completed`): no hash is in a chain twice. Each step maps `Whole` to itself or
adds one entry, torn entries included (`TornEntryGoesOn`), and `Log` equals it whenever
nothing disturbed the journal (`LogIs`). The bounds need that archives and appends before
their rotation are no more than the appends that were started (`Bounded`). Besides
`JournalConstants` they assume `JournalValues`: a missing file is not a text, and a line that is no
entry is not an entry.

It also proves of the restore points, for any windows, files, contents and caps:

* `ListedCanBeRestored`: `Spec => []IndexedIsRestorable`;
* `RestoreLosesNothing`: `Spec => RestoresAreSafe`, an action property: a restore writes
  what was saved, and before it replaces anything the present content is a point that
  is listed and that its own rotation keeps.

`RestoreIInv` has a part that holds always (`Recorded`: a snapshot is whole or torn but
never another point's; what a job holds was saved) and one that holds while windows take
turns and the clock runs forward (`InTurn`: at each stage of the one job that runs, what
of index and snapshots it has read is still so; the safety point is the newest, so
`planRotation` keeps it). It assumes `RestoreAssumption` and `ViewersAssumption`.

`ProjectsProofs` proves, for any folders, files, calls of `ensure()` at once and edits:

* `FilesStayThePersons`: `Spec => []PersonsFilesStay`;
* `CreatedFilesStayOut`: `Spec => []ExcludeIsWhole`.

`ProjectsIInv` says where each call is and what it holds (`JobsOK`), that each file and each
text a call is about to write has at most one section, with nothing of the person's in it
(`NotesOK`), that no file of the person's is in the exclude list or held for it
(`TeamIsSeen`), and two things of that list (`ListKept`). Undisturbed, it is in one of three
states. It is whole; or one call has emptied it and holds all that was in it; or the
writes of two calls cross. The third is needed: as long as a call holds an old list and
is about to write, nothing is lost yet, and when it does write it finds a list that it
did not read, which is what `disturbed` records. And however writes cross, as long as
nobody took the list for empty, the person's own lines are in it or will be written by
the call that has emptied it, and are in all that calls hold (`OwnKept`). The hypotheses besides
`ProjectsAssumption` are `ListsAssumption` (there is one instruction file per assistant in
each folder) and `NotesAssumption` (the files hold no stray marker at first; with one,
`upsertSection()` takes the person's lines, section 5).

A second part of `ProjectsProofs` goes on to the backfill, for any folders, files in them and
calls of `start()` and `resume()`:

* `ProgressTold`: `Spec => []ProgressIsTrue`: what a progress file calls done has its words or
  was skipped; and whenever no call is under way, and no two have shared the controller's
  variables, every file that the person confirmed and that still has no words is in a
  progress file, unless it was in one that a failed write or a crash cut short.

`BackfillIInv` has a part that holds always (`Claims`: what records, progress files and calls
under way say is done was done) and one while one call works at a time (`InTurn`): either
nobody works, and of the confirmed files each is in a progress file and what is left of
it in memory is on disk (`AtRest`, `Covers`; after a failed save the memory is ahead of the
disk, so the two need not be equal), or one call does
and its stage tells what is so (`AtWork`: what it still has to estimate, to persist, to
explain and to close). `AtRest` is what the second call of `resume()` starts from; without
it nothing is known of the records it takes over. The hypothesis is `BackfillAssumption`
(the files are a finite list, and the values that stand for "nothing" are none of the
others).

`ArmingProofs` proves, for any windows, versions, Nodes, sessions, assistants and hooks files:

* `HooksAreKept`: `Spec => []PersonsHooksKept`;
* `TrustStays`: `Spec => []TrustOutlivesUpdates`;
* `SessionsArm`: `Spec => []QuietStartupArms`.

The first two follow from `ArmingInv`: the types, and of each window what it holds while it
writes (`WindowsFine`: what it will write has the person's handlers as they were read, and
our entry where it was read if Codex is to keep its trust, unless it holds the file
*blind*, not having been able to read it), with the two properties
themselves, of which the second is stated with the place at which our entry stands
(`TrustPlaced`). The third needs another invariant, `QuietInv`: of each assistant an
undisturbed session either still *owes* a step that will arm it or has it in place with the
record to match (`Mended`), and of the installation under way how far it has come
(`OnTheWay`). The filters of hooks files (`ownHandlers`, `withoutOurs`) are selections of
places, and that a selection is in order and complete is proved by counting the places
below (`RanksGrow`), where an induction over the list would be the obvious way. Hypotheses:
`ArmingAssumption` and `HooksAssumption`.

No theorem has a hypothesis on the size of an instance. TLC checked each inductive
invariant on the run's instance before it was proved, and evaluates each assumption on
every run.

### What the attempts at proofs changed

* Journal: `history` kept the hashes in front of an entry and not the entry, so the
  property could say that a verified chain is in order and not that its entries are
  the ones that were written; it now says both. Archives whose first entries have one
  seq (after somebody copied lines between files) were put in an order of TLC's choice; the code
  sorts them by name (journal.ts:496).
* Twins: `Explained` is a fold, which can be reasoned about, instead of `SelectSeq`; and
  `TwinsAssumption` says that a text is a sequence.
* Twins: the invariant was not inductive when the sidecar was lost while its page
  stayed. What follows is real and longer than the run's bound of events: section 5,
  "an orphaned page". The model now counts it as a torn disk.
* Restore points: `LosesNothing` said too much of a damaged index: another window's
  `list()` sets the damaged file aside in the middle of a restore, and its safety
  point is then in no index. The property now names this case.
* Restore points: the index is a set of points (its order never matters), and the
  rotation's choice is written as IF instead of overlapping cases, where TLC took the
  first and the prover may take any.
* Panel: the type of cards says that each has hunks, as `buildCards` makes them; the
  instance's cards had them already, but the statements about decisions are not true
  of a card of nothing.
* Generation: the order of channels is a sequence, which the assumption did not say; that a
  hash is no label and that no two functions of a request have one hash is assumed by
  name now, as is that their whole names differ (section 5). The filters and the pass by
  place are selections of places instead of `SelectSeq` and folds, and `Answers` is a set
  with the prompt each answer is to instead of a function; the run's states are the
  same, one by one.
* Projects: the assumptions on markers and lists, which the instance satisfied
  silently, are stated.
* Arming and backfill: filters are written as selections of places (`Selections`), which can
  be reasoned about; `SelectSeq` is recursive.
* Arming: `QuietStartupArms` claimed that the wrapper starts the window's own Node. That is
  false of two windows of one version with different Nodes, which the instance did not
  contain: the second finds the wrapper as recorded and leaves it.
* Backfill: `ForgetsNone` was false of two folders (a crash between their progress files) and
  of a second `start()` that takes back a pause (section 5). The model now has the progress
  files of all folders and says what a crash takes with it, and the property holds
  without the exception it made for a paused run.

### Only model-checked

* Liveness, which is out of the prover's reach: that calls, reviews, requests and
  expectations end, that marks and the view catch up.
* Everything about `Edits`: `Differ` has two recursive operators (over symbols and syntax
  trees).

## 5. Disagreements between code and documents

Shown by a run (see "findings" in PROJECT.json):

* an automatic decision has scope `session` (controller.ts:450) and is remembered, so
  re-proposing one accepted hunk opens the session, against memory.ts:15.

Observed while modelling; where a property would be violated, the model keeps the
behaviour and the property names the case it leaves out, or the constants do not
contain it. Gate and panel:

* `hunksByPath` keeps the last section of a file (controller.ts:420), so an earlier
  section of the same patch is allowed unseen, against goal.md:19;
* of a patch that also writes a twin or a file outside every workspace folder only the
  rest is reviewed, gets restore points and is expected to land, and allow answers the
  whole call (controller.ts:232-244, 261-267): against README.md:24 ("every change
  ExplainIT sees is written to a tamper-evident local journal, a restore point is saved
  first") and controller.ts:240-241 ("a planted twin can never be the one the person
  ends up reading": the report of such a twin is ignored, it is not re-rendered).
  `AllowNeedsHuman` and `AllowIsUndoable` name the exception;
* the webview's messages name no review (panel.ts:392, review.js:312), so a late click
  decides the next review's card of the same id;
* a proposal that cannot be built, other than a patch, is left to the assistant's own
  check (controller.ts:220-228).

Journal, hook and gate, details:

* a rotation and a recovery that both fail to rename an archive, then another
  rotation: the next recovery takes the archive for stale and deletes it
  (journal.ts:463), against "the journal itself stays intact" (journal.ts:420);
* a journal that was set aside as docs/runbooks/5:35 says starts at the genesis hash
  (journal.ts:324) and cannot verify behind existing archives;
* two windows whose appends overlap fork the chain or lose an entry to the other's
  rotation: the size is compared before the append and there is no lock
  (journal.ts:328, 388-407);
* between the two renames of a rotation a crash leaves a journal that verification
  reports as missing an archive (journal.ts:164) until the next append;
* entries cut off at the end of the journal leave a chain that verifies, while
  runbook 5 says "any edit, deletion or reordering of past entries" is found;
* nothing tells the controller that a script has gone: a retried POST is reviewed
  twice (explainit-hook.js:498-500), and after the watchdog the review stays open
  while the assistant may already have run the tool on its own prompt;
* Codex gets an empty answer for the `ask` of the cap (explainit-hook.js:82-86), so a
  call above the cap goes on by Codex's own approval flow;
* an input over 8 MB or broken, an exception, or a session file that cannot be read makes the
  script print nothing although a window runs (explainit-hook.js:424-432, 511-516, 536-541):
  as explainit-hook.js:21 says of "anything unexpected", and against "never lets a change
  through unchecked unless the person asked for that" (16-17). `NothingPassesUnchecked`
  names the case;
* a payload that fits the script's limit of 8 MB but not the server's with its
  envelope is refused with 413 and printed as "not responding"
  (explainit-hook.js:44, server.ts:16);
* `setPaused` clears the memory (controller.ts:130), but a commit that is under way
  remembers its acceptance afterwards (controller.ts:567-573);
* between the re-read of a file (controller.ts:632) and its write (660) lies the
  restore point's await (641): what another tool writes in between is overwritten;
* "ExplainIT did not write anything" (controller.ts:637) is also said when an earlier
  file of the same patch was already written;
* a change that is identical to the disk is allowed without an expectation, and its
  `PostToolUse` is journaled as one that ExplainIT "had not allowed"
  (controller.ts:438, 335);
* an accepted deletion in a partly accepted patch is not journaled
  (controller.ts:653-655);
* the fallback timer of a twin consumes the expectation after 10 s even when nothing
  landed (controller.ts:580), so a later write is not undone by a re-rendering;
* a hunk's id does not contain its before text (differ.ts:232), so an accepted
  deletion covers another deletion at the same function;
* "Accept rest of file" on the batched card accepts the batched hunks of other files
  too (state.ts:222-234, html.ts:195-216);
* the webview's draft of a rejection is kept by card id (review.js:11) and reappears
  on the next review's card of the same id.

Restore points:

* checkpoints.ts:203 says "the newest restore point per file is always kept";
  `planRotation` (86-92) keeps the newest overall and drops others of any file when the
  total is too large;
* a damaged index reads as empty, and the next sweep removes the snapshots it no
  longer names; with the clock set back a safety point may be the first to go;
* when the index is damaged and another window lists it during a restore, that
  window sets it aside and the restore's Undo point is in no index;
* an edit between the look at a file and its replacement (checkpoints.ts:320) is in no
  restore point, although commands.ts:447 says that nothing is lost;
* when the journal or the index cannot be read, the view's own message (treeView.ts:188-191)
  is not shown: `fileNodes()` is returned, not awaited, inside the `try` (171, 179), so VS
  Code reports the error; the list is not loaded again before the next change;
* `rotate()` has no caller.

Twins:

* an edit within five seconds of a landing, or before the first sidecar, is not marked
  (staleWatch.ts:24-25), against README.md:68; answers that come after the engine
  stopped waiting rewrite the page outside the queue (engine.ts:693, 438);
* a crash between the sidecar and the page (engine.ts:573-576) leaves the hashes of words
  that are not there: a function that has since taken another one's body matches
  by hash, and the next run shows the other's old words as current;
* nothing orders the commits of a late run and of the next one: the sidecar of one and
  the page of the other may stay, and a run that starts between the two writes of a late
  one plans with the one's hashes and the other's words. A late run that cannot write its
  page puts back the sidecar of its own last commit (engine.ts:576-578), not the one it
  replaced;
* "Regenerate the whole twin" on an unchanged twin that is complete takes the fast
  path and rewrites nothing (engine.ts:538), against README.md:107; a twin whose marks
  were set is opened by the fast path as it is; a change of the twin's name makes no
  staleness pass;
* `matchPrevious` may give two functions of one body each other's words;
* an orphaned page: the sidecar is lost while page A exists, the name of the twin
  changes to B (a sibling file), page B is written and A is unknown and stays
  (engine.ts:533-534), the name changes back to A: the next run reads page A beside the
  sidecar of B and shows words as current that are not, against stale.ts:7 and
  engine.ts:774.

Generation:

* a token that fires while Copilot's models are listed is not looked at before the
  prompt is sent (lm.ts:107); consent is read once per request; an older probe may
  overwrite what a newer one resolved (`lastResolved`);
* `dirty` is reset before a write that may fail, and the write without a temporary file
  is not atomic (cache.ts:76-86), against cache.ts:6;
* an item that gives only the last part of a name two functions share, or comes
  twice, may go to the other one (parse.ts:271-281); names that differ in case or
  underscores only are the same key. `AssistantReplies` leaves both out;
* two functions of one whole name (overloads) in one prompt are told apart by their labels
  only: a plain-text reply about the second one alone goes to the first (parse.ts:274-277).
  `GenerationAssumption` leaves such functions out.

Adapters:

* Disconnect (README.md:118) lasts until the next activation, since `ensureArmed()`
  runs at each; a hooks file that does not parse counts as armed; an older window
  says that a newer script "ships a newer" one;
* a hooks file that cannot be read counts as a missing one (installer.ts:168-178): `install()`
  writes it over with our entries alone, without the backup of installer.ts:190, and so does
  the startup pass, for which `verifyConfigFile()` calls it a missing file to be mended
  (installer.ts:217); Codex's trust goes with the place. Disconnect finds nothing in it,
  forgets the record and leaves our entries. `PersonsHooksKept` and `TrustOutlivesUpdates`
  state this as an exception, `QuietStartupArms` covers it;
* Codex's trust is lost when the person had added a group after ours; a root `hooks`
  that is an array, or an event that is none, is replaced (the backup stays);
* two windows of one version with different Nodes share one wrapper: arming an assistant
  from the second rewrites it, the other assistant's record no longer matches
  (installer.ts:224-250) and the next session reports it as changed by somebody;
* state.json read while another window has truncated it counts as fresh; `install()`
  replaces script and wrapper before it has read a hooks file that may be broken.

Projects:

* a backfill explains the files of refused folders (`?? folders[0]`, backfill.ts:105),
  although backfill.ts:201 says "refused ones are skipped" and README.md:39 that
  ExplainIT stays quiet there; `resume()` and a running backfill never ask again;
* connect, doctor and "Update instructions" write the files of refused projects as
  well (commands.ts:324, onboarding.ts:93, doctor.ts:239);
* a crash while the progress files of several folders are written (backfill.ts:253-257)
  forgets the folders whose turn had not come: the run that resumes ends with "every
  code file now has a plain-English twin";
* a second `start()` that is still reading the disk can take back a pause: the run that was
  stopping ends as "done" and clears its progress files;
* two calls of `start()` share records and the first's cancel source is lost
  (backfill.ts:191); the second's estimate empties the first's records, so a pause
  loses its progress file; a cancel during the estimate says "cancelled" and has no
  effect; a cancel followed by a resume may end as "done" or stay "running"; a file
  skipped for want of an assistant counts as done;
* a stray start marker makes the second `upsertSection()` take the person's text for
  the section (sections.ts:64-81); edits with markers in them are not modelled;
* an instruction file that is there but cannot be read counts as missing
  (instructions/index.ts:40-44): its text is replaced by the section alone and it is
  excluded from git, against instructions/index.ts:3 and 7. `PersonsFilesStay` names the
  exception;
* a file the person puts where a pattern is listed or on its way (ExplainIT had created
  one there, or is creating it) is hidden with it; whether a file is ExplainIT's own is
  decided once, at the read (instructions/index.ts:56). `team` leaves such files out;
* an exclude list that cannot be read counts as empty (gitExclude.ts:96-104), and the
  person's lines are lost; so they are when a call reads between the truncation and the
  write of another, or when the write (104) or the window ends half-way. `ExcludeIsWhole`
  names these cases;
* a created file whose exclusion failed is never excluded later; of two calls whose
  reads and writes cross, two folders of one repository among them, one loses its pattern;
* a write of a progress file that fails (backfill.ts:53) may have cut it short, and then
  forgets the confirmed files of its record, against backfillState.ts:4; one that fails in
  `start()` (256) also those of the folders whose turn had not come. `ForgetsNone` leaves
  these out. In `resume()` nobody catches the error: the state stays "running";
* the permission's listener is registered after the preparation and not at all if
  that throws (extension.ts:143-151).

Edits:

* "Only spacing, blank lines or comments changed" and "The code will behave exactly as
  before" (html.ts:255-256) are said of hunks that are judged alone (differ.ts:231), without
  anything between triple quotes (trivial.ts:89-94) and without any space, in strings too
  (123). So a hunk counts as trivial that stands in a comment or string, that opens or
  shuts one for the lines after it, that changes a triple-quoted value, Python's
  indentation, a line break that ends a statement or the blanks of a string.
  `TrivialKeepsCode` names the first three; what runs is compared without space;
* of an insertion and a replacement at the same place one is overwritten
  (applyPatch.ts:276-281); a chunk of a blank line at the end of the file may match
  nothing; a blank last line is lost;
* when no outline can be made the hint of a hunk falls back to the map of the text
  before.

## 6. Not modelled

* `policy.ts` and `shell.ts`: what a path or a command touches, functions of their
  input; `Gate` takes any answer of theirs. Notebooks and size caps likewise.
* Renames in a patch, line endings, old strings within a line.
* The Copilot watcher: it shows decorations and writes nothing.
* `explainChange()`, segmentation by an assistant, the forced channel, the estimate,
  prompts, the arguments and output formats of the command-line tools.
* An editor that saves an instruction file between `ensure()`'s read and its rename, and
  an unlink that fails in `clearPersisted()`, which is ignored (backfill.ts:56).
* The text of pages, instruction sections, TOML, JSON and wrappers; the heuristics'
  regular expressions, docstrings, COBOL and Pascal blocks; syntax trees are inputs.
* Status bar, views, doctor's checks, wording, logging: presentation.

## 7. Plan

Done: the modules of section 2. Next, in this order:

1. An abstract specification of the restore points (a set of points that only a
   rotation shrinks) and its refinement.
2. The composition of `Twins` with `Generation` (now: answers may come at any time) and
   of `Gate` with `HookCalls` when a script has gone while its review is open.
3. Renames in `Gate` and `Edits`; the Copilot watcher's timers.
