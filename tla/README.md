# TLA+ models of AIMonitor

AIMonitor lets an AI agent propose changes to a C#/Razor solution without
writing its source. The agent edits a monitor-owned *Working* copy, stages it as
an immutable record, and a person compares it with the watched file in WinMerge,
saves what is wanted, and accepts or rejects. An accepted change then has to
find its way into a SQLite index of the solution's symbols. The system runs as
several processes (command line, MCP server, desktop app, proxy hub) that share
one runtime folder and one database.

These modules model the parts where the order of calls, overlapping calls,
crashes and stale state decide whether that works. Run a model with

    tlc -workers 2 -config MCEditWorkflow.cfg MCEditWorkflow.tla
    tlapm EditWorkflowProofs.tla

## 1. The system

| Component | State | Operations | Hard behaviour | Modules |
|---|---|---|---|---|
| Edit workflow service (`AIMonitor.Workflow/WorkflowEditService.cs`) | session manifest and Working file per watched file, staged records | Refresh, NewFile, SubmitFile, WriteWorkingCandidate, ReplaceText/Span, Stage, RecordDiffLaunch, RecordPreMergeValidation, PrepareReviewFileForLaunch, RecordDecision, Accept/Reject, MarkIndexFresh | any order of calls; restaging; line endings; operator saves between calls | `EditWorkflow`, `FileContent`, `ReviewGate` |
| Runtime folder (same file, persistence part) | manifest files, lock files, staged record files | the reads and writes inside those calls | overlap, crash between writes, lock deadline | `RecordStore` |
| Decision and index refresh (`StagedDecisionWorkflow`, `PostAcceptIndexRefreshService`, rebuild services) | stale marks | Record, RebuildAfterAcceptedDecision, RebuildAsync, marks | deferral over a session, fallback, failure between save and marks | `IndexRefresh` |
| Index database and store (`AIMonitor.Data`) | rows, schema version, rebuild marker | EnsureCreated, SaveSnapshot, ReplaceProjectFiles, inbound dependents | schema change, partial replacement, references between projects | `IndexRefresh` |
| MSBuild workspace loader | none | load of a solution or project | loads that come back without projects; references it leaves out | `IndexRefresh` (what is extracted) |
| MCP server: planned sessions (`McpServer/Program.cs`) | session files, plan | StartMonitorSession, SetMonitorSessionEditPlan, RefreshFile, StageCandidateForReview, LaunchStagedDiff, RecordDiffDecision, RecordMonitorSessionEvent, GetFile, CheckFileHash | plan, candidates and decisions out of step; session files changed by overlapping tools | `PlannedSession`, `SessionFiles`; `IndexRefresh` (refresh options) |
| CLI | none | `edit ...`, `index rebuild` | decides without a plan | `IndexRefresh`, `EditWorkflow` |
| Review launch and pre-merge validation (`StagedDiffLaunchWorkflow`, `PreMergeValidationService`) | launch results, overlay folders | Launch, Validate, override prompt, terminal build | records, plan and source change during a build; which tree a build vouches for | `PlannedSession` |
| MCP proxy hub and stdio bridge (`McpProxyHubService.cs`, `McpStdioBridge`) | pipe, server process, pumps, pending requests | connect, handshake, forward, relay, StopChildAsync, Dispose | who learns of which end; answers on their way when something ends | `McpProxy` |
| Logging pipe (`AIMonitor.Logging`) | log file, one pipe connection | Write, WriteFallback, ListenAsync, append, Dispose | a busy or closing app; appends of two processes; lost, doubled and late entries | `LogPipe` |
| Roslyn edits, index queries, settings and paths, WinForms, run ledger, Monaco assets | none, display, or write-only | | | not modelled |

How they interact: the CLI, the MCP server and the app each call the workflow
service in their own process, so nothing but the files orders two calls. A
decision runs in one process from the record to the refresh it leads to. The
MCP server computes, before it records a decision, whether the refresh can wait
for the other files of the session's edit plan. WinMerge, started for a launch,
lets the operator save the watched file at any time. `PROJECT.json` lists the
hazards with the line where each one bites and the property that covers it.

What makes each component correct, in one sentence each:

- Edit workflow: source changes only by the operator's hand (an empty
  placeholder aside), at most one record per file can be decided, and an accept
  needs a validated and shown record whose text the operator has saved.
- Runtime folder: no crash or overlap leaves a manifest that names nothing, an
  accept with no evidence, a gate undone, or a call that never ends.
- Planned session: a staged batch can be reviewed to its end in any order, and
  the decision that completes it rests on a build of what is then on disk.
- Index refresh: a stale mark goes only when the index has the accepted text,
  and it does not stay when nothing is left that would remove it. Overlapping
  calls break both, and the properties name every way in which they can.
- Session files: what a tool saved is not undone by the next one, a decision sees
  the plan of its session, and check_file_hash speaks of what the agent has.
- Logging pipe: an entry comes to the file once, in the order of its writer, and
  logging never holds up the call that logs.
- Index database: it never mixes projects of before and after a schema change,
  is never emptied by a bad load, and a scoped save breaks no reference.

## 2. The modules and the code

**`FileContent`** is what the workflow can tell apart in a file: a text and how
its lines end. `FileHash.Compute` separates contents, the normalized hash
separates texts, and `CandidateText` is what writing a candidate does to line
endings. A content stands for its own hash; hash collisions are not modelled.

**`EditWorkflow`** has one action per call of `WorkflowEditService` that changes
state, and two for what happens outside it (the operator saves, the agent
edits a Working file). A call that throws before it writes is no step; a call
that throws after a write (SubmitFile's syntax check) is one with that write
only. `manifest`, `records`, `working` and `watched` are the files of
the same name. `operatorSaved` is a history variable. Calls are atomic here.
Left out is what the service only writes: backups, compare snapshots, ledger.

**`ReviewGate`** is the abstract specification: what a reviewing person is
promised, in terms of the source and a set of proposals. `EditWorkflow!Gate`
instantiates it with a record seen as a proposal (`ProposalOf`), and
`KeepsReviewGate` says that every step of the service is a step of it. The
history variable `saves` tells whose hand a write of source was: only
`OperatorSaves` flips it, and a step of `ReviewGate` that leaves it alone may
do no more to the source than put a blank placeholder in place of an absent
file, or take a blank one away when the proposal of a new file is closed.

**`RecordStore`** takes the calls on one file apart. Manifests are read and
written under a lock file; staged records are loaded, checked and later written
back whole without it. `call[c]` is how far a call is and what it has read;
`Fail` is a crash or an I/O error at any point, which also frees the lock
because the lock is an open file handle. `alone` is a history variable: it
is true as long as no two calls were under way at once.

**`PlannedSession`** is one MCP session. `plan` is the session file's edit plan,
`watched` the sources, `session` the manifests, `records` the staged records,
and `call[c]` a launch or a decision that is under way. Both run `dotnet build`
between reading and writing, for up to three minutes, and so have a Begin and
an End step; other calls are single steps that may come between. What a launch
builds is the tree of the newest active candidates (`GetStagedOverlayRecords`,
`NormalizeOverlayRecords`); what the last decision of a plan builds is
`TerminalTree`, from the records of accepted files and, in every case, the record
in hand. `GoodTrees` stands for the compiler: which texts build together. A
build may fail for other reasons (`Builds` is asked of the ones that pass). The
edit tools of `EditWorkflow` are reduced to "a candidate is any text", and
"rejected" stands for any decision but an accept.

**`SessionFiles`** is the file of one session, below `PlannedSession`. A tool
loads it, copies it with one change and writes all of it (`load`, `open`,
`close` of `call[c]`); get_file and set_monitor_session_edit_plan do that twice,
once for the access or the plan and once for the event that tells of it.
`File.WriteAllText` empties the file before it fills it and lets nobody else
open it meanwhile, so a call that overlaps with a save fails with an
IOException; only a save that is cut off leaves a `Torn` file, which
`LoadSession` reports as no session. The edit tools refuse to go on then
(`RequireSessionEditPlan`); `BuildPlannedSessionDecisionOptions` does go on
(`DecideWithoutPlan`). `got`, `lastPlan`, `recorded` and the flags `alone`,
`slipped`, `halfway` and `cut` are history variables.

**`LogPipe`** is the log of all processes. `job[w]` is how far a Write of a
client, of a thread of the app or of the listener is. A client connects, writes
one line and closes its end; if there is no free pipe, or the pipe goes away
before the line is read, it appends a notice and then the entry to the file by
itself. Whether a line that was only sent counts as delivered is left open
(`WriteReturns`): it depends on the buffer of the pipe. An append is two steps,
because `FileMode.Append` fixes the place of the line when the file is opened.
The app can be closed, end at any time, and start again.

**`IndexRefresh`** follows a decision to the index. A text is a version of its
file; the rows of a project are the versions they were extracted from, and a
reference that the loader could not resolve is `Dropped`. `job[c]` walks
through the steps of a call, and other calls may come between any two:

| `job[c].at` | What comes next |
|---|---|
| `decide` | the decision, with options computed before it (`RecordDecision`, `RefuseDecision`) |
| `choose`, `inbound`, `symbols` | `IsFullRebuildRequired`; the references into the project; `ListSymbols`, which fixes the texts that references of a scoped refresh can lead to (`known`) |
| `load` | MSBuild reads the sources |
| `save`, `write` | the zero-project check of `SaveSnapshot`, and its transaction; a scoped save is one transaction |
| `mark` | one manifest after the other |

Scoped refreshes fall back to the solution where the code does. `ReadVersion`,
`DropTables` and `StampVersion` are the steps of `EnsureCreated`: the version is
read before the transaction and stamped after it, so two processes may both
drop the tables (`oldRead`). Four history variables say what overlapping calls
have done, and are only used to except it from a property:

- `unread[c]`: files that were accepted since `c` went to refresh, and not read since;
- `overtaken`: callers that go by rows (they have looked for dependents, checked
  for projects, or saved) and over which another call has saved;
- `unattended`: stale files of which a decision was recorded with other options
  than the session asked for by then (two last decisions that overlap, or the CLI);
- `lost`: a call died, or its refresh failed for good.

**`McpProxy`** is one session of an MCP client: six links (stdin, pipe and
server input one way, server output, pipe and stdout back), a pump between each
two, and the main tasks of bridge and hub that wait for the first pump to end.
`ended` is the set of links whose write end is closed. Sessions share nothing
but the accept loop. A pump of the hub is two steps, take and forward, because
the request is registered for telemetry between them.

**`DocumentedClaims`** holds a claim of the documentation that the code does
not keep. **`MC...`** modules give instances. In each module, a definition whose
comment starts with "Fault:" is a plausible mistake in the definition that
follows or uses it. No specification uses one: they are there to show that each
property would notice (`mutants` in `PROJECT.json`).

## 3. What is checked

| Run | Instance | Distinct states | What it shows |
|---|---|---|---|
| `edit_workflow` | 1 file, 2 records, two texts, a padded "rejected " | 951,947 | types, one open record per file, evidence for accepts, the gate of an accept, the promise of `ReviewGate` |
| `record_store` | 2 overlapping calls, 2 records | 1,458,588 | evidence, manifest and gate survive overlaps and crashes; old records stay shut and decisions stay as long as calls came one at a time |
| `planned_session` | 2 files that must agree on one of 2 names, 3 records, 1 build at a time | 6,146,945 | a staged batch stays open to review; the accept that completes a plan was built |
| `index_refresh` | library with two files, application that uses one; two sessions that share no file and cross projects; 1 call at a time | 3,048,732 | marks, and that all references resolve once all is fresh |
| `index_overlap` | library and application of one file each; 1 session; 2 calls that overlap; partial loads, a plan with a missing project, the CLI on planned records, `--verbose` | 3,746,010 | wholeness of the index, survival of rows, references, marks and who is left to remove them, with what exactly can go wrong |
| `mcp_proxy` | one session, up to 3 lines | 252,418 | answers arrive, ends are seen, no server outlives its session |
| `log_pipe` | 2 clients with 2 and 1 entries, 1 thread of the app with 1 | 387,474 | no entry twice, which are lost, their order; every Write ends; what was handed over arrives |
| `session_files` | 2 overlapping tool calls, 4 events, 2 plans, 2 texts | 9,634,828 | plan and events kept when calls come one at a time; what check_file_hash compares; decisions find their plan |
| `lost_stale`, `record_lost_flags`, `lost_links`, `decided_tree` | small | | one documented statement each that the code does not keep |

The four disagreements, each quoted in `PROJECT.json` under `findings`:

1. `lost_stale`: a reject clears the index-stale mark that an earlier accept set.
2. `record_lost_flags`: a call that dies, or waits out the lock, between the
   decision and the manifest leaves an accepted record whose file can still be
   edited and staged without a refresh.
3. `lost_links`: two sessions that interleave can leave the references of one
   project to another out of the index, with nothing marked stale.
4. `decided_tree`: the terminal build contains the candidate of the record that
   is decided last even when it is being rejected, so a plan can end decided,
   on a build that passed, with source that does not build.

`LastAcceptWasBuilt` of `planned_session` bounds the fourth: where the last
decision is an accept, the build was of the texts on disk. Three clauses of it
are needed, and say what it does not cover: the decision's reads still hold when it is
recorded (of two last decisions that overlap, each sees the other file
undecided, and neither builds); no planned file has a newer candidate than
the one that decided it; and no file was accepted earlier and restaged. In the
last case the terminal build takes the newer candidate, which is not on disk.

More need no run, because reading the line is enough, or because a property
states the limit:

- `edit accept`, `edit reject` and `edit record-decision` of the CLI pass their
  `--verbose` as the eighth argument of `StagedDecisionWorkflow.Record`, which is
  `deferIndexRefresh` (`Cli/Program.cs:255`). No refresh follows, and nothing is
  left that would run it; `docs/feature-maps/CliWorkflowEditLoop.md:90` says
  that an accept triggers one. `index_overlap` has the option; `StaleIsAwaited`
  excepts the file (`unattended`), and fails without that exception.
- The parameter `deferBuildValidationUntilAccept` of
  `StagedDiffLaunchWorkflow.Launch` is not used: every launch builds.
- A launch creates an empty watched file for a new file, which
  `docs/feature-maps/CliWorkflowEditLoop.md:86` rules out. The integration tests
  expect the file, so `ReviewGate` has it as `ShowPlaceholder`.
- A superseded record can be accepted when the accept overlaps with the staging of
  its successor (`docs/feature-maps/CmbMcpParityRestorePlan.md:171`: never).
  `AloneOldRecordIsShut` says that it takes the overlap, and single-writer use is
  the intended mode (`docs/decisions/0002-safety-enforcement-philosophy.md:71`).
- A decision whose session file was torn by a crash defers nothing and runs no
  terminal build, where `docs/system-memory/README.md:71` has one before a terminal
  planned decision. `DecisionsHavePlan` says that it takes a save that was cut off.
- check_file_hash is described as "since it was last fetched"
  (`McpServer/Program.cs:494`). `CheckIsAboutLastFetch` holds only with its three
  exceptions: calls that overlap, a file that changes between the two reads of
  get_file, and a get_file that fails after it has recorded its access.
- `docs/feature-maps/SharedAdapterSurface.md:18` has direct writes to the log file only
  when the hub is not running. A client whose pipe is busy for 200 ms falls back as
  well, and marks the entry `hubRunning=false`; the live view of the app, which
  shows what the app itself writes, never has it.

What `mcp_proxy` does *not* show is worth as much as what it does. When the
server process is gone, the hub waits for the pump that reads the client before
it closes the pipe. `LossIsSeen` therefore speaks of a client that sends again;
one that only waits for its answer gets neither the answer nor an end of
stream, as TLC confirms. And `AnswerArrives` excepts a client that sends a line
after the hub has closed the pipe: the bridge then ends at once and drops the
answers it has not read. Three lines are the least in which that happens.

### Bounds, and why they are enough

- The states of `edit_workflow` are counted without the parity `saves` (`VIEW`): no
  guard reads it, and properties ask only whether a step changes it.
- *One watched file* in `EditWorkflow` and `RecordStore`. No call of the service
  reads the manifest or a record of another file, except MarkAllIndexesFresh,
  whose turns are single steps. The proofs hold for any number of files.
- *Two records* are an old one and a current one;
  properties relate pairs of records.
- *Texts*: an empty one, which the placeholder of a new file is equal to, and
  another. `lost_stale` has one text with either line ending; that the promise
  of `ReviewGate` and `AcceptedWasSaved` hold where accepts compare normalized
  text is proved for any contents (`ImplementsReviewGate`, `AcceptsAreSaved`).
  Decision words are
  "accepted", "rejected" and a padded "rejected ", for the classifier trims
  where the terminal check does not.
- *`IndexRefresh`*: two projects with one reference between them are the least
  in which a scoped refresh can break something; a library with a second file
  lets a scoped refresh of one file take another along. One new version per
  file is enough for an old and a new text. Two calls at once are enough for
  one to come between two steps of the other. In `index_overlap` the CLI decides
  records of the session; records of its own are those of `index_refresh`.
- *Two files, two names, three records* in `PlannedSession`: a batch needs two
  files for one to break the other, and a third record restages one of them
  after it was decided. The plan is any non-empty set of files and may be
  replaced at any time. One launch or decision is under way at a time, while
  staging, planning and saving go on; two at once were checked with two records
  (3,690,914 states, no error), and the proofs hold for any number.
- The operator saves, in `PlannedSession`, the file of an undecided record that
  was launched. Other changes of watched source would break any statement about
  builds.
- *One session and three lines* in `McpProxy`: an answered line, one that fails
  in the hub, and one that fails in the bridge.

- *Two clients, one of which logs twice, and a thread of the app* in `LogPipe`:
  an entry may then find the pipe busy with another client's, or with the same
  client's last one, and an append of either process may meet the other's.
- *Four events* in `SessionFiles`: a start, a fetch and a change of plan that
  overlap, and one call after them. Two calls at a time, for what goes wrong goes
  wrong between two.

What the index runs say, and do not say. Overlapping calls, partial loads, plans
that name a missing project and the CLI are what the code permits, and with them
marks, rows and references do go wrong. The properties of `index_overlap` do not
bound that away; each one names the ways it can go wrong as exceptions, and
claims that there are no others. TLC finds the property violated in
`index_overlap` when any one of them is left out:

| Property | Except | What happens then |
|---|---|---|
| `StaleUntilIndexed` | `unread` | a refresh clears the mark of a file accepted after the sources were read; `docs/findings/IndexStaleRebuildRaceTodo-2026-06-02.md` describes it |
| | `overtaken` | another call has saved older rows between this one's save and its marks |
| | `Misdeclared` | a planned file with a missing project file is marked by the refresh of another project |
| | no rows of the project | a load without the project, or without any over emptied tables, was saved, and all marks go |
| `RowsSurvive` | `oldRead` | a process that read the old version drops what another has rebuilt |
| | `overtaken` at `write` | rows are saved between the zero-project check and the transaction |
| `InboundLinksKept` | `overtaken` | a reference into the project was saved after the dependents were looked for |
| `StaleIsAwaited` | `unattended` | two last decisions that overlap both defer; the CLI decides a planned record, or with `--verbose` |
| | `lost` | a call died between the decision and the marks |

So none of these properties covers a hazard that is one of its exceptions, and
`hazards` in `PROJECT.json` lists those with a note instead.

`WholeWhenFresh` holds only within the bounds of `index_refresh`: one call at a
time, loads of everything or nothing, plans that name the true projects, a CLI
that refreshes and keeps to its own records, and no session but `s1` that plans a
file which another project uses, or one that uses it. None of these is enforced by
the code; `lost_links` is what happens without the last one. That is why it is
model-checked only.

`Planned` is fixed in `IndexRefresh`; a plan that is replaced may drop the only
undecided file, and the refresh never comes.

### Fairness

All modules but `McpProxy` and `LogPipe` are checked for safety only: nobody has
to make a call, and a call that has begun may hang in a build. `McpProxy`
assumes weak fairness of the tasks of bridge and hub that can go on, of their
timers, of the exit of an app that is closing, and of a client reading what it
is sent. It assumes nothing of the server, which may hang, except that it reads its input,
so that writing to it does not block. Nothing is assumed of the operator, of
new calls, or of crashes.

`LogPipe` assumes weak fairness of each client's Write, of each thread that
appends, and of the listener: `Connect` has a timeout, file appends do not wait
for other processes, and the listener is a task of the thread pool. A client whose
line is not read yet may return, since the pipe may have a buffer, but is not
assumed to (`WriteGoesOn`): it waits for the listener or for the end of the pipe.
Nobody has to
begin a Write, and the app need not start, close or end. `WriteEnds` allows the
client to die. With threads of the app that log without end, a thread that waits
for the lock would need strong fairness, which .NET's `lock` does not promise;
no property is about such threads.

## 4. What is proved

All of it for every value of the constants, under the assumptions the modules
name: `BoundAssumption`, `DecisionAssumption`, `ContentAssumption` and
`RewriteAssumption` (the set of contents is closed under line-ending rewrites)
for `EditWorkflow`, `SessionAssumption` for `PlannedSession`, `IndexAssumption`
for `IndexRefresh`, `LinesAssumption` for `McpProxy`, `StoreAssumption` for
`RecordStore`, `SessionFileAssumption` for `SessionFiles`, `LogAssumption` for
`LogPipe`. There are thirty-three theorems in eight modules, and they state every
safety property that a passing run checks, but for `WholeWhenFresh`.

**`EditWorkflowProofs`.** Seven theorems: `TypeCorrect`, `OldRecordsAreShut`,
`AcceptsAreReviewed`, `GateIsShut`, `GateOpens`, `AcceptsAreSaved` and
`ImplementsReviewGate` (initial states map to initial states, steps to steps or
stutters). They share the inductive invariant `IInv`. Its parts need each other:

- `IdsInOrder`: there are no gaps below an id in use, so a new record is newer
  than all others; without it staging could not preserve `ActiveIsNewest`.
- `LastStagedIsOwn`: a manifest names a record of its own file; a decision
  changes the flags of the record's file, and this ties the two together.
- `ActiveIsNewest`, `AcceptedWasReviewed`, `AcceptShutsGate`: the invariants of
  the runs. `AcceptShutsGate` includes that no active record is left behind a
  shut gate; otherwise rejecting that record would open it.
- `UnsavedIsBaseline`: while the operator has not saved the file of an active
  record, the file is what the record was staged over, or a placeholder. It is
  why an accept of changed text implies a save (`AcceptsAreSaved`).

The refinement proof also needs `OneActive`: two active records of a file are
the same record, so superseding "all active ones" is closing the open proposal.
A step of the service that wrote watched source in any way but the two that
`ReviewGate` names would not refine to it, for it leaves `saves` alone.

**`PlannedSessionProofs`.** `TypeCorrect`; `BatchNeverCloses`, for which every step
keeps a record with a decision decided and replaces an active one by a newer
active one of the same file; and `LastAcceptIsBuilt`. The last relates what a
decision read before its build to what is on disk when it is recorded. Its
invariant `IInv` consists of

- `IdsInOrder` and `ActiveIsNewest`, as above: the accepted record that the
  terminal tree takes for a file is the newest one of it;
- `AcceptedIsMerged`: where the newest record of a file is accepted, the file
  holds its text, because only the operator changes source, and only the file of
  an active record;
- `DecisionHolds(c)`: what a decision under way has read. The records it saw
  decided still are; it has a tree to build if it completes its plan and
  something of it is accepted; that tree has the text of its own record, and for
  the records it saw decided what the newest accepted record of the file, or
  watched source, holds.

**`IndexRefreshProofs`.** `TypeCorrect`, and two theorems for any solution, any
loads and any number of calls at once, with crashes anywhere. Neither assumes more
than `IndexAssumption`, which only gives the constants their types:

- `IndexStaysWhole`: the rows are of the projects of one load, or there are none.
  The invariant `WholeInv` adds that a snapshot waiting to be saved is of one load
  too (`SnapshotsAreWhole`); a scoped save replaces rows by rows.
- `RowsAreKept`: that rows are all lost takes a process that found another
  version, or a save that another one came before. The invariant is
  `CheckedSnapshots`: what `SaveSnapshot` has found before its transaction still
  holds at the transaction, unless another call has saved since.

The lemmas both proof modules rest on are that a step is of one call or of none
(`StepOfOne`), which step takes a call to where it is (`JobFollows`), and
what others can do to a call that waits (`Meanwhile`): rows it goes by are
saved over only when `overtaken` says so, and it misses only accepts that `unread` has.

**`IndexCallsProofs`.** What holds of `IndexRefresh` for any solution, any plans,
loads and use of the CLI, and any number of calls that overlap:
`LinksAreKept` (`InboundLinksKept`), `MarksAreKept` (`StaleUntilIndexed`) and
`StaleFilesAreAwaited` (`StaleIsAwaited`). They have the exceptions of the
properties and no other assumption.

- `LinksInv`: whatever is saved for the whole solution has references that
  agree with the texts beside them, and the rows of a project always have a text
  for each own file. `ScopedHasNoInbound` is the part that matters: that
  no other project leads to the target, which is checked once when the mode is
  chosen, still holds at the save, unless another call has saved in between; a
  database that is made anew has no references either.
- `PlanInv` says what a decision knows of its plan: the plan is of one session, has
  the file if that is accepted, and the refresh that follows keeps it. That is
  why a scoped refresh marks files of its own project only (`MarksOwnProject`
  and `ScopedMarksAreOwn` in `FreshInv`), but for the file just rejected, which has
  no mark to lose, and those of which the plan names another project.
- `FreshInv`: a snapshot waiting to be saved was extracted after the last
  accept that the call has not missed, and while marks are removed the rows are
  those of that snapshot, or none, or another call has saved (`MarksFollowSave`).
- `AwaitInv`: a marked file is awaited by a session with an undecided file, or
  in the hands of a call under way (`Pending`), or unattended. A call that loses
  nothing hands it on from step to step; a decision that ends its session, with
  the options the session asks for, takes all accepted files of the plan along,
  because it is deferred only while another file is undecided.

**`McpProxyProofs`.** `TypeCorrect`, which includes that nothing without a
request id is ever registered or answered; `SessionsStopTheirServer`, from
the invariant that no server runs before the handshake and that the hub drains
its pumps only when the server is gone or the app closes; and
`AnswersFindRequests`, from `MatchInv`: a request is in one place at a time, be
it a link, a pump or the server, once in that place, and registered from
the moment the hub has taken it until its answer is relayed.

**`RecordStoreProofs`.** `Typed`, and five theorems for any number of calls under
way at once, each with an invariant of its own:

- `AcceptsHaveEvidence` from `EvidenceInv`: a call that will save an accept has
  loaded a record with its evidence, and saves that record whole. A call that
  saves a review has loaded one that was still staged.
- `ManifestNamesStored` from `NamesInv`: what a call has read of the manifest, and
  will write back, names a stored record too.
- `StagesKeepGate` from `GateInv`: whoever has read the manifest holds its lock;
  so the gate a Stage found open is open until it writes.
- `DecisionsStick` and `OldRecordIsShut` from `AloneInv`, which is about histories
  in which calls came one at a time: at most one call is under way, what it
  read of the records is still so, and all but the newest record are decided.
  The last part is what superseding before storing is for; a Stage that dies
  in between leaves no record active at all.

**`LogPipeProofs`.** `Typed`; `LoggedOnlyOnce`, `FewAreLost` and
`WritersKeepOrder`, for any number of clients, threads and entries. Their
invariants:

- `OnceInv`: an entry is in one hand only, its writer's, the pipe's, the
  listener's or the file's, but for a line that was sent and not yet read, which its
  writer may take back only when the pipe is gone.
- `LostInv`: while no two processes had the file open, whoever appends is alone
  and its place is still the end of the file (`Alone`); the app writes no
  notices; a client that wrote one goes on to write the entry; there is a
  connection only while the listener reads; and until the app ends, what was
  handed over is in the pipe, in hand, or in the file.
- `OrderInv`: the listener reads and writes the lines of one client in the order
  they were sent; a notice is written once; and behind the end that a writer has
  found there is no line of its own of that kind. This one needs no condition on
  overlapping appends: a lost line leaves the others in order.

**`SessionFilesProofs`.** `Typed`; `DecisionsReadPlan` from `CutInv`: a torn file
is being written, and cannot be opened, or a save was cut off, whatever
overlaps; `SessionKeepsAll` and `CheckIsSound` from `AloneInv` and `FreshInv`: as
long as calls come one at a time, what the call under way will save has the plan
and the events that were saved, and the hash in the file is that of the text the
agent got last, or of the one that the get_file under way is about to return.

**Only model-checked:** `AnswerArrives`, `LossIsSeen`, `ShutdownIsSeen` and
`ClosedClientEndsServer` of `McpProxy`, `WriteEnds` and `ReturnedArrives` of
`LogPipe`, which are liveness properties under fairness and out of the
prover's reach; and `WholeWhenFresh` of `IndexRefresh`, which holds only in
instances that the code does not enforce.

## 5. Not modelled

- Log entries of the hub; handles of its pipes that a diff tool started by the
  server may have inherited, which would keep the pumps open.
- Index queries, Roslyn syntax edits and candidate validation: pure functions
  of their input; they end in a call that is modelled, or in an error.
- Settings, paths, the WinForms display: no state that decides anything. The only
  JavaScript of the repository is the minified Monaco editor under
  `AIMonitor.App/Assets/monaco/vs`, a third-party component for display; the program is C#.
- Retrieval backups, compare snapshots, run ledger: write-only.
- Of the log: what an entry says, an append that is refused (which would end the
  listener's task), a full disk, a second app on the same folder.
- Half-written manifests and records (session files have them), clocks set back, deleted files in the index, the
  refresh after a change of plan, the cached check of a candidate against the
  other candidates: hazards with a note, see the plan.
- That every call of the service ends: a wait for the lock has a deadline.
- Abstractions to keep in mind: an MSBuild load reads all sources in one
  instant; a new text moves all symbols of its file; restaging the same text is
  not told apart; every file keeps its session in `IndexRefresh`.

## 6. Plan

Done, in this order: `FileContent`, `ReviewGate`, `EditWorkflow`,
`EditWorkflowProofs`, `RecordStore`, `IndexRefresh`, `IndexRefreshProofs`,
`McpProxy`, `McpProxyProofs`, `PlannedSession`, `PlannedSessionProofs`,
`LogPipe`, `LogPipeProofs`, `SessionFiles`, `SessionFilesProofs`,
`RecordStoreProofs`, `IndexCallsProofs`.

Next:

1. `OverlayCheck`: candidate validation against the other candidates
   (`CandidateEditValidator`), with its deferral and its cache, and the order of
   edits in a plan.
2. `TextSpans`: find, replace and line arithmetic of `WorkflowEditService` as
   functions, checked against a definition by positions.
3. `PlannedSession` and `IndexRefresh` together: an abstract specification in
   which each accepted file of a plan is indexed or waits for a decision that
   can still come, with plans that change.
4. `RecordStore` with half-written files, as `SessionFiles` has them.
5. Row extraction and inserts (`MSBuildWorkspaceLoader`, `SolutionIndexStore`) in
   more detail: which rows a scoped replace removes and which it must keep.
