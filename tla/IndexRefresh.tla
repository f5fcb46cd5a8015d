---------------------------- MODULE IndexRefresh ----------------------------
(***************************************************************************)
(* How an accepted change gets into the solution index: the planned        *)
(* sessions of the MCP server, StagedDecisionWorkflow,                     *)
(* PostAcceptIndexRefreshService, the rebuild services, and the SQLite     *)
(* store they fill.                                                        *)
(*                                                                         *)
(* A decision of a planned session waits with the refresh until every      *)
(* planned file is decided.  The refresh reads the sources, later replaces *)
(* rows in one transaction, and then clears the IndexStale flag of files,  *)
(* one by one; the process may die, or MSBuild fail, between any of these, *)
(* and other calls, of this process or another, may do the same meanwhile. *)
(*                                                                         *)
(* A text is a version number of its file, and the rows of a project say   *)
(* which version of every file they were extracted against: their own      *)
(* files, and those of other projects that their references lead to.  A    *)
(* new text moves all symbols of its file.  Decisions are single steps     *)
(* (RecordStore takes them apart) and every file keeps a workflow session. *)
(***************************************************************************)
EXTENDS Naturals, FiniteSets

CONSTANTS
    Files, Projects, Sessions,
    Owner,        \* file |-> the project that compiles it
    Planned,      \* session |-> the files its edit plan names
    Declared,     \* session, file |-> the owning project the plan declares
    NoProject,    \* a declared project path where there is no file
    ScopedFiles,  \* C# files with no Razor markup beside them
    Uses,         \* project |-> files of other projects whose symbols it references
    Loads,        \* the sets of projects that opening the solution may come back with
    CliVerbose,   \* the --verbose arguments of CLI decisions, as booleans
    CliDecides,   \* sessions (or Cli) whose records are decided with the CLI
    Callers,      \* calls that can be under way at the same time
    MaxVersion,   \* bound: texts a file goes through
    Cli,          \* stands for the session of a record staged by the CLI
    NoRows,       \* stands for the rows of a project that is not in the index
    Dropped       \* stands for references left out of the rows of a project

Versions == 0..MaxVersion

Rows == [Files -> Versions \cup {Dropped}]

ASSUME IndexAssumption ==
    /\ MaxVersion \in Nat
    /\ NoRows \notin Rows
    /\ Dropped \notin Nat
    /\ CliVerbose \subseteq BOOLEAN
    /\ Cli \notin Sessions
    /\ CliDecides \subseteq Sessions \cup {Cli}
    /\ NoProject \notin Projects
    /\ ScopedFiles \subseteq Files
    /\ Owner \in [Files -> Projects]
    /\ Planned \in [Sessions -> SUBSET Files]
    /\ Declared \in [Sessions -> [Files -> Projects \cup {NoProject}]]
    /\ Uses \in [Projects -> SUBSET Files]
    /\ Loads \subseteq SUBSET Projects

VARIABLES
    source,         \* file |-> version on disk
    candidate,      \* file |-> its undecided staged record, or NoCandidate
    decidedIn,      \* session |-> files with a decided record of the session
    acceptedIn,     \* session |-> files with an accepted record of the session
    stale,          \* file |-> IndexStale of its manifest
    rows,           \* project |-> file versions its rows were extracted from, or NoRows
    schemaCurrent,  \* the user_version of the database is this program's
    mustRebuild,    \* the needs_full_rebuild marker
    oldRead,        \* a process has found another schema version, and not dropped it yet
    job,            \* caller |-> its decision or refresh under way
    accepted,       \* history: file |-> the version accepted last
    unattended,     \* history: stale files of a session whose options were not kept
    overtaken,      \* history: callers that rely on rows another call has saved over
    unread,         \* history: caller |-> files accepted without it, and not read since
    lost            \* history: a call died, or a refresh failed, after a decision

index == <<rows, schemaCurrent, mustRebuild, oldRead>>
decisions == <<source, candidate, decidedIn, acceptedIn, accepted>>
history == <<unattended, overtaken, unread, lost>>
vars == <<decisions, stale, index, job, history>>

NoCandidate == [version |-> 0]

Candidate == [version : Versions \ {0}, session : Sessions \cup {Cli}]

Idle == [at |-> "idle"]

EmptyIndex == [p \in Projects |-> NoRows]

\* What RebuildAsync extracts of the projects MSBuild could open.
SolutionSnapshot(loaded) ==
    [p \in Projects |->
        IF p \in loaded
        THEN [f \in Files |-> IF Owner[f] \in loaded THEN source[f] ELSE Dropped]
        ELSE NoRows]

Init ==
    /\ source = [f \in Files |-> 0]
    /\ candidate = [f \in Files |-> NoCandidate]
    /\ decidedIn = [s \in Sessions |-> {}]
    /\ acceptedIn = [s \in Sessions |-> {}]
    /\ accepted = source
    /\ stale = [f \in Files |-> FALSE]
    /\ \/ schemaCurrent \in BOOLEAN /\ \E loaded \in Loads : rows = SolutionSnapshot(loaded)
       \/ schemaCurrent = FALSE /\ rows = EmptyIndex
    /\ mustRebuild = FALSE
    /\ oldRead = FALSE
    /\ job = [c \in Callers |-> Idle]
    /\ unattended = {}
    /\ overtaken = {}
    /\ unread = [c \in Callers |-> {}]
    /\ lost = FALSE

Goes(c, state) == job' = [job EXCEPT ![c] = state]

\* The call is over, and with it what is remembered of others meanwhile.
Returns(c) ==
    /\ Goes(c, Idle)
    /\ overtaken' = overtaken \ {c}
    /\ unread' = [unread EXCEPT ![c] = {}]

-----------------------------------------------------------------------------
(* Before the decision *)

\* Fault: a restaged candidate builds on the undecided one.
StageOverCandidate(f, s) ==
    /\ source[f] < MaxVersion
    /\ IF s \in Sessions THEN f \in Planned[s] ELSE s \in CliDecides
    /\ candidate' = [candidate EXCEPT
         ![f] = [version |-> candidate[f].version + 1, session |-> s]]
    /\ UNCHANGED <<source, decidedIn, acceptedIn, accepted, stale, index, job, history>>

\* A candidate is staged for the session, over the text on disk; it takes the
\* place of an undecided one.  (The CLI stages here only what it may decide.)
Stage(f, s) ==
    /\ source[f] < MaxVersion
    /\ IF s \in Sessions THEN f \in Planned[s] ELSE s \in CliDecides
    /\ candidate' = [candidate EXCEPT ![f] = [version |-> source[f] + 1, session |-> s]]
    /\ UNCHANGED <<source, decidedIn, acceptedIn, accepted, stale, index, job, history>>

\* The operator saves the candidate from WinMerge.
OperatorSaves(f) ==
    /\ candidate[f].version > source[f]
    /\ source' = [source EXCEPT ![f] = candidate[f].version]
    /\ UNCHANGED <<candidate, decidedIn, acceptedIn, accepted, stale, index, job, history>>

-----------------------------------------------------------------------------
(* BuildPlannedSessionDecisionOptions *)

\* Planned files that are accepted once this decision is recorded.
AcceptedPlanned(s, f, word) ==
    Planned[s] \cap (acceptedIn[s] \cup IF word = "accepted" THEN {f} ELSE {})

AllDecided(s, f) == Planned[s] \subseteq decidedIn[s] \cup {f}

\* Fault: the file being decided is not counted.
DeferUntilRecorded(s, f, word) ==
    AcceptedPlanned(s, f, word) # {} /\ ~(Planned[s] \subseteq decidedIn[s])

DeferRefresh(s, f, word) ==
    AcceptedPlanned(s, f, word) # {} /\ ~AllDecided(s, f)

Decides(c, f, word, defer, plan) ==
    Goes(c, [at |-> "decide", f |-> f, word |-> word, s |-> candidate[f].session,
             defer |-> defer, plan |-> plan])

\* The MCP server builds the options from the session as it is now; the terminal
\* overlay build, which may refuse the decision, comes before it is recorded.
\* The CLI has no plan; its --verbose is passed in the place of deferIndexRefresh.
\* The MCP server decides a record of no session as the CLI does without it.
BeginDecision(c, f, word) ==
    LET s == candidate[f].session
    IN  /\ job[c] = Idle
        /\ candidate[f] # NoCandidate
        /\ \/ /\ s \in CliDecides
              /\ \E verbose \in CliVerbose : Decides(c, f, word, verbose, {})
           \/ /\ s \in Sessions
              /\ Decides(c, f, word, DeferRefresh(s, f, word), AcceptedPlanned(s, f, word))
        /\ UNCHANGED <<decisions, stale, index, history>>

\* The options are still those the session asks for, or the CLI refreshes.
OptionsHold(d) ==
    IF d.s \in Sessions
    THEN /\ d.plan = AcceptedPlanned(d.s, d.f, d.word)
         /\ d.defer = DeferRefresh(d.s, d.f, d.word)
    ELSE ~d.defer

\* Record: RecordDecision, then a refresh unless it is deferred or, after a
\* reject, no planned file was accepted.
RecordDecision(c) ==
    LET d == job[c]
        isAccept == d.word = "accepted"
    IN  /\ d.at = "decide"
        /\ candidate[d.f] # NoCandidate
        /\ candidate[d.f].session = d.s
        /\ isAccept => source[d.f] = candidate[d.f].version
        /\ candidate' = [candidate EXCEPT ![d.f] = NoCandidate]
        /\ decidedIn' = [s \in Sessions |->
             IF s = d.s THEN decidedIn[s] \cup {d.f} ELSE decidedIn[s]]
        /\ acceptedIn' = [s \in Sessions |->
             IF s = d.s /\ isAccept THEN acceptedIn[s] \cup {d.f} ELSE acceptedIn[s]]
        /\ accepted' = IF isAccept THEN [accepted EXCEPT ![d.f] = source[d.f]] ELSE accepted
        /\ stale' = [stale EXCEPT ![d.f] = isAccept]
        /\ IF ~d.defer /\ (isAccept \/ d.plan # {})
           THEN Goes(c, [at |-> "choose", f |-> d.f, s |-> d.s, plan |-> d.plan])
           ELSE Goes(c, Idle)
        /\ unattended' = (unattended \ {d.f}) \cup
             {f \in Files : /\ stale'[f] /\ ~OptionsHold(d)
                           /\ IF d.s \in Sessions THEN f \in acceptedIn'[d.s] ELSE f = d.f}
        /\ unread' = [k \in Callers |->
             IF isAccept /\ job[k].at \notin {"idle", "decide"}
             THEN unread[k] \cup {d.f}
             ELSE unread[k]]
        /\ UNCHANGED <<source, index, overtaken, lost>>

\* The record was decided or replaced meanwhile, the watched text is not the
\* staged one, or the terminal build failed: the call throws.
RefuseDecision(c) ==
    /\ job[c].at = "decide"
    /\ Goes(c, Idle)
    /\ UNCHANGED <<decisions, stale, index, history>>

-----------------------------------------------------------------------------
(* The database *)

\* EnsureCreated, by a process of its own pace, be it for a call or for a status
\* query: a call uses the database when its own EnsureCreated is done, and the
\* version is stamped by then.  A process may die between any two of its steps.
ReadVersion ==
    /\ ~schemaCurrent
    /\ ~oldRead
    /\ oldRead' = TRUE
    /\ UNCHANGED <<decisions, stale, rows, schemaCurrent, mustRebuild, job, history>>

\* One transaction.  Another process may still be about to do the same.
DropTables ==
    /\ oldRead
    /\ rows' = EmptyIndex
    /\ mustRebuild' = TRUE
    /\ oldRead' \in BOOLEAN
    /\ UNCHANGED <<decisions, stale, schemaCurrent, job, history>>

StampVersion ==
    /\ ~schemaCurrent
    /\ mustRebuild
    /\ schemaCurrent' = TRUE
    /\ UNCHANGED <<decisions, stale, rows, mustRebuild, oldRead, job, history>>

\* Fault: the project itself is looked at.
InboundOfSelf(p) == {q \in {p} : \E f \in Uses[q] : rows[q][f] = rows[p][f]}

\* GetInboundDependentProjectPaths: other projects with a row that resolves to
\* a symbol of p.
InboundDependents(p) ==
    {q \in Projects \ {p} :
        /\ rows[q] # NoRows
        /\ rows[p] # NoRows
        /\ \E f \in Uses[q] : Owner[f] = p /\ rows[q][f] = rows[p][f]}

-----------------------------------------------------------------------------
(* RebuildAfterAcceptedDecision *)

\* Fault: the project of the decided file stands for the whole plan.
ProjectOfDecidedFile(d) ==
    IF d.f \in ScopedFiles /\ d.plan # {} THEN {Declared[d.s][d.f]} \cap Projects ELSE {}

\* Projects and files of the plan that a scoped refresh would rebuild.
ProjectRefreshPaths(d) ==
    IF d.f \in ScopedFiles
    THEN {Declared[d.s][f] : f \in d.plan} \cap Projects
    ELSE {}

FileRefreshPaths(d) ==
    IF d.f \in ScopedFiles THEN d.plan \cap ScopedFiles ELSE {}

\* Fault: other projects' references are not looked at.
ScopedTargetsAlone(d) ==
    {p \in ProjectRefreshPaths(d) : ProjectRefreshPaths(d) = {p} /\ FileRefreshPaths(d) # {}}

\* The project a scoped refresh would be of, if the plan has only one.
OnlyProject(d) ==
    {p \in ProjectRefreshPaths(d) : ProjectRefreshPaths(d) = {p} /\ FileRefreshPaths(d) # {}}

\* The project a scoped refresh is good enough for, if there is one.
ScopedTargets(d) == {p \in OnlyProject(d) : InboundDependents(p) = {}}

Refresh(own) == [at |-> "load", mode |-> "solution", target |-> NoProject, own |-> own]

\* With what GetFilesToMarkFresh gives for a refresh that was not to be scoped.
RefreshSolution(c) ==
    LET d == job[c]
        paths == FileRefreshPaths(d)
    IN  Goes(c, Refresh(IF paths = {} THEN {d.f} ELSE paths))

\* IsFullRebuildRequired is asked first,
ChooseMode(c) ==
    /\ job[c].at = "choose"
    /\ schemaCurrent
    /\ IF mustRebuild \/ OnlyProject(job[c]) = {}
       THEN RefreshSolution(c)
       ELSE Goes(c, [job[c] EXCEPT !.at = "inbound"])
    /\ UNCHANGED <<decisions, stale, index, history>>

\* the references into the project after it,
ReadInbound(c) ==
    /\ job[c].at = "inbound"
    /\ IF ScopedTargets(job[c]) = {}
       THEN RefreshSolution(c)
       ELSE Goes(c, [job[c] EXCEPT !.at = "symbols"])
    /\ UNCHANGED <<decisions, stale, index, history>>

\* and then ListSymbols, less those of the planned files: the texts to whose
\* symbols a reference can be told to lead.
ListSymbols(c) ==
    LET d == job[c]
    IN  /\ d.at = "symbols"
        /\ \E p \in OnlyProject(d) :
             Goes(c, [at |-> "load", mode |-> "project", target |-> p, own |-> d.plan \cup {d.f},
                      known |-> [f \in Files |->
                        IF rows[Owner[f]] = NoRows \/ f \in FileRefreshPaths(d)
                        THEN Dropped
                        ELSE rows[Owner[f]][f]]])
        /\ UNCHANGED <<decisions, stale, index, history>>

\* refresh_solution_index, `index rebuild`, and the button of the app.
BeginRebuild(c) ==
    /\ job[c] = Idle
    /\ Goes(c, Refresh({}))
    /\ UNCHANGED <<decisions, stale, index, history>>

\* What RefreshProjectFilesAsync extracts of p: a reference to a symbol of
\* another project is left out unless the symbol was listed where it is.
ProjectSnapshot(p, known) ==
    [f \in Files |-> IF Owner[f] = p \/ known[f] = source[f] THEN source[f] ELSE Dropped]

Loaded(c, snap) ==
    /\ Goes(c, [at |-> "save", mode |-> job[c].mode, target |-> job[c].target,
                own |-> job[c].own, snap |-> snap])
    /\ unread' = [unread EXCEPT
         ![c] = {f \in @ : job[c].mode = "project" /\ Owner[f] # job[c].target}]
    /\ UNCHANGED <<decisions, stale, index, unattended, overtaken, lost>>

\* MSBuild reads the sources.  A solution may open with no projects in it.
Load(c) ==
    /\ job[c].at = "load"
    /\ IF job[c].mode = "project"
       THEN Loaded(c, ProjectSnapshot(job[c].target, job[c].known))
       ELSE \E loaded \in Loads : Loaded(c, SolutionSnapshot(loaded))

Marks(j, all) ==
    [at |-> "mark", mode |-> j.mode, target |-> j.target, own |-> j.own,
     todo |-> IF all THEN Files ELSE j.own, all |-> all]

\* Calls that go by what they have read of the index, or written to it.
GoesByRows(d) ==
    \/ job[d].at \in {"symbols", "write", "mark"}
    \/ job[d].at \in {"load", "save"} /\ job[d].mode = "project"

\* Others that go by the rows do so in vain from now on.
Overtakes(c) == overtaken' = {d \in Callers \ {c} : d \in overtaken \/ GoesByRows(d)}

\* Fault: whatever MSBuild loaded is saved.
CheckNothing(c) ==
    /\ job[c].at = "save"
    /\ job[c].mode # "project"
    /\ schemaCurrent
    /\ Goes(c, [job[c] EXCEPT !.at = "write"])
    /\ UNCHANGED <<decisions, stale, index, history>>

\* SaveSnapshot looks for projects in the index before its transaction.
CheckProjects(c) ==
    /\ job[c].at = "save"
    /\ job[c].mode # "project"
    /\ schemaCurrent
    /\ job[c].snap = EmptyIndex => rows = EmptyIndex
    /\ Goes(c, [job[c] EXCEPT !.at = "write"])
    /\ UNCHANGED <<decisions, stale, index, history>>

\* The transaction; the marker goes with it.
SaveSolution(c) ==
    /\ job[c].at = "write"
    /\ rows' = job[c].snap
    /\ mustRebuild' = FALSE
    /\ Goes(c, Marks(job[c], TRUE))
    /\ Overtakes(c)
    /\ UNCHANGED <<decisions, stale, schemaCurrent, oldRead, unattended, unread, lost>>

\* Fault: a project that is not in the index is put there.
SaveAnyProject(c) ==
    /\ job[c].at = "save"
    /\ job[c].mode = "project"
    /\ rows' = [rows EXCEPT ![job[c].target] = job[c].snap]
    /\ Goes(c, Marks(job[c], FALSE))
    /\ Overtakes(c)
    /\ UNCHANGED <<decisions, stale, schemaCurrent, mustRebuild, oldRead, unattended, unread, lost>>

\* ReplaceProjectFiles; the project must be in the index.
SaveProject(c) ==
    /\ job[c].at = "save"
    /\ job[c].mode = "project"
    /\ rows[job[c].target] # NoRows
    /\ rows' = [rows EXCEPT ![job[c].target] = job[c].snap]
    /\ Goes(c, Marks(job[c], FALSE))
    /\ Overtakes(c)
    /\ UNCHANGED <<decisions, stale, schemaCurrent, mustRebuild, oldRead, unattended, unread, lost>>

\* One manifest of MarkAllIndexesFresh, or one MarkIndexFresh.
MarkFresh(c, f) ==
    /\ job[c].at = "mark"
    /\ f \in job[c].todo
    /\ stale' = [stale EXCEPT ![f] = FALSE]
    /\ Goes(c, [job[c] EXCEPT !.todo = @ \ {f}])
    /\ unattended' = unattended \ {f}
    /\ UNCHANGED <<decisions, index, overtaken, unread, lost>>

\* After all the manifests, those the refresh was for; then the call returns.
Marked(c) ==
    /\ job[c].at = "mark"
    /\ job[c].todo = {}
    /\ IF job[c].all
       THEN Goes(c, Marks(job[c], FALSE)) /\ UNCHANGED <<overtaken, unread>>
       ELSE Returns(c)
    /\ UNCHANGED <<decisions, stale, index, unattended, lost>>

\* Fault: what a scoped refresh was for is marked fresh in a finally block.
ProjectRefreshFailsMarked(c) ==
    /\ job[c].at \in {"load", "save", "mark"}
    /\ job[c].mode = "project"
    /\ Goes(c, Marks(job[c], FALSE))
    /\ overtaken' = overtaken \ {c}
    /\ UNCHANGED <<decisions, stale, index, unattended, unread, lost>>

\* A scoped refresh that fails anywhere falls back to the whole solution.
ProjectRefreshFails(c) ==
    /\ \/ /\ job[c].at \in {"load", "save", "mark"}
          /\ job[c].mode = "project"
          /\ Goes(c, Refresh(job[c].own))
       \/ /\ job[c].at = "symbols"
          /\ Goes(c, Refresh(job[c].plan \cup {job[c].f}))
    /\ overtaken' = overtaken \ {c}
    /\ UNCHANGED <<decisions, stale, index, unattended, unread, lost>>

\* The refresh fails for good, or the process dies.
Fail(c) ==
    /\ job[c].at \in {"choose", "inbound", "symbols", "load", "save", "write", "mark"}
    /\ Returns(c)
    /\ lost' = TRUE
    /\ UNCHANGED <<decisions, stale, index, unattended>>

-----------------------------------------------------------------------------
Decision(c) ==
    \/ \E f \in Files, word \in {"accepted", "rejected"} : BeginDecision(c, f, word)
    \/ RecordDecision(c)
    \/ RefuseDecision(c)

Refreshing(c) ==
    \/ ChooseMode(c) \/ ReadInbound(c) \/ ListSymbols(c) \/ BeginRebuild(c)
    \/ Load(c) \/ CheckProjects(c) \/ SaveSolution(c) \/ SaveProject(c)
    \/ \E f \in Files : MarkFresh(c, f)
    \/ Marked(c)
    \/ ProjectRefreshFails(c) \/ Fail(c)

Next ==
    \/ \E f \in Files : OperatorSaves(f) \/ \E s \in Sessions \cup {Cli} : Stage(f, s)
    \/ ReadVersion \/ DropTables \/ StampVersion
    \/ \E c \in Callers : Decision(c) \/ Refreshing(c)

Spec == Init /\ [][Next]_vars
-----------------------------------------------------------------------------
(* Properties *)

\* Where a call can be, and what it has computed by then.
Modes == {"project", "solution"}

TargetsOf(mode) == IF mode = "project" THEN Projects ELSE {NoProject}

SnapshotsOf(mode) ==
    IF mode = "project" THEN Rows ELSE [Projects -> Rows \cup {NoRows}]

DecideJob ==
    [at : {"decide"}, f : Files, word : {"accepted", "rejected"},
     s : Sessions \cup {Cli}, defer : BOOLEAN, plan : SUBSET Files]

ChooseJob ==
    [at : {"choose", "inbound", "symbols"}, f : Files, s : Sessions \cup {Cli},
     plan : SUBSET Files]

LoadJob ==
    [at : {"load"}, mode : {"project"}, target : Projects, own : SUBSET Files, known : Rows]
    \cup
    [at : {"load"}, mode : {"solution"}, target : {NoProject}, own : SUBSET Files]

SaveJob ==
    UNION {[at : IF m = "project" THEN {"save"} ELSE {"save", "write"}, mode : {m},
            target : TargetsOf(m), own : SUBSET Files, snap : SnapshotsOf(m)] : m \in Modes}

MarkJob ==
    UNION {[at : {"mark"}, mode : {m}, target : TargetsOf(m), own : SUBSET Files,
            todo : SUBSET Files, all : BOOLEAN] : m \in Modes}

Job == {Idle} \cup DecideJob \cup ChooseJob \cup LoadJob \cup SaveJob \cup MarkJob

\* The session store, the manifests, the database and the calls hold what the
\* code can have put there.
TypeOK ==
    /\ source \in [Files -> Versions]
    /\ candidate \in [Files -> Candidate \cup {NoCandidate}]
    /\ decidedIn \in [Sessions -> SUBSET Files]
    /\ acceptedIn \in [Sessions -> SUBSET Files]
    /\ accepted \in [Files -> Versions]
    /\ stale \in [Files -> BOOLEAN]
    /\ rows \in [Projects -> Rows \cup {NoRows}]
    /\ <<schemaCurrent, mustRebuild, oldRead>> \in BOOLEAN \X BOOLEAN \X BOOLEAN
    /\ job \in [Callers -> Job]
    /\ unattended \in SUBSET Files
    /\ overtaken \in SUBSET Callers
    /\ unread \in [Callers -> SUBSET Files]
    /\ lost \in BOOLEAN

\* The rows of f are those of the text accepted last, or of a later one.
Indexed(f) == rows[Owner[f]] # NoRows /\ rows[Owner[f]][f] >= accepted[f]

\* No decision on f is being recorded in this step.
NotDecided(f) ==
    \A c \in Callers : job[c].at = "decide" /\ job[c].f = f => UNCHANGED job[c]

\* A plan names another project for f than the one that compiles it.
Misdeclared(f) == \E s \in Sessions : f \in Planned[s] /\ Declared[s][f] # Owner[f]

\* A refresh takes the index-stale mark from a file only when the index has the
\* accepted text of that file or no rows of its project; else its plan is wrong,
\* or another call has saved older rows or accepted the file since.
StaleUntilIndexed ==
    [][\A f \in Files :
         stale[f] /\ ~stale'[f] /\ NotDecided(f)
            => \/ Indexed(f)
               \/ rows[Owner[f]] = NoRows
               \/ Misdeclared(f)
               \/ \E c \in Callers :
                    job'[c] # job[c] /\ (c \in overtaken \/ f \in unread[c])]_vars

\* The index holds projects as one load brought them, or none: after a schema
\* change no scoped refresh writes into the empty tables.
IndexIsWhole ==
    \/ rows = EmptyIndex
    \/ \E loaded \in Loads : \A p \in Projects : rows[p] # NoRows <=> p \in loaded

\* Rows that this version of the program can read are never all lost, whatever
\* MSBuild loads: it takes a process that found another version before they
\* were saved, or a save between the check of another and its transaction.
RowsSurvive ==
    [][schemaCurrent /\ rows # EmptyIndex /\ rows' = EmptyIndex
         => \/ oldRead /\ mustRebuild'
            \/ \E c \in overtaken : job[c].at = "write" /\ job'[c] # job[c]]_vars

\* A reference of q to a symbol in f is resolved by the rows of both projects.
Resolves(q, f) ==
    /\ rows[q] # NoRows
    /\ rows[Owner[f]] # NoRows
    /\ rows[q][f] = rows[Owner[f]][f]

\* A save never breaks the resolved references of a project that it does not
\* extract anew, unless another call has saved since it looked for them.
InboundLinksKept ==
    [][\A q \in Projects : \A f \in Uses[q] :
         Resolves(q, f) /\ rows'[q] = rows[q]
            => Resolves(q, f)' \/ \E c \in overtaken : job'[c] # job[c]]_vars

\* With no call under way and none that was cut short, a file is marked stale
\* only while a session in which it was accepted waits for other files; else a
\* decision of that session, or of the CLI, was recorded with other options
\* than the session asked for by then.
StaleIsAwaited ==
    \A f \in Files :
        stale[f] /\ ~lost /\ f \notin unattended /\ (\A c \in Callers : job[c] = Idle)
            => \E s \in Sessions :
                 f \in acceptedIn[s] /\ ~(Planned[s] \subseteq decidedIn[s])

\* When every accepted text is indexed and nothing is marked stale, every
\* reference between projects resolves.
WholeWhenFresh ==
    /\ \A f \in Files : ~stale[f] /\ source[f] = accepted[f]
    /\ ~lost /\ rows # EmptyIndex
    /\ \A c \in Callers : job[c] = Idle
    => \A q \in Projects : \A f \in Uses[q] : Resolves(q, f)
=============================================================================
