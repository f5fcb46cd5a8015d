------------------------- MODULE IndexRefreshProofs -------------------------
(***************************************************************************)
(* Proofs about IndexRefresh for any solution, sessions, plans, loads and  *)
(* number of calls that overlap: its types, and the rows as a whole.  The  *)
(* rows are those of one load because every snapshot of a solution is, and *)
(* because a scoped save only replaces rows by rows.                       *)
(***************************************************************************)
EXTENDS IndexRefresh, TLAPS

-----------------------------------------------------------------------------
(* What a call holds *)

LEMMA DecideJobType ==
    ASSUME NEW j \in Job, j.at = "decide"
    PROVE  /\ j.f \in Files
           /\ j.word \in {"accepted", "rejected"}
           /\ j.s \in Sessions \cup {Cli}
           /\ j.defer \in BOOLEAN
           /\ j.plan \in SUBSET Files
BY DEF Job, Idle, DecideJob, ChooseJob, LoadJob, SaveJob, MarkJob

LEMMA ChooseJobType ==
    ASSUME NEW j \in Job, j.at \in {"choose", "inbound", "symbols"}
    PROVE  /\ j \in ChooseJob
           /\ j.f \in Files
           /\ j.s \in Sessions \cup {Cli}
           /\ j.plan \in SUBSET Files
BY DEF Job, Idle, DecideJob, ChooseJob, LoadJob, SaveJob, MarkJob

LEMMA RefreshJobType ==
    ASSUME NEW j \in Job, j.at \in {"load", "save", "write", "mark"}
    PROVE  /\ j.mode \in Modes
           /\ j.target \in TargetsOf(j.mode)
           /\ j.own \in SUBSET Files
<1>1. CASE j.at = "load"
  BY <1>1 DEF Job, Idle, DecideJob, ChooseJob, LoadJob, SaveJob, MarkJob, Modes, TargetsOf
<1>2. CASE j.at \in {"save", "write", "mark"}
  BY <1>2 DEF Job, Idle, DecideJob, ChooseJob, LoadJob, SaveJob, MarkJob
<1> QED BY <1>1, <1>2

LEMMA ScopedLoadType ==
    ASSUME NEW j \in Job, j.at = "load", j.mode = "project"
    PROVE  j.known \in Rows
BY DEF Job, Idle, DecideJob, ChooseJob, LoadJob, SaveJob, MarkJob

LEMMA SaveJobType ==
    ASSUME NEW j \in Job, j.at \in {"save", "write"}
    PROVE  /\ j \in SaveJob
           /\ j.snap \in SnapshotsOf(j.mode)
           /\ j.at = "write" => j.mode # "project"
BY DEF Job, Idle, DecideJob, ChooseJob, LoadJob, SaveJob, MarkJob

LEMMA MarkJobType ==
    ASSUME NEW j \in Job, j.at = "mark"
    PROVE  /\ j \in MarkJob
           /\ j.todo \in SUBSET Files
           /\ j.all \in BOOLEAN
BY DEF Job, Idle, DecideJob, ChooseJob, LoadJob, SaveJob, MarkJob

\* A call that goes on to a job is still a function of the callers.
LEMMA GoesType ==
    ASSUME job \in [Callers -> Job], NEW c \in Callers, NEW j \in Job, Goes(c, j)
    PROVE  job' \in [Callers -> Job]
BY DEF Goes

LEMMA RefreshType ==
    ASSUME NEW own \in SUBSET Files
    PROVE  Refresh(own) \in Job
BY DEF Job, LoadJob, Refresh

LEMMA MarksType ==
    ASSUME NEW j \in Job, j.at \in {"save", "write", "mark"}, NEW all \in BOOLEAN
    PROVE  Marks(j, all) \in Job
<1>1. /\ j.mode \in Modes
      /\ j.target \in TargetsOf(j.mode)
      /\ j.own \in SUBSET Files
  BY RefreshJobType
<1>2. Marks(j, all) \in MarkJob
  BY <1>1 DEF Marks, MarkJob
<1> QED BY <1>2 DEF Job

LEMMA IdleType == Idle \in Job
BY DEF Job

LEMMA SolutionSnapshotType ==
    ASSUME TypeOK, NEW loaded \in SUBSET Projects
    PROVE  SolutionSnapshot(loaded) \in [Projects -> Rows \cup {NoRows}]
<1>1. [f \in Files |-> IF Owner[f] \in loaded THEN source[f] ELSE Dropped] \in Rows
  BY DEF TypeOK, Rows
<1> QED BY <1>1 DEF SolutionSnapshot

LEMMA ProjectSnapshotType ==
    ASSUME TypeOK, NEW p, NEW known
    PROVE  ProjectSnapshot(p, known) \in Rows
BY DEF TypeOK, Rows, ProjectSnapshot

\* The project of a plan is one of the solution's.
LEMMA OnlyProjectType ==
    ASSUME NEW d, NEW p \in OnlyProject(d)
    PROVE  p \in Projects /\ ProjectRefreshPaths(d) = {p} /\ OnlyProject(d) = {p}
BY DEF OnlyProject, ProjectRefreshPaths

-----------------------------------------------------------------------------
(* Type correctness *)

\* Stage puts the version after the one on disk up for review, so a candidate
\* is never the bound's successor.
LEMMA StageType ==
    ASSUME TypeOK, NEW f \in Files, NEW s \in Sessions \cup {Cli}, Stage(f, s)
    PROVE  TypeOK'
<1>1. [version |-> source[f] + 1, session |-> s] \in Candidate
  BY IndexAssumption DEF Stage, TypeOK, Candidate, Versions
<1>2. candidate' \in [Files -> Candidate \cup {NoCandidate}]
  BY <1>1 DEF Stage, TypeOK
<1> QED BY <1>2 DEF Stage, TypeOK, index, history

LEMMA OperatorSavesType ==
    ASSUME TypeOK, NEW f \in Files, OperatorSaves(f)
    PROVE  TypeOK'
<1>1. candidate[f].version \in Versions
  BY IndexAssumption DEF TypeOK, Candidate, NoCandidate, Versions
<1>2. source' \in [Files -> Versions]
  BY <1>1 DEF OperatorSaves, TypeOK
<1> QED BY <1>2 DEF OperatorSaves, TypeOK, index, history

LEMMA DatabaseType ==
    ASSUME TypeOK, ReadVersion \/ DropTables \/ StampVersion
    PROVE  TypeOK'
<1>1. rows' \in [Projects -> Rows \cup {NoRows}]
  BY DEF TypeOK, ReadVersion, DropTables, StampVersion, EmptyIndex
<1>2. schemaCurrent' \in BOOLEAN /\ mustRebuild' \in BOOLEAN /\ oldRead' \in BOOLEAN
  BY DEF TypeOK, ReadVersion, DropTables, StampVersion
<1>3. UNCHANGED <<decisions, stale, job, history>>
  BY DEF ReadVersion, DropTables, StampVersion
<1> QED BY <1>1, <1>2, <1>3 DEF TypeOK, decisions, history

LEMMA BeginDecisionType ==
    ASSUME TypeOK, NEW c \in Callers, NEW f \in Files,
           NEW word \in {"accepted", "rejected"}, BeginDecision(c, f, word)
    PROVE  TypeOK'
<1> DEFINE s == candidate[f].session
<1>1. candidate[f] \in Candidate
  BY DEF BeginDecision, TypeOK
<1>2. s \in Sessions \cup {Cli}
  BY <1>1 DEF Candidate
<1>3. ASSUME NEW defer \in BOOLEAN, NEW plan \in SUBSET Files, Decides(c, f, word, defer, plan)
      PROVE  job' \in [Callers -> Job]
  <2> DEFINE j == [at |-> "decide", f |-> f, word |-> word, s |-> s,
                   defer |-> defer, plan |-> plan]
  <2>1. j \in DecideJob
    BY <1>2 DEF DecideJob
  <2>2. j \in Job
    BY <2>1 DEF Job
  <2>3. Goes(c, j)
    BY <1>3 DEF Decides
  <2> QED BY <2>2, <2>3, GoesType DEF TypeOK
<1>4. job' \in [Callers -> Job]
  <2>1. CASE \E verbose \in CliVerbose : Decides(c, f, word, verbose, {})
    BY <2>1, <1>3, IndexAssumption
  <2>2. CASE /\ s \in Sessions
             /\ Decides(c, f, word, DeferRefresh(s, f, word), AcceptedPlanned(s, f, word))
    <3>1. DeferRefresh(s, f, word) \in BOOLEAN
      BY DEF DeferRefresh
    <3>2. AcceptedPlanned(s, f, word) \in SUBSET Files
      BY <2>2, IndexAssumption DEF AcceptedPlanned
    <3> QED BY <2>2, <3>1, <3>2, <1>3
  <2> QED BY <2>1, <2>2 DEF BeginDecision
<1> QED BY <1>4 DEF BeginDecision, TypeOK, decisions, index, history

LEMMA RecordDecisionType ==
    ASSUME TypeOK, NEW c \in Callers, RecordDecision(c)
    PROVE  TypeOK'
<1> DEFINE d == job[c]
<1>1. /\ d \in Job
      /\ d.f \in Files
      /\ d.s \in Sessions \cup {Cli}
      /\ d.plan \in SUBSET Files
  BY DecideJobType DEF RecordDecision, TypeOK
<1>2. candidate' \in [Files -> Candidate \cup {NoCandidate}]
  BY DEF RecordDecision, TypeOK
<1>3. decidedIn' \in [Sessions -> SUBSET Files] /\ acceptedIn' \in [Sessions -> SUBSET Files]
  BY <1>1 DEF RecordDecision, TypeOK
<1>4. accepted' \in [Files -> Versions]
  BY <1>1 DEF RecordDecision, TypeOK
<1>5. stale' \in [Files -> BOOLEAN]
  BY <1>1 DEF RecordDecision, TypeOK
<1>6. job' \in [Callers -> Job]
  <2> DEFINE j == [at |-> "choose", f |-> d.f, s |-> d.s, plan |-> d.plan]
  <2>1. j \in ChooseJob
    BY <1>1 DEF ChooseJob
  <2>2. j \in Job
    BY <2>1 DEF Job
  <2>3. Goes(c, j) \/ Goes(c, Idle)
    BY DEF RecordDecision
  <2> QED BY <2>2, <2>3, GoesType, IdleType DEF TypeOK
<1>7. unattended' \in SUBSET Files /\ unread' \in [Callers -> SUBSET Files]
  BY <1>1 DEF RecordDecision, TypeOK
<1>8. UNCHANGED <<source, index, overtaken, lost>>
  BY DEF RecordDecision
<1> QED BY <1>2, <1>3, <1>4, <1>5, <1>6, <1>7, <1>8 DEF TypeOK, index

\* Steps that leave decisions, marks and the database as they are.
LEMMA JobStepType ==
    ASSUME TypeOK, NEW c \in Callers, NEW j \in Job, Goes(c, j),
           UNCHANGED <<decisions, stale, index, unattended>>,
           overtaken' \in SUBSET Callers, unread' \in [Callers -> SUBSET Files],
           lost' \in BOOLEAN
    PROVE  TypeOK'
<1>1. job' \in [Callers -> Job]
  BY GoesType DEF TypeOK
<1> QED BY <1>1 DEF TypeOK, decisions, index

\* The same, when only the call goes on.
LEMMA GoesOnType ==
    ASSUME TypeOK, NEW c \in Callers, NEW j \in Job, Goes(c, j),
           UNCHANGED <<decisions, stale, index, history>>
    PROVE  TypeOK'
BY JobStepType DEF TypeOK, history

LEMMA ReturnsType ==
    ASSUME TypeOK, NEW c \in Callers, Returns(c),
           UNCHANGED <<decisions, stale, index, unattended>>, lost' \in BOOLEAN
    PROVE  TypeOK'
<1>1. overtaken' \in SUBSET Callers /\ unread' \in [Callers -> SUBSET Files]
  BY DEF Returns, TypeOK
<1> QED BY <1>1, IdleType, JobStepType DEF Returns

LEMMA RefreshSolutionType ==
    ASSUME TypeOK, NEW c \in Callers, job[c].at \in {"choose", "inbound"}, RefreshSolution(c),
           UNCHANGED <<decisions, stale, index, history>>
    PROVE  TypeOK'
<1>1. /\ job[c].f \in Files
      /\ job[c].plan \in SUBSET Files
  BY ChooseJobType DEF TypeOK
<1>2. \E own \in SUBSET Files : Goes(c, Refresh(own))
  BY <1>1 DEF RefreshSolution, FileRefreshPaths
<1> QED BY <1>2, RefreshType, GoesOnType

LEMMA GoesOnChoosingType ==
    ASSUME TypeOK, NEW c \in Callers, job[c].at \in {"choose", "inbound"},
           NEW at \in {"inbound", "symbols"}, Goes(c, [job[c] EXCEPT !.at = at]),
           UNCHANGED <<decisions, stale, index, history>>
    PROVE  TypeOK'
<1>1. job[c] \in ChooseJob
  BY ChooseJobType DEF TypeOK
<1>2. [job[c] EXCEPT !.at = at] \in ChooseJob
  BY <1>1 DEF ChooseJob
<1> QED BY <1>2, GoesOnType DEF Job

LEMMA ChoosingType ==
    ASSUME TypeOK, NEW c \in Callers, ChooseMode(c) \/ ReadInbound(c)
    PROVE  TypeOK'
BY RefreshSolutionType, GoesOnChoosingType DEF ChooseMode, ReadInbound

\* What a scoped refresh is loaded with.
LEMMA ListSymbolsType ==
    ASSUME TypeOK, NEW c \in Callers, ListSymbols(c)
    PROVE  TypeOK'
<1> DEFINE d == job[c]
           known == [f \in Files |->
                       IF rows[Owner[f]] = NoRows \/ f \in FileRefreshPaths(d)
                       THEN Dropped
                       ELSE rows[Owner[f]][f]]
<1>1. PICK p \in OnlyProject(d) :
        Goes(c, [at |-> "load", mode |-> "project", target |-> p, own |-> d.plan \cup {d.f},
                 known |-> known])
  BY DEF ListSymbols
<1>2. /\ d.f \in Files
      /\ d.plan \in SUBSET Files
  BY ChooseJobType DEF ListSymbols, TypeOK
<1>3. p \in Projects
  BY OnlyProjectType
<1>4. known \in Rows
  BY IndexAssumption DEF TypeOK, Rows
<1>5. [at |-> "load", mode |-> "project", target |-> p, own |-> d.plan \cup {d.f},
       known |-> known] \in LoadJob
  BY <1>2, <1>3, <1>4 DEF LoadJob
<1> QED BY <1>1, <1>5, GoesOnType DEF Job, ListSymbols

\* What Load hands to the save that follows.
LEMMA LoadedJobType ==
    ASSUME TypeOK, NEW c \in Callers, job[c].at = "load", NEW snap,
           snap \in SnapshotsOf(job[c].mode), Loaded(c, snap)
    PROVE  TypeOK'
<1> DEFINE j == [at |-> "save", mode |-> job[c].mode, target |-> job[c].target,
                 own |-> job[c].own, snap |-> snap]
<1>1. /\ job[c].mode \in Modes
      /\ job[c].target \in TargetsOf(job[c].mode)
      /\ job[c].own \in SUBSET Files
  BY RefreshJobType DEF TypeOK
<1>2. j \in SaveJob
  BY <1>1 DEF SaveJob
<1>3. j \in Job
  BY <1>2 DEF Job
<1>4. unread' \in [Callers -> SUBSET Files]
  BY DEF Loaded, TypeOK
<1>5. overtaken' \in SUBSET Callers /\ lost' \in BOOLEAN
  BY DEF Loaded, TypeOK
<1> QED BY <1>3, <1>4, <1>5, JobStepType DEF Loaded

LEMMA LoadType ==
    ASSUME TypeOK, NEW c \in Callers, Load(c)
    PROVE  TypeOK'
<1>1. CASE job[c].mode = "project"
  <2>1. ProjectSnapshot(job[c].target, job[c].known) \in SnapshotsOf(job[c].mode)
    BY <1>1, ProjectSnapshotType DEF SnapshotsOf
  <2> QED BY <1>1, <2>1, LoadedJobType DEF Load
<1>2. CASE job[c].mode # "project"
  <2>1. PICK loaded \in Loads : Loaded(c, SolutionSnapshot(loaded))
    BY <1>2 DEF Load
  <2>2. SolutionSnapshot(loaded) \in SnapshotsOf(job[c].mode)
    BY <1>2, IndexAssumption, SolutionSnapshotType DEF SnapshotsOf
  <2> QED BY <2>1, <2>2, LoadedJobType DEF Load
<1> QED BY <1>1, <1>2

LEMMA CheckProjectsType ==
    ASSUME TypeOK, NEW c \in Callers, CheckProjects(c)
    PROVE  TypeOK'
<1>1. job[c] \in SaveJob
  BY SaveJobType DEF CheckProjects, TypeOK
<1>2. PICK m \in Modes :
        job[c] \in [at : IF m = "project" THEN {"save"} ELSE {"save", "write"}, mode : {m},
                    target : TargetsOf(m), own : SUBSET Files, snap : SnapshotsOf(m)]
  BY <1>1 DEF SaveJob
<1>3. [job[c] EXCEPT !.at = "write"] \in
        [at : IF m = "project" THEN {"save"} ELSE {"save", "write"}, mode : {m},
         target : TargetsOf(m), own : SUBSET Files, snap : SnapshotsOf(m)]
  BY <1>2 DEF CheckProjects
<1>4. [job[c] EXCEPT !.at = "write"] \in Job
  BY <1>3 DEF Job, SaveJob
<1> QED BY <1>4, GoesOnType DEF CheckProjects

LEMMA SaveType ==
    ASSUME TypeOK, NEW c \in Callers, SaveSolution(c) \/ SaveProject(c)
    PROVE  TypeOK'
<1>1. job[c] \in Job /\ job[c].at \in {"save", "write"}
  BY DEF SaveSolution, SaveProject, TypeOK
<1>2. /\ job[c].snap \in SnapshotsOf(job[c].mode)
      /\ job[c].at = "write" => job[c].mode # "project"
  BY <1>1, SaveJobType
<1>3. rows' \in [Projects -> Rows \cup {NoRows}]
  BY <1>2 DEF SaveSolution, SaveProject, SnapshotsOf, TypeOK
<1>4. job' \in [Callers -> Job]
  <2>1. \E all \in BOOLEAN : Goes(c, Marks(job[c], all))
    BY DEF SaveSolution, SaveProject
  <2> QED BY <1>1, <2>1, MarksType, GoesType DEF TypeOK
<1>5. schemaCurrent' \in BOOLEAN /\ mustRebuild' \in BOOLEAN /\ oldRead' \in BOOLEAN
  BY DEF SaveSolution, SaveProject, TypeOK
<1>6. overtaken' \in SUBSET Callers
  BY DEF SaveSolution, SaveProject, Overtakes
<1>7. UNCHANGED <<decisions, stale, unattended, unread, lost>>
  BY DEF SaveSolution, SaveProject
<1> QED BY <1>3, <1>4, <1>5, <1>6, <1>7 DEF TypeOK, decisions

LEMMA MarkFreshType ==
    ASSUME TypeOK, NEW c \in Callers, NEW f \in Files, MarkFresh(c, f)
    PROVE  TypeOK'
<1> DEFINE j == [job[c] EXCEPT !.todo = @ \ {f}]
<1>1. job[c] \in MarkJob /\ job[c].todo \in SUBSET Files
  BY MarkJobType DEF MarkFresh, TypeOK
<1>2. PICK m \in Modes :
        job[c] \in [at : {"mark"}, mode : {m}, target : TargetsOf(m), own : SUBSET Files,
                    todo : SUBSET Files, all : BOOLEAN]
  BY <1>1 DEF MarkJob
<1>3. j \in [at : {"mark"}, mode : {m}, target : TargetsOf(m), own : SUBSET Files,
             todo : SUBSET Files, all : BOOLEAN]
  BY <1>1, <1>2
<1>4. j \in MarkJob
  BY <1>3 DEF MarkJob
<1>5. j \in Job
  BY <1>4 DEF Job
<1>6. job' \in [Callers -> Job]
  BY <1>5, GoesType DEF MarkFresh, TypeOK
<1>7. stale' \in [Files -> BOOLEAN] /\ unattended' \in SUBSET Files
  BY DEF MarkFresh, TypeOK
<1> QED BY <1>6, <1>7 DEF MarkFresh, TypeOK, decisions, index

LEMMA MarkedType ==
    ASSUME TypeOK, NEW c \in Callers, Marked(c)
    PROVE  TypeOK'
<1>1. job[c] \in Job /\ job[c].at = "mark"
  BY DEF Marked, TypeOK
<1>2. Marks(job[c], FALSE) \in Job
  BY <1>1, MarksType
<1>3. CASE job[c].all
  <2>1. /\ Goes(c, Marks(job[c], FALSE))
        /\ UNCHANGED <<decisions, stale, index, history>>
    BY <1>3 DEF Marked, history
  <2> QED BY <1>2, <2>1, GoesOnType
<1>4. CASE ~job[c].all
  BY <1>4, ReturnsType DEF Marked, TypeOK
<1> QED BY <1>3, <1>4

LEMMA ProjectRefreshFailsType ==
    ASSUME TypeOK, NEW c \in Callers, ProjectRefreshFails(c)
    PROVE  TypeOK'
<1>1. \E own \in SUBSET Files : Goes(c, Refresh(own))
  <2>1. CASE /\ job[c].at \in {"load", "save", "mark"}
             /\ job[c].mode = "project"
             /\ Goes(c, Refresh(job[c].own))
    BY <2>1, RefreshJobType DEF TypeOK
  <2>2. CASE /\ job[c].at = "symbols"
             /\ Goes(c, Refresh(job[c].plan \cup {job[c].f}))
    BY <2>2, ChooseJobType DEF TypeOK
  <2> QED BY <2>1, <2>2 DEF ProjectRefreshFails
<1>2. overtaken' \in SUBSET Callers
  BY DEF ProjectRefreshFails, TypeOK
<1> QED BY <1>1, <1>2, RefreshType, JobStepType DEF ProjectRefreshFails, TypeOK

LEMMA EndType ==
    ASSUME TypeOK, NEW c \in Callers, RefuseDecision(c) \/ Fail(c)
    PROVE  TypeOK'
<1>1. CASE RefuseDecision(c)
  BY <1>1, IdleType, GoesOnType DEF RefuseDecision
<1>2. CASE Fail(c)
  BY <1>2, ReturnsType DEF Fail
<1> QED BY <1>1, <1>2

LEMMA BeginRebuildType ==
    ASSUME TypeOK, NEW c \in Callers, BeginRebuild(c)
    PROVE  TypeOK'
<1>1. Refresh({}) \in Job
  BY RefreshType
<1> QED BY <1>1, GoesOnType DEF BeginRebuild

LEMMA InitType == Init => TypeOK
<1> SUFFICES ASSUME Init PROVE TypeOK
  OBVIOUS
<1>1. source \in [Files -> Versions]
  BY IndexAssumption DEF Init, Versions
<1>2. rows \in [Projects -> Rows \cup {NoRows}]
  <2>1. CASE rows = EmptyIndex
    BY <2>1 DEF EmptyIndex
  <2>2. ASSUME NEW loaded \in Loads, rows = SolutionSnapshot(loaded)
        PROVE  rows \in [Projects -> Rows \cup {NoRows}]
    <3>1. [f \in Files |-> IF Owner[f] \in loaded THEN source[f] ELSE Dropped] \in Rows
      BY <1>1 DEF Rows
    <3> QED BY <2>2, <3>1 DEF SolutionSnapshot
  <2> QED BY <2>1, <2>2 DEF Init
<1>3. job \in [Callers -> Job]
  BY IdleType DEF Init
<1> QED BY <1>1, <1>2, <1>3 DEF Init, TypeOK

LEMMA NextType == TypeOK /\ [Next]_vars => TypeOK'
<1> SUFFICES ASSUME TypeOK, [Next]_vars PROVE TypeOK'
  OBVIOUS
<1>1. CASE UNCHANGED vars
  BY <1>1 DEF vars, decisions, index, history, TypeOK
<1>2. ASSUME NEW f \in Files, OperatorSaves(f) PROVE TypeOK'
  BY <1>2, OperatorSavesType
<1>3. ASSUME NEW f \in Files, NEW s \in Sessions \cup {Cli}, Stage(f, s) PROVE TypeOK'
  BY <1>3, StageType
<1>4. CASE ReadVersion \/ DropTables \/ StampVersion
  BY <1>4, DatabaseType
<1>5. ASSUME NEW c \in Callers, Decision(c) PROVE TypeOK'
  BY <1>5, BeginDecisionType, RecordDecisionType, EndType DEF Decision
<1>6. ASSUME NEW c \in Callers, Refreshing(c) PROVE TypeOK'
  BY <1>6, ChoosingType, ListSymbolsType, BeginRebuildType, LoadType, CheckProjectsType,
     SaveType, MarkFreshType, MarkedType, ProjectRefreshFailsType, EndType DEF Refreshing
<1> QED BY <1>1, <1>2, <1>3, <1>4, <1>5, <1>6 DEF Next

\* The database, the manifests and the calls hold what their types say.
THEOREM TypeCorrect == Spec => []TypeOK
<1> QED BY InitType, NextType, PTL DEF Spec

-----------------------------------------------------------------------------
(* Steps of calls *)

LEMMA AfterGoes ==
    ASSUME TypeOK, NEW c \in Callers, NEW j, Goes(c, j)
    PROVE  job'[c] = j /\ \A d \in Callers \ {c} : job'[d] = job[d]
BY DEF Goes, TypeOK

\* The options of a decision.
LEMMA BeganJob ==
    ASSUME TypeOK, NEW c \in Callers, NEW f \in Files,
           NEW word \in {"accepted", "rejected"}, BeginDecision(c, f, word)
    PROVE  \E defer \in BOOLEAN, plan \in SUBSET Files :
             /\ job'[c] = [at |-> "decide", f |-> f, word |-> word, s |-> candidate[f].session,
                           defer |-> defer, plan |-> plan]
             /\ \/ plan = {}
                \/ /\ candidate[f].session \in Sessions
                   /\ plan = AcceptedPlanned(candidate[f].session, f, word)
<1> DEFINE s == candidate[f].session
<1>1. ASSUME NEW verbose \in CliVerbose, Decides(c, f, word, verbose, {})
      PROVE  job'[c] = [at |-> "decide", f |-> f, word |-> word, s |-> s,
                        defer |-> verbose, plan |-> {}] /\ verbose \in BOOLEAN
  BY <1>1, AfterGoes, IndexAssumption DEF Decides
<1>2. ASSUME s \in Sessions,
             Decides(c, f, word, DeferRefresh(s, f, word), AcceptedPlanned(s, f, word))
      PROVE  /\ job'[c] = [at |-> "decide", f |-> f, word |-> word, s |-> s,
                           defer |-> DeferRefresh(s, f, word),
                           plan |-> AcceptedPlanned(s, f, word)]
             /\ DeferRefresh(s, f, word) \in BOOLEAN
             /\ AcceptedPlanned(s, f, word) \in SUBSET Files
  <2>1. DeferRefresh(s, f, word) \in BOOLEAN
    BY DEF DeferRefresh
  <2>2. AcceptedPlanned(s, f, word) \in SUBSET Files
    BY <1>2, IndexAssumption DEF AcceptedPlanned
  <2> QED BY <1>2, <2>1, <2>2, AfterGoes DEF Decides
<1> QED BY <1>1, <1>2 DEF BeginDecision

LEMMA BeganAt ==
    ASSUME TypeOK, NEW c \in Callers, NEW f \in Files,
           NEW word \in {"accepted", "rejected"}, BeginDecision(c, f, word)
    PROVE  job'[c].at = "decide"
<1>1. PICK defer \in BOOLEAN, plan \in SUBSET Files :
        /\ job'[c] = [at |-> "decide", f |-> f, word |-> word, s |-> candidate[f].session,
                      defer |-> defer, plan |-> plan]
        /\ \/ plan = {}
           \/ /\ candidate[f].session \in Sessions
              /\ plan = AcceptedPlanned(candidate[f].session, f, word)
  BY BeganJob
<1> QED BY <1>1

LEMMA MarkFreshJob ==
    ASSUME TypeOK, NEW c \in Callers, NEW f \in Files, MarkFresh(c, f)
    PROVE  /\ job'[c].at = "mark"
           /\ job'[c].mode = job[c].mode /\ job'[c].target = job[c].target
           /\ job'[c].own = job[c].own /\ job'[c].all = job[c].all
           /\ job'[c].todo = job[c].todo \ {f}
<1>1. job[c] \in MarkJob /\ job[c].at = "mark"
  BY MarkJobType DEF MarkFresh, TypeOK
<1>2. job'[c] = [job[c] EXCEPT !.todo = @ \ {f}]
  BY AfterGoes DEF MarkFresh
<1> QED BY <1>1, <1>2 DEF MarkJob

LEMMA ChoosingJob ==
    ASSUME TypeOK, NEW c \in Callers, ChooseMode(c) \/ ReadInbound(c)
    PROVE  \/ /\ job'[c].at = IF job[c].at = "choose" THEN "inbound" ELSE "symbols"
              /\ job'[c].f = job[c].f /\ job'[c].s = job[c].s /\ job'[c].plan = job[c].plan
           \/ job'[c].at = "load" /\ job'[c].mode = "solution"
<1>1. CASE RefreshSolution(c)
  BY <1>1, AfterGoes DEF RefreshSolution, Refresh
<1>2. CASE ~RefreshSolution(c)
  <2>1. job[c] \in ChooseJob
    BY ChooseJobType DEF ChooseMode, ReadInbound, TypeOK
  <2>2. job'[c] = [job[c] EXCEPT !.at = IF job[c].at = "choose" THEN "inbound" ELSE "symbols"]
    BY <1>2, AfterGoes DEF ChooseMode, ReadInbound
  <2> QED BY <2>1, <2>2 DEF ChooseJob
<1> QED BY <1>1, <1>2

LEMMA CheckProjectsJob ==
    ASSUME TypeOK, NEW c \in Callers, CheckProjects(c)
    PROVE  /\ job'[c].at = "write" /\ job'[c].mode = job[c].mode
           /\ job'[c].snap = job[c].snap /\ job'[c].own = job[c].own
<1>1. job[c] \in SaveJob
  BY SaveJobType DEF CheckProjects, TypeOK
<1>2. job'[c] = [job[c] EXCEPT !.at = "write"]
  BY AfterGoes DEF CheckProjects
<1> QED BY <1>1, <1>2 DEF SaveJob

\* A decision goes on to a refresh of its plan, or is over.
LEMMA RecordedJob ==
    ASSUME TypeOK, NEW c \in Callers, RecordDecision(c)
    PROVE  LET d == job[c]
               refreshes == ~d.defer /\ (d.word = "accepted" \/ d.plan # {})
           IN  /\ d.at = "decide"
               /\ refreshes =>
                    /\ job'[c].at = "choose" /\ job'[c].f = d.f
                    /\ job'[c].s = d.s /\ job'[c].plan = d.plan
               /\ ~refreshes => job'[c] = Idle
BY AfterGoes DEF RecordDecision

\* A step is of one call, or of none,
LEMMA StepOfOne ==
    ASSUME TypeOK, [Next]_vars, NEW c \in Callers, job'[c] # job[c]
    PROVE  Decision(c) \/ Refreshing(c)
<1>1. ASSUME NEW d \in Callers, Decision(d) PROVE d = c
  BY <1>1, AfterGoes DEF Decision, BeginDecision, Decides, RecordDecision, RefuseDecision
<1>2. ASSUME NEW d \in Callers, Refreshing(d) PROVE d = c
  BY <1>2, AfterGoes DEF Refreshing, ChooseMode, ReadInbound, RefreshSolution, ListSymbols,
     BeginRebuild, Load, Loaded, CheckProjects, SaveSolution, SaveProject, MarkFresh, Marked,
     Returns, ProjectRefreshFails, Fail
<1> QED BY <1>1, <1>2 DEF Next, OperatorSaves, Stage, ReadVersion, DropTables, StampVersion, vars

\* and a step of a call takes it on.
LEMMA StepMoves ==
    ASSUME TypeOK, NEW c \in Callers, Decision(c) \/ Refreshing(c)
    PROVE  job'[c] # job[c]
<1>1. ASSUME NEW f \in Files, NEW word \in {"accepted", "rejected"}, BeginDecision(c, f, word)
      PROVE  job'[c] # job[c]
  <2>1. job'[c].at = "decide"
    BY <1>1, BeganAt
  <2> QED BY <1>1, <2>1 DEF BeginDecision, Idle
<1>2. RecordDecision(c) \/ RefuseDecision(c) => job'[c] # job[c]
  BY RecordedJob, AfterGoes DEF RefuseDecision, Idle
<1>3. ChooseMode(c) \/ ReadInbound(c) => job'[c] # job[c]
  BY ChoosingJob DEF ChooseMode, ReadInbound
<1>4. ListSymbols(c) \/ BeginRebuild(c) => job'[c] # job[c]
  BY DEF ListSymbols, BeginRebuild, Refresh, Idle, Goes, TypeOK
<1>5. Load(c) \/ CheckProjects(c) => job'[c] # job[c]
  BY CheckProjectsJob DEF Load, Loaded, CheckProjects, Goes, TypeOK
<1>6. SaveSolution(c) \/ SaveProject(c) => job'[c] # job[c]
  BY AfterGoes DEF SaveSolution, SaveProject, Marks
<1>7. ASSUME NEW f \in Files, MarkFresh(c, f) PROVE job'[c] # job[c]
  BY <1>7, MarkFreshJob DEF MarkFresh
<1>8. Marked(c) => job'[c] # job[c]
  BY AfterGoes DEF Marked, Returns, Marks, Idle
<1>9. ProjectRefreshFails(c) => job'[c] # job[c]
  BY DEF ProjectRefreshFails, Refresh, Goes, TypeOK
<1>10. Fail(c) => job'[c] # job[c]
  BY AfterGoes DEF Fail, Returns, Idle
<1> QED BY <1>1, <1>2, <1>3, <1>4, <1>5, <1>6, <1>7, <1>8, <1>9, <1>10 DEF Decision, Refreshing

\* Which step takes a call to where it is.
LEMMA JobFollows ==
    ASSUME TypeOK, [Next]_vars, NEW c \in Callers, job'[c] # job[c]
    PROVE  /\ job'[c].at = "decide" =>
                \E f \in Files, word \in {"accepted", "rejected"} : BeginDecision(c, f, word)
           /\ job'[c].at = "choose" => RecordDecision(c)
           /\ job'[c].at = "inbound" => ChooseMode(c)
           /\ job'[c].at = "symbols" => ReadInbound(c)
           /\ job'[c].at = "load" /\ job'[c].mode = "project" => ListSymbols(c)
           /\ job'[c].at = "save" => Load(c)
           /\ job'[c].at = "write" => CheckProjects(c)
           /\ job'[c].at = "mark" =>
                \/ SaveSolution(c) \/ SaveProject(c) \/ Marked(c)
                \/ \E f \in Files : MarkFresh(c, f)
<1>1. Decision(c) \/ Refreshing(c)
  BY StepOfOne
<1>2. ASSUME NEW f \in Files, NEW word \in {"accepted", "rejected"}, BeginDecision(c, f, word)
      PROVE  job'[c].at = "decide"
  BY <1>2, BeganAt
<1>3. RecordDecision(c) => job'[c].at \in {"choose", "idle"}
  BY RecordedJob DEF Idle
<1>4. RefuseDecision(c) \/ Fail(c) => job'[c].at = "idle"
  BY AfterGoes DEF RefuseDecision, Fail, Returns, Idle
<1>5. /\ ChooseMode(c) => job'[c].at = "inbound" \/ (job'[c].at = "load" /\ job'[c].mode = "solution")
      /\ ReadInbound(c) => job'[c].at = "symbols" \/ (job'[c].at = "load" /\ job'[c].mode = "solution")
  BY ChoosingJob DEF ChooseMode, ReadInbound
<1>6. BeginRebuild(c) \/ ProjectRefreshFails(c) => job'[c].at = "load" /\ job'[c].mode # "project"
  BY DEF BeginRebuild, ProjectRefreshFails, Refresh, Goes, TypeOK
<1>7. ListSymbols(c) => job'[c].at = "load"
  BY AfterGoes DEF ListSymbols
<1>8. Load(c) => job'[c].at = "save"
  BY DEF Load, Loaded, Goes, TypeOK
<1>9. CheckProjects(c) => job'[c].at = "write"
  BY CheckProjectsJob
<1>10. SaveSolution(c) \/ SaveProject(c) => job'[c].at = "mark"
  BY AfterGoes DEF SaveSolution, SaveProject, Marks
<1>11. ASSUME NEW f \in Files, MarkFresh(c, f) PROVE job'[c].at = "mark"
  BY <1>11, MarkFreshJob
<1>12. Marked(c) => job'[c].at \in {"mark", "idle"}
  BY AfterGoes DEF Marked, Marks, Returns, Idle
<1> QED BY <1>1, <1>2, <1>3, <1>4, <1>5, <1>6, <1>7, <1>8, <1>9, <1>10, <1>11, <1>12
   DEF Decision, Refreshing

\* What another call, or the database, can do to a call that waits: rows it goes
\* by are saved over only when that is known, and so are the accepts it misses.
LEMMA Meanwhile ==
    ASSUME TypeOK, [Next]_vars, NEW c \in Callers, job'[c] = job[c]
    PROVE  /\ c \in overtaken => c \in overtaken'
           /\ unread[c] \subseteq unread'[c]
           /\ \/ rows' \in {rows, EmptyIndex}
              \/ GoesByRows(c) => c \in overtaken'
           /\ job[c].at \notin {"idle", "decide"} =>
                \A f \in Files : \/ f \in unread'[c]
                                 \/ accepted'[f] = accepted[f] /\ (stale'[f] => stale[f])
<1>1. ASSUME NEW d \in Callers, Decision(d) \/ Refreshing(d) PROVE d # c
  BY <1>1, StepMoves
<1>2. ASSUME NEW d \in Callers, RecordDecision(d)
      PROVE  /\ UNCHANGED <<rows, overtaken>>
             /\ unread[c] \subseteq unread'[c]
             /\ job[c].at \notin {"idle", "decide"} =>
                  \A f \in Files : \/ f \in unread'[c]
                                   \/ accepted'[f] = accepted[f] /\ (stale'[f] => stale[f])
  BY <1>2 DEF RecordDecision, TypeOK, index
<1>3. ASSUME NEW d \in Callers, Decision(d), ~RecordDecision(d)
      PROVE  UNCHANGED <<rows, accepted, stale, overtaken, unread>>
  BY <1>3 DEF Decision, BeginDecision, RefuseDecision, decisions, index, history
<1>4. ASSUME NEW d \in Callers, SaveSolution(d) \/ SaveProject(d)
      PROVE  /\ UNCHANGED <<accepted, stale, unread>>
             /\ c \in overtaken => c \in overtaken'
             /\ GoesByRows(c) => c \in overtaken'
  BY <1>1, <1>4 DEF Refreshing, SaveSolution, SaveProject, Overtakes, decisions
<1>5. ASSUME NEW d \in Callers, Refreshing(d), ~SaveSolution(d), ~SaveProject(d)
      PROVE  /\ UNCHANGED <<rows, accepted>>
             /\ \A f \in Files : stale'[f] => stale[f]
             /\ c \in overtaken => c \in overtaken'
             /\ unread'[c] = unread[c]
  BY <1>1, <1>5 DEF Refreshing, ChooseMode, ReadInbound, ListSymbols, BeginRebuild, Load, Loaded,
     CheckProjects, MarkFresh, Marked, Returns, ProjectRefreshFails, Fail, TypeOK, decisions,
     index, history
<1>6. ASSUME \/ \E f \in Files : OperatorSaves(f) \/ \E s \in Sessions \cup {Cli} : Stage(f, s)
             \/ ReadVersion \/ DropTables \/ StampVersion \/ UNCHANGED vars
      PROVE  /\ UNCHANGED <<accepted, stale, overtaken, unread>>
             /\ rows' \in {rows, EmptyIndex}
  BY <1>6 DEF OperatorSaves, Stage, ReadVersion, DropTables, StampVersion, vars, decisions,
     index, history
<1> QED BY <1>2, <1>3, <1>4, <1>5, <1>6 DEF Next

-----------------------------------------------------------------------------
(* The rows as a whole *)

\* The projects a snapshot has are those of one load, or it has none.
OfOneLoad(snap) ==
    \/ snap = EmptyIndex
    \/ \E loaded \in Loads : \A p \in Projects : snap[p] # NoRows <=> p \in loaded

SnapshotsAreWhole ==
    \A c \in Callers :
        job[c].at \in {"save", "write"} /\ job[c].mode # "project" => OfOneLoad(job[c].snap)

WholeInv == TypeOK /\ IndexIsWhole /\ SnapshotsAreWhole

\* What a load hands on, by the kind of refresh.
LEMMA LoadedJob ==
    ASSUME TypeOK, NEW c \in Callers, Load(c)
    PROVE  /\ job'[c].mode = job[c].mode
           /\ job'[c].target = job[c].target
           /\ job'[c].own = job[c].own
           /\ job[c].mode = "project" =>
                job'[c].snap = ProjectSnapshot(job[c].target, job[c].known)
           /\ job[c].mode # "project" =>
                \E loaded \in Loads : job'[c].snap = SolutionSnapshot(loaded)
BY DEF Load, Loaded, Goes, TypeOK

\* A scoped save replaces the rows of one project by others.
LEMMA SavedProject ==
    ASSUME TypeOK, NEW c \in Callers, SaveProject(c)
    PROVE  /\ job[c].target \in Projects
           /\ job[c].snap \in Rows /\ job[c].snap # NoRows
           /\ rows[job[c].target] # NoRows
           /\ rows' = [rows EXCEPT ![job[c].target] = job[c].snap]
<1>1. job[c].target \in Projects /\ job[c].snap \in Rows
  BY RefreshJobType, SaveJobType DEF SaveProject, TypeOK, TargetsOf, SnapshotsOf
<1> QED BY <1>1, IndexAssumption DEF SaveProject

\* Apart from the saves, the rows stay or are dropped.
LEMMA OtherRows ==
    ASSUME [Next]_vars, \A d \in Callers : ~SaveSolution(d) /\ ~SaveProject(d)
    PROVE  \/ rows' = rows
           \/ DropTables /\ rows' = EmptyIndex
<1>1. ASSUME NEW d \in Callers, Decision(d) PROVE rows' = rows
  BY <1>1 DEF Decision, BeginDecision, RecordDecision, RefuseDecision, index
<1>2. ASSUME NEW d \in Callers, Refreshing(d) PROVE rows' = rows
  BY <1>2 DEF Refreshing, ChooseMode, ReadInbound, ListSymbols, BeginRebuild, Load, Loaded,
     CheckProjects, MarkFresh, Marked, ProjectRefreshFails, Fail, index
<1> QED BY <1>1, <1>2 DEF Next, OperatorSaves, Stage, ReadVersion, DropTables, StampVersion,
     vars, index

LEMMA SolutionSnapshotRows ==
    ASSUME TypeOK, NEW loaded \in SUBSET Projects, NEW p \in Projects
    PROVE  SolutionSnapshot(loaded)[p] # NoRows <=> p \in loaded
<1>1. [f \in Files |-> IF Owner[f] \in loaded THEN source[f] ELSE Dropped] \in Rows
  BY DEF TypeOK, Rows
<1> QED BY <1>1, IndexAssumption DEF SolutionSnapshot

LEMMA NextWhole ==
    ASSUME WholeInv, [Next]_vars
    PROVE  IndexIsWhole' /\ SnapshotsAreWhole'
<1> USE DEF WholeInv
<1>1. OfOneLoad(rows)
  BY DEF OfOneLoad, IndexIsWhole
<1>2. OfOneLoad(rows')
  <2>1. ASSUME NEW c \in Callers, SaveSolution(c) PROVE OfOneLoad(rows')
    <3>1. job[c].mode # "project"
      BY <2>1, SaveJobType DEF SaveSolution, TypeOK
    <3> QED BY <2>1, <3>1 DEF SaveSolution, SnapshotsAreWhole
  <2>2. ASSUME NEW c \in Callers, SaveProject(c) PROVE OfOneLoad(rows')
    <3>1. \A p \in Projects : rows'[p] # NoRows <=> rows[p] # NoRows
      BY <2>2, SavedProject DEF TypeOK
    <3>2. rows # EmptyIndex
      BY <2>2, SavedProject DEF EmptyIndex
    <3> QED BY <1>1, <3>1, <3>2 DEF OfOneLoad
  <2>3. CASE \A c \in Callers : ~SaveSolution(c) /\ ~SaveProject(c)
    <3>1. rows' = rows \/ rows' = EmptyIndex
      BY <2>3, OtherRows
    <3> QED BY <1>1, <3>1 DEF OfOneLoad
  <2> QED BY <2>1, <2>2, <2>3
<1>3. SnapshotsAreWhole'
  <2> SUFFICES ASSUME NEW c \in Callers, job'[c].at \in {"save", "write"},
                      job'[c].mode # "project"
               PROVE  OfOneLoad(job'[c].snap)
    BY DEF SnapshotsAreWhole, OfOneLoad, EmptyIndex
  <2>1. CASE job'[c] = job[c]
    BY <2>1 DEF SnapshotsAreWhole
  <2>2. CASE Load(c)
    <3>1. PICK loaded \in Loads : job'[c].snap = SolutionSnapshot(loaded)
      BY <2>2, LoadedJob
    <3>2. \A p \in Projects : SolutionSnapshot(loaded)[p] # NoRows <=> p \in loaded
      BY IndexAssumption, SolutionSnapshotRows
    <3> QED BY <3>1, <3>2 DEF OfOneLoad
  <2>3. CASE CheckProjects(c)
    BY <2>3, CheckProjectsJob DEF CheckProjects, SnapshotsAreWhole
  <2> QED BY <2>1, <2>2, <2>3, JobFollows
<1> QED BY <1>2, <1>3 DEF IndexIsWhole, OfOneLoad, EmptyIndex

LEMMA InitWhole == Init => WholeInv
<1> SUFFICES ASSUME Init PROVE WholeInv
  OBVIOUS
<1>1. TypeOK
  BY InitType
<1>2. IndexIsWhole
  <2>1. ASSUME NEW loaded \in Loads, rows = SolutionSnapshot(loaded) PROVE IndexIsWhole
    <3>1. \A p \in Projects : SolutionSnapshot(loaded)[p] # NoRows <=> p \in loaded
      BY <1>1, IndexAssumption, SolutionSnapshotRows
    <3> QED BY <2>1, <3>1 DEF IndexIsWhole
  <2> QED BY <2>1 DEF Init, IndexIsWhole
<1>3. SnapshotsAreWhole
  BY DEF Init, Idle, SnapshotsAreWhole
<1> QED BY <1>1, <1>2, <1>3 DEF WholeInv

\* Whatever calls overlap or die, the index holds the projects of one load or
\* none: a scoped save finds no project in tables made anew.
THEOREM IndexStaysWhole == Spec => []IndexIsWhole
<1>1. Init => WholeInv
  BY InitWhole
<1>2. WholeInv /\ [Next]_vars => WholeInv'
  BY NextType, NextWhole DEF WholeInv
<1>3. WholeInv => IndexIsWhole
  BY DEF WholeInv
<1> QED BY <1>1, <1>2, <1>3, PTL DEF Spec

-----------------------------------------------------------------------------
(* The rows survive *)

\* What SaveSnapshot has found holds at its transaction, unless another call
\* has saved in between.
CheckedSnapshots ==
    \A c \in Callers :
        job[c].at = "write" /\ c \notin overtaken /\ job[c].snap = EmptyIndex
            => rows = EmptyIndex

LEMMA NextChecked ==
    ASSUME TypeOK, CheckedSnapshots, [Next]_vars
    PROVE  CheckedSnapshots'
<1> SUFFICES ASSUME NEW c \in Callers, job'[c].at = "write", c \notin overtaken',
                    job'[c].snap = EmptyIndex
             PROVE  rows' = EmptyIndex
  BY DEF CheckedSnapshots, EmptyIndex
<1>1. CASE job'[c] = job[c]
  BY <1>1, Meanwhile DEF GoesByRows, CheckedSnapshots
<1>2. CASE job'[c] # job[c]
  <2>1. CheckProjects(c)
    BY <1>2, JobFollows
  <2> QED BY <2>1, CheckProjectsJob DEF CheckProjects, index
<1> QED BY <1>1, <1>2

\* No call takes the last rows out of an index that this program can read,
\* whichever projects MSBuild opens, unless another saves them between its
\* check and its transaction; nor does a process that made the tables anew.
THEOREM RowsAreKept == Spec => RowsSurvive
<1> DEFINE A == schemaCurrent /\ rows # EmptyIndex /\ rows' = EmptyIndex
                  => \/ oldRead /\ mustRebuild'
                     \/ \E c \in overtaken : job[c].at = "write" /\ job'[c] # job[c]
<1>1. TypeOK /\ CheckedSnapshots /\ [Next]_vars => A
  <2> SUFFICES ASSUME TypeOK, CheckedSnapshots, [Next]_vars, rows # EmptyIndex,
                      rows' = EmptyIndex
               PROVE  \/ oldRead /\ mustRebuild'
                      \/ \E c \in overtaken : job[c].at = "write" /\ job'[c] # job[c]
    OBVIOUS
  <2>1. ASSUME NEW c \in Callers, SaveSolution(c)
        PROVE  c \in overtaken /\ job[c].at = "write" /\ job'[c] # job[c]
    BY <2>1, StepMoves DEF Refreshing, SaveSolution, CheckedSnapshots
  <2>2. ASSUME NEW c \in Callers, SaveProject(c) PROVE FALSE
    <3>1. job[c].target \in Projects /\ rows'[job[c].target] # NoRows
      BY <2>2, SavedProject DEF TypeOK
    <3> QED BY <3>1 DEF EmptyIndex
  <2>3. CASE \A c \in Callers : ~SaveSolution(c) /\ ~SaveProject(c)
    BY <2>3, OtherRows DEF DropTables
  <2> QED BY <2>1, <2>2, <2>3
<1>2. Init => TypeOK /\ CheckedSnapshots
  BY InitType DEF Init, Idle, CheckedSnapshots
<1>3. TypeOK /\ CheckedSnapshots /\ [Next]_vars => (TypeOK /\ CheckedSnapshots)'
  BY NextType, NextChecked
<1> QED BY <1>1, <1>2, <1>3, PTL DEF Spec, RowsSurvive
=============================================================================
