-------------------------- MODULE IndexCallsProofs --------------------------
(***************************************************************************)
(* Proofs about IndexRefresh, for any plans, loads and use of the CLI, and *)
(* any number of calls that overlap: what becomes of the references        *)
(* between projects, what a stale mark says of the index, and who is left  *)
(* to remove it.  Each inductive invariant says what a call may go by as   *)
(* long as no other call has overtaken it.                                 *)
(***************************************************************************)
EXTENDS IndexRefreshProofs

-----------------------------------------------------------------------------
(* References between projects *)

\* The rows of a project have a text for each of its own files.
HasOwnTexts(r) ==
    \A f \in Files : r[Owner[f]] # NoRows => r[Owner[f]][f] \in Versions

\* A reference that was not left out leads to the rows of the other project.
LinksAgree(r) ==
    \A q \in Projects, f \in Files :
        r[q] # NoRows =>
          \/ r[q][f] = Dropped
          \/ r[Owner[f]] # NoRows /\ r[q][f] = r[Owner[f]][f]

\* Resolves, of any rows.
Linked(r, q, f) ==
    /\ r[q] # NoRows
    /\ r[Owner[f]] # NoRows
    /\ r[q][f] = r[Owner[f]][f]

\* No other project has a reference to p that resolves.
NoInbound(r, p) ==
    \A q \in Projects \ {p} : \A f \in Uses[q] : Owner[f] = p => ~Linked(r, q, f)

SnapshotsLink ==
    \A c \in Callers :
        job[c].at \in {"save", "write"} /\ job[c].mode # "project"
            => HasOwnTexts(job[c].snap) /\ LinksAgree(job[c].snap)

ProjectSnapshotsHaveTexts ==
    \A c \in Callers :
        job[c].at = "save" /\ job[c].mode = "project"
            => \A f \in Files : Owner[f] = job[c].target => job[c].snap[f] \in Versions

\* What the choice of a scoped refresh rested on holds until it is saved, or
\* until another call saves.
ScopedHasNoInbound ==
    \A c \in Callers \ overtaken :
        /\ job[c].at = "symbols" => \A p \in OnlyProject(job[c]) : NoInbound(rows, p)
        /\ job[c].at \in {"load", "save"} /\ job[c].mode = "project"
             => NoInbound(rows, job[c].target)

LinksInv ==
    /\ TypeOK
    /\ HasOwnTexts(rows)
    /\ SnapshotsLink
    /\ ProjectSnapshotsHaveTexts
    /\ ScopedHasNoInbound

LEMMA SolutionSnapshotLinks ==
    ASSUME TypeOK, NEW loaded \in SUBSET Projects
    PROVE  HasOwnTexts(SolutionSnapshot(loaded)) /\ LinksAgree(SolutionSnapshot(loaded))
<1> DEFINE text(p) == [f \in Files |-> IF Owner[f] \in loaded THEN source[f] ELSE Dropped]
<1>1. \A p \in Projects : text(p) \in Rows
  BY DEF Rows, TypeOK
<1>2. \A p \in Projects : SolutionSnapshot(loaded)[p] = IF p \in loaded THEN text(p) ELSE NoRows
  BY DEF SolutionSnapshot
<1>3. \A p \in Projects : SolutionSnapshot(loaded)[p] # NoRows => p \in loaded
  BY <1>2
<1>4. \A p \in loaded : SolutionSnapshot(loaded)[p] # NoRows
  BY <1>1, <1>2, IndexAssumption
<1>5. HasOwnTexts(SolutionSnapshot(loaded))
  <2>1. ASSUME NEW f \in Files, Owner[f] \in loaded
        PROVE  SolutionSnapshot(loaded)[Owner[f]][f] = source[f]
    BY <2>1 DEF SolutionSnapshot
  <2>2. \A f \in Files : source[f] \in Versions /\ Owner[f] \in Projects
    BY IndexAssumption DEF TypeOK
  <2> QED BY <1>3, <2>1, <2>2 DEF HasOwnTexts
<1>6. LinksAgree(SolutionSnapshot(loaded))
  BY <1>2, <1>3, <1>4, IndexAssumption DEF LinksAgree
<1> QED BY <1>5, <1>6

LEMMA ProjectSnapshotTexts ==
    ASSUME TypeOK, NEW p, NEW known, NEW f \in Files, Owner[f] = p
    PROVE  ProjectSnapshot(p, known)[f] = source[f]
BY DEF ProjectSnapshot

LEMMA LoadedOwnTexts ==
    ASSUME TypeOK, NEW c \in Callers, Load(c)
    PROVE  /\ job[c].mode # "project" => HasOwnTexts(job'[c].snap) /\ LinksAgree(job'[c].snap)
           /\ job[c].mode = "project" =>
                \A f \in Files : Owner[f] = job[c].target => job'[c].snap[f] \in Versions
<1>1. CASE job[c].mode # "project"
  <2>1. PICK loaded \in Loads : job'[c].snap = SolutionSnapshot(loaded)
    BY <1>1, LoadedJob
  <2>2. loaded \in SUBSET Projects
    BY IndexAssumption
  <2> QED BY <1>1, <2>1, <2>2, SolutionSnapshotLinks
<1>2. CASE job[c].mode = "project"
  <2>1. job'[c].snap = ProjectSnapshot(job[c].target, job[c].known)
    BY <1>2, LoadedJob
  <2>2. ASSUME NEW f \in Files, Owner[f] = job[c].target
        PROVE  job'[c].snap[f] = source[f]
    BY <2>1, <2>2, ProjectSnapshotTexts
  <2> QED BY <1>2, <2>2 DEF TypeOK
<1> QED BY <1>1, <1>2

LEMMA EmptyHasOwnTexts == HasOwnTexts(EmptyIndex)
BY IndexAssumption DEF HasOwnTexts, EmptyIndex

\* Apart from the saves, rows stay or go; a scoped save has texts for its own.
LEMMA NextOwnTexts ==
    ASSUME LinksInv, [Next]_vars
    PROVE  HasOwnTexts(rows')
<1> USE DEF LinksInv
<1>1. ASSUME NEW c \in Callers, SaveSolution(c) PROVE HasOwnTexts(rows')
  BY <1>1, SaveJobType DEF SaveSolution, SnapshotsLink, TypeOK
<1>2. ASSUME NEW c \in Callers, SaveProject(c) PROVE HasOwnTexts(rows')
  <2>1. /\ job[c].target \in Projects
        /\ rows' = [rows EXCEPT ![job[c].target] = job[c].snap]
        /\ \A f \in Files : Owner[f] = job[c].target => job[c].snap[f] \in Versions
    BY <1>2, SavedProject DEF SaveProject, ProjectSnapshotsHaveTexts
  <2>2. \A f \in Files : Owner[f] \in Projects
    BY IndexAssumption
  <2> QED BY <2>1, <2>2 DEF HasOwnTexts, TypeOK
<1>3. CASE \A c \in Callers : ~SaveSolution(c) /\ ~SaveProject(c)
  BY <1>3, OtherRows, EmptyHasOwnTexts
<1> QED BY <1>1, <1>2, <1>3

LEMMA NextSnapshotsLink ==
    ASSUME TypeOK, SnapshotsLink, [Next]_vars
    PROVE  SnapshotsLink'
<1> SUFFICES ASSUME NEW c \in Callers, job'[c].at \in {"save", "write"}, job'[c].mode # "project"
             PROVE  HasOwnTexts(job'[c].snap) /\ LinksAgree(job'[c].snap)
  BY DEF SnapshotsLink, HasOwnTexts, LinksAgree
<1>1. CASE job'[c] = job[c]
  BY <1>1 DEF SnapshotsLink
<1>2. CASE Load(c)
  BY <1>2, LoadedJob, LoadedOwnTexts
<1>3. CASE CheckProjects(c)
  BY <1>3, CheckProjectsJob DEF CheckProjects, SnapshotsLink
<1> QED BY <1>1, <1>2, <1>3, JobFollows

LEMMA NextProjectTexts ==
    ASSUME TypeOK, ProjectSnapshotsHaveTexts, [Next]_vars
    PROVE  ProjectSnapshotsHaveTexts'
<1> SUFFICES ASSUME NEW c \in Callers, job'[c].at = "save", job'[c].mode = "project",
                    NEW f \in Files, Owner[f] = job'[c].target
             PROVE  job'[c].snap[f] \in Versions
  BY DEF ProjectSnapshotsHaveTexts
<1>1. CASE job'[c] = job[c]
  BY <1>1 DEF ProjectSnapshotsHaveTexts
<1>2. CASE job'[c] # job[c]
  BY <1>2, JobFollows, LoadedJob, LoadedOwnTexts
<1> QED BY <1>1, <1>2

\* Dropped tables have no reference to p either.
LEMMA NoInboundStays ==
    ASSUME NEW p, NoInbound(rows, p), rows' \in {rows, EmptyIndex}
    PROVE  NoInbound(rows', p)
BY DEF NoInbound, Linked, EmptyIndex

LEMMA NoDependents ==
    ASSUME NEW p \in Projects, InboundDependents(p) = {}
    PROVE  NoInbound(rows, p)
BY DEF NoInbound, Linked, InboundDependents

\* What ReadInbound goes on with.
LEMMA ReadInboundJob ==
    ASSUME TypeOK, NEW c \in Callers, ReadInbound(c), job'[c].at = "symbols"
    PROVE  \A p \in OnlyProject(job'[c]) : NoInbound(rows, p)
<1> SUFFICES ASSUME NEW p \in OnlyProject(job'[c]) PROVE NoInbound(rows, p)
  OBVIOUS
<1>1. /\ job'[c].f = job[c].f /\ job'[c].s = job[c].s /\ job'[c].plan = job[c].plan
  BY ChoosingJob
<1>2. OnlyProject(job'[c]) = OnlyProject(job[c])
  BY <1>1 DEF OnlyProject, ProjectRefreshPaths, FileRefreshPaths
<1>3. ScopedTargets(job[c]) # {}
  BY AfterGoes DEF ReadInbound, RefreshSolution, Refresh
<1>4. p \in Projects /\ OnlyProject(job[c]) = {p}
  BY <1>2, OnlyProjectType
<1>5. InboundDependents(p) = {}
  BY <1>3, <1>4 DEF ScopedTargets
<1> QED BY <1>4, <1>5, NoDependents

\* A refresh of one project, and where it came from.
LEMMA ListSymbolsJob ==
    ASSUME TypeOK, NEW c \in Callers, ListSymbols(c)
    PROVE  /\ job'[c].at = "load" /\ job'[c].mode = "project"
           /\ job'[c].target \in OnlyProject(job[c])
           /\ job'[c].own = job[c].plan \cup {job[c].f}
BY DEF ListSymbols, Goes, TypeOK

LEMMA NextNoInbound ==
    ASSUME TypeOK, ScopedHasNoInbound, [Next]_vars
    PROVE  ScopedHasNoInbound'
<1> SUFFICES ASSUME NEW c \in Callers, c \notin overtaken'
             PROVE  /\ job'[c].at = "symbols" =>
                         \A p \in OnlyProject(job'[c]) : NoInbound(rows', p)
                    /\ job'[c].at \in {"load", "save"} /\ job'[c].mode = "project"
                         => NoInbound(rows', job'[c].target)
  BY DEF ScopedHasNoInbound, NoInbound, Linked, OnlyProject, ProjectRefreshPaths, FileRefreshPaths
<1>1. CASE job'[c] = job[c]
  <2>1. c \notin overtaken /\ (rows' \in {rows, EmptyIndex} \/ ~GoesByRows(c))
    BY <1>1, Meanwhile
  <2>2. CASE GoesByRows(c)
    BY <1>1, <2>1, <2>2, NoInboundStays DEF ScopedHasNoInbound
  <2>3. CASE ~GoesByRows(c)
    BY <1>1, <2>3 DEF GoesByRows
  <2> QED BY <2>2, <2>3
<1>2. CASE job'[c] # job[c] /\ job'[c].at = "symbols"
  <2>1. ReadInbound(c)
    BY <1>2, JobFollows
  <2>2. rows' = rows
    BY <2>1 DEF ReadInbound, index
  <2> QED BY <1>2, <2>1, <2>2, ReadInboundJob
<1>3. CASE job'[c] # job[c] /\ job'[c].at = "load" /\ job'[c].mode = "project"
  <2>1. ListSymbols(c)
    BY <1>3, JobFollows
  <2>2. rows' = rows /\ overtaken' = overtaken /\ job[c].at = "symbols"
    BY <2>1 DEF ListSymbols, index, history
  <2> QED BY <1>3, <2>1, <2>2, ListSymbolsJob DEF ScopedHasNoInbound
<1>4. CASE job'[c] # job[c] /\ job'[c].at = "save" /\ job'[c].mode = "project"
  <2>1. Load(c)
    BY <1>4, JobFollows
  <2>2. rows' = rows /\ overtaken' = overtaken /\ job[c].at = "load"
    BY <2>1 DEF Load, Loaded, index
  <2> QED BY <1>4, <2>1, <2>2, LoadedJob DEF ScopedHasNoInbound
<1> QED BY <1>1, <1>2, <1>3, <1>4

LEMMA NextLinks ==
    ASSUME LinksInv, [Next]_vars
    PROVE  LinksInv'
<1>1. HasOwnTexts(rows)'
  BY NextOwnTexts DEF HasOwnTexts
<1> QED BY <1>1, NextType, NextSnapshotsLink, NextProjectTexts, NextNoInbound DEF LinksInv

LEMMA InitLinks == Init => LinksInv
<1> SUFFICES ASSUME Init PROVE LinksInv
  OBVIOUS
<1>1. TypeOK
  BY InitType
<1>2. HasOwnTexts(rows)
  <2>1. ASSUME NEW loaded \in Loads, rows = SolutionSnapshot(loaded) PROVE HasOwnTexts(rows)
    BY <1>1, <2>1, IndexAssumption, SolutionSnapshotLinks
  <2> QED BY <2>1, EmptyHasOwnTexts DEF Init
<1>3. \A c \in Callers : job[c].at = "idle"
  BY DEF Init, Idle
<1> QED BY <1>1, <1>2, <1>3 DEF LinksInv, SnapshotsLink, ProjectSnapshotsHaveTexts,
     ScopedHasNoInbound

LEMMA LinksKept ==
    ASSUME LinksInv, [Next]_vars,
           NEW q \in Projects, NEW f \in Uses[q], Linked(rows, q, f), rows'[q] = rows[q]
    PROVE  Linked(rows', q, f) \/ \E c \in overtaken : job'[c] # job[c]
<1> USE DEF LinksInv
<1> DEFINE p == Owner[f]
<1>1. f \in Files /\ p \in Projects
  BY IndexAssumption
<1>2. rows[q][f] # Dropped
  BY <1>1, IndexAssumption DEF HasOwnTexts, Linked, Versions
<1>3. ASSUME NEW c \in Callers, SaveSolution(c) PROVE Linked(rows', q, f)
  <2>1. rows' = job[c].snap /\ LinksAgree(job[c].snap)
    BY <1>3, SaveJobType DEF SaveSolution, SnapshotsLink, TypeOK
  <2>2. rows'[q] # NoRows
    BY DEF Linked
  <2> QED BY <1>1, <1>2, <2>1, <2>2 DEF LinksAgree, Linked
<1>4. ASSUME NEW c \in Callers, SaveProject(c), c \notin overtaken PROVE Linked(rows', q, f)
  <2> DEFINE t == job[c].target
  <2>1. /\ t \in Projects
        /\ rows' = [rows EXCEPT ![t] = job[c].snap]
        /\ job[c].snap # NoRows
        /\ NoInbound(rows, t)
    BY <1>4, SavedProject DEF SaveProject, ScopedHasNoInbound
  <2>2. CASE p = t
    <3>1. q = t
      BY <2>1, <2>2 DEF NoInbound
    <3> QED BY <2>1, <2>2, <3>1 DEF Linked, TypeOK
  <2>3. CASE p # t
    BY <1>1, <2>1, <2>3 DEF Linked, TypeOK
  <2> QED BY <2>2, <2>3
<1>5. ASSUME NEW c \in Callers, SaveProject(c) PROVE job'[c] # job[c]
  BY <1>5, StepMoves DEF Refreshing
<1>6. CASE \A c \in Callers : ~SaveSolution(c) /\ ~SaveProject(c)
  <2>1. rows' \in {rows, EmptyIndex}
    BY <1>6, OtherRows
  <2>2. rows' # EmptyIndex
    BY DEF Linked, EmptyIndex
  <2> QED BY <2>1, <2>2
<1> QED BY <1>3, <1>4, <1>5, <1>6

\* No save breaks a reference that resolves, unless it extracts the project
\* with the reference anew: a refresh of one project is chosen only when no
\* other has a reference to it, and that holds until another call saves.
THEOREM LinksAreKept == Spec => InboundLinksKept
<1> DEFINE A == \A q \in Projects : \A f \in Uses[q] :
                  Resolves(q, f) /\ rows'[q] = rows[q]
                    => Resolves(q, f)' \/ \E c \in overtaken : job'[c] # job[c]
<1>1. LinksInv /\ [Next]_vars => A
  BY LinksKept DEF Linked, Resolves
<1>2. Init => LinksInv
  BY InitLinks
<1>3. LinksInv /\ [Next]_vars => LinksInv'
  BY NextLinks
<1> QED BY <1>1, <1>2, <1>3, PTL DEF Spec, InboundLinksKept

-----------------------------------------------------------------------------
(* What a decision knows of its plan *)

CandidatesArePlanned ==
    \A f \in Files :
        candidate[f] # NoCandidate /\ candidate[f].session \in Sessions
            => f \in Planned[candidate[f].session]

\* A plan is of one session, and has the file if that is accepted.
DecidesByPlan ==
    \A c \in Callers :
        job[c].at = "decide" /\ job[c].plan # {} =>
          /\ job[c].s \in Sessions
          /\ job[c].plan \subseteq Planned[job[c].s]
          /\ job[c].word = "accepted" => job[c].f \in job[c].plan

\* The file decided last is one of the plan, or was rejected.
RefreshesPlan ==
    \A c \in Callers :
        job[c].at \in {"choose", "inbound", "symbols"} /\ job[c].plan # {} =>
          /\ job[c].s \in Sessions
          /\ job[c].plan \subseteq Planned[job[c].s]
          /\ job[c].f \in job[c].plan \/ ~stale[job[c].f] \/ job[c].f \in unread[c]

PlanInv ==
    /\ TypeOK
    /\ CandidatesArePlanned
    /\ DecidesByPlan
    /\ RefreshesPlan

\* What the record of a decision changes.
LEMMA RecordedSets ==
    ASSUME TypeOK, NEW c \in Callers, RecordDecision(c)
    PROVE  LET d == job[c]
           IN  /\ d.f \in Files /\ d.s \in Sessions \cup {Cli} /\ d.plan \in SUBSET Files
               /\ d.s \in Sessions => decidedIn'[d.s] = decidedIn[d.s] \cup {d.f}
               /\ d.s \in Sessions =>
                    acceptedIn'[d.s] = acceptedIn[d.s] \cup IF d.word = "accepted" THEN {d.f} ELSE {}
               /\ \A s \in Sessions \ {d.s} :
                    decidedIn'[s] = decidedIn[s] /\ acceptedIn'[s] = acceptedIn[s]
               /\ stale'[d.f] = (d.word = "accepted")
               /\ \A f \in Files \ {d.f} : stale'[f] = stale[f]
               /\ \A f \in Files \ {d.f} : accepted'[f] = accepted[f]
               /\ accepted'[d.f] = IF d.word = "accepted" THEN source[d.f] ELSE accepted[d.f]
BY DecideJobType DEF RecordDecision, TypeOK

\* Only the record of a decision changes what is decided.
LEMMA OtherDecisions ==
    ASSUME [Next]_vars, \A c \in Callers : ~RecordDecision(c)
    PROVE  UNCHANGED <<decidedIn, acceptedIn, accepted>>
<1>1. ASSUME NEW c \in Callers, Decision(c) PROVE UNCHANGED <<decidedIn, acceptedIn, accepted>>
  BY <1>1 DEF Decision, BeginDecision, RefuseDecision, decisions
<1>2. ASSUME NEW c \in Callers, Refreshing(c) PROVE UNCHANGED <<decidedIn, acceptedIn, accepted>>
  BY <1>2 DEF Refreshing, ChooseMode, ReadInbound, ListSymbols, BeginRebuild, Load, Loaded,
     CheckProjects, SaveSolution, SaveProject, MarkFresh, Marked, ProjectRefreshFails, Fail, decisions
<1> QED BY <1>1, <1>2 DEF Next, OperatorSaves, Stage, ReadVersion, DropTables, StampVersion,
     vars, decisions

LEMMA NextCandidates ==
    ASSUME TypeOK, CandidatesArePlanned, [Next]_vars
    PROVE  CandidatesArePlanned'
<1>1. ASSUME NEW f \in Files, NEW s \in Sessions \cup {Cli}, Stage(f, s)
      PROVE  CandidatesArePlanned'
  BY <1>1 DEF Stage, CandidatesArePlanned, TypeOK
<1>2. ASSUME NEW c \in Callers, RecordDecision(c) PROVE CandidatesArePlanned'
  BY <1>2, RecordedSets DEF RecordDecision, CandidatesArePlanned, TypeOK
<1>3. CASE UNCHANGED candidate
  BY <1>3 DEF CandidatesArePlanned
<1>4. ASSUME NEW c \in Callers, Decision(c), ~RecordDecision(c) PROVE UNCHANGED candidate
  BY <1>4 DEF Decision, BeginDecision, RefuseDecision, decisions
<1>5. ASSUME NEW c \in Callers, Refreshing(c) PROVE UNCHANGED candidate
  BY <1>5 DEF Refreshing, ChooseMode, ReadInbound, ListSymbols, BeginRebuild, Load, Loaded,
     CheckProjects, SaveSolution, SaveProject, MarkFresh, Marked, ProjectRefreshFails, Fail, decisions
<1> QED BY <1>1, <1>2, <1>3, <1>4, <1>5 DEF Next, OperatorSaves, ReadVersion, DropTables,
     StampVersion, vars, decisions

LEMMA NextDecidesByPlan ==
    ASSUME TypeOK, CandidatesArePlanned, DecidesByPlan, [Next]_vars
    PROVE  DecidesByPlan'
<1> SUFFICES ASSUME NEW c \in Callers, job'[c].at = "decide", job'[c].plan # {}
             PROVE  /\ job'[c].s \in Sessions
                    /\ job'[c].plan \subseteq Planned[job'[c].s]
                    /\ job'[c].word = "accepted" => job'[c].f \in job'[c].plan
  BY DEF DecidesByPlan
<1>1. CASE job'[c] = job[c]
  BY <1>1 DEF DecidesByPlan
<1>2. CASE job'[c] # job[c]
  <2>1. PICK f \in Files, word \in {"accepted", "rejected"} : BeginDecision(c, f, word)
    BY <1>2, JobFollows
  <2>2. PICK defer \in BOOLEAN, plan \in SUBSET Files :
          /\ job'[c] = [at |-> "decide", f |-> f, word |-> word, s |-> candidate[f].session,
                        defer |-> defer, plan |-> plan]
          /\ \/ plan = {}
             \/ /\ candidate[f].session \in Sessions
                /\ plan = AcceptedPlanned(candidate[f].session, f, word)
    BY <2>1, BeganJob
  <2>3. candidate[f].session \in Sessions => f \in Planned[candidate[f].session]
    BY <2>1 DEF BeginDecision, CandidatesArePlanned
  <2> QED BY <2>2, <2>3 DEF AcceptedPlanned
<1> QED BY <1>1, <1>2

LEMMA NextRefreshesPlan ==
    ASSUME PlanInv, [Next]_vars
    PROVE  RefreshesPlan'
<1> USE DEF PlanInv
<1> SUFFICES ASSUME NEW c \in Callers, job'[c].at \in {"choose", "inbound", "symbols"},
                    job'[c].plan # {}
             PROVE  /\ job'[c].s \in Sessions
                    /\ job'[c].plan \subseteq Planned[job'[c].s]
                    /\ job'[c].f \in job'[c].plan \/ ~stale'[job'[c].f] \/ job'[c].f \in unread'[c]
  BY DEF RefreshesPlan
<1>1. CASE job'[c] = job[c]
  <2>1. job[c].f \in Files
    BY <1>1, ChooseJobType DEF TypeOK
  <2> QED BY <1>1, <2>1, Meanwhile DEF RefreshesPlan
<1>2. CASE RecordDecision(c)
  <2>1. /\ job[c].at = "decide"
        /\ job'[c].f = job[c].f /\ job'[c].s = job[c].s /\ job'[c].plan = job[c].plan
    BY <1>2, RecordedJob DEF Idle
  <2>2. stale'[job[c].f] => job[c].word = "accepted"
    BY <1>2, RecordedSets
  <2> QED BY <2>1, <2>2 DEF DecidesByPlan
<1>3. CASE ChooseMode(c) \/ ReadInbound(c)
  <2>1. /\ job'[c].f = job[c].f /\ job'[c].s = job[c].s /\ job'[c].plan = job[c].plan
        /\ job[c].at \in {"choose", "inbound"}
    BY <1>3, ChoosingJob DEF ChooseMode, ReadInbound
  <2>2. stale' = stale /\ unread' = unread
    BY <1>3 DEF ChooseMode, ReadInbound, history
  <2> QED BY <2>1, <2>2 DEF RefreshesPlan
<1> QED BY <1>1, <1>2, <1>3, JobFollows

LEMMA NextPlan ==
    ASSUME PlanInv, [Next]_vars
    PROVE  PlanInv'
BY NextType, NextCandidates, NextDecidesByPlan, NextRefreshesPlan DEF PlanInv

LEMMA InitPlan == Init => PlanInv
BY InitType DEF PlanInv, Init, Idle, CandidatesArePlanned, DecidesByPlan, RefreshesPlan

-----------------------------------------------------------------------------
(* Stale marks *)

\* What was accepted is on disk, or something the operator saved after it.
SourceIsAhead == \A f \in Files : accepted[f] <= source[f]

\* A scoped refresh marks no files of other projects, but for one that was
\* rejected, and those of which the plan names another project.
MarksOwnProject ==
    \A c \in Callers :
        job[c].at \in {"load", "save", "mark"} /\ job[c].mode = "project"
            => \A f \in job[c].own :
                 Owner[f] = job[c].target \/ Misdeclared(f) \/ ~stale[f] \/ f \in unread[c]

ScopedMarksAreOwn ==
    \A c \in Callers :
        job[c].at = "mark" /\ job[c].mode = "project"
            => ~job[c].all /\ job[c].todo \subseteq job[c].own

\* What waits to be saved was extracted after the last accept, if it is known,
ProjectSnapshotsAreNew ==
    \A c \in Callers :
        job[c].at = "save" /\ job[c].mode = "project"
            => \A f \in Files :
                 Owner[f] = job[c].target => f \in unread[c] \/ job[c].snap[f] >= accepted[f]

\* for any project that was loaded,
NewIn(c, r, f) ==
    f \in unread[c] \/ r[Owner[f]] = NoRows \/ r[Owner[f]][f] >= accepted[f]

SolutionSnapshotsAreNew ==
    \A c \in Callers :
        job[c].at \in {"save", "write"} /\ job[c].mode # "project"
            => \A f \in Files : NewIn(c, job[c].snap, f)

\* and so are the rows while marks are removed, until another call saves.
MarksFollowSave ==
    \A c \in Callers \ overtaken :
        job[c].at = "mark"
            => \A f \in Files :
                 job[c].mode # "project" \/ Owner[f] = job[c].target => NewIn(c, rows, f)

FreshInv ==
    /\ PlanInv
    /\ SourceIsAhead
    /\ MarksOwnProject
    /\ ScopedMarksAreOwn
    /\ ProjectSnapshotsAreNew
    /\ SolutionSnapshotsAreNew
    /\ MarksFollowSave

LEMMA NextSourceIsAhead ==
    ASSUME TypeOK, SourceIsAhead, [Next]_vars
    PROVE  SourceIsAhead'
<1>1. ASSUME NEW f \in Files, OperatorSaves(f) PROVE SourceIsAhead'
  <2>1. candidate[f].version \in Versions /\ source[f] \in Versions /\ accepted[f] \in Versions
    BY IndexAssumption DEF TypeOK, Candidate, NoCandidate, Versions
  <2>2. accepted[f] <= candidate[f].version
    BY <1>1, <2>1 DEF SourceIsAhead, OperatorSaves, Versions
  <2> QED BY <1>1, <2>2 DEF SourceIsAhead, OperatorSaves, TypeOK
<1>2. ASSUME NEW c \in Callers, RecordDecision(c) PROVE SourceIsAhead'
  <2>1. UNCHANGED source
    BY <1>2 DEF RecordDecision
  <2>2. \A f \in Files : source[f] \in Nat
    BY IndexAssumption DEF TypeOK, Versions
  <2> QED BY <1>2, <2>1, <2>2, RecordedSets DEF SourceIsAhead
<1>3. ASSUME NEW c \in Callers, Decision(c), ~RecordDecision(c)
      PROVE  UNCHANGED <<source, accepted>>
  BY <1>3 DEF Decision, BeginDecision, RefuseDecision, decisions
<1>4. ASSUME NEW c \in Callers, Refreshing(c) PROVE UNCHANGED <<source, accepted>>
  BY <1>4 DEF Refreshing, ChooseMode, ReadInbound, ListSymbols, BeginRebuild, Load, Loaded,
     CheckProjects, SaveSolution, SaveProject, MarkFresh, Marked, ProjectRefreshFails, Fail, decisions
<1> QED BY <1>1, <1>2, <1>3, <1>4 DEF Next, Stage, ReadVersion, DropTables, StampVersion, vars,
     decisions, SourceIsAhead

\* The files of a plan that is refreshed by one project are of that project,
\* or the plan says so.
LEMMA ScopedPlan ==
    ASSUME PlanInv, NEW c \in Callers, job[c].at = "symbols", NEW p \in OnlyProject(job[c]),
           NEW f \in job[c].plan \cup {job[c].f}
    PROVE  Owner[f] = p \/ Misdeclared(f) \/ ~stale[f] \/ f \in unread[c]
<1>1. /\ ProjectRefreshPaths(job[c]) = {p}
      /\ ProjectRefreshPaths(job[c]) = {Declared[job[c].s][g] : g \in job[c].plan} \cap Projects
  BY OnlyProjectType DEF ProjectRefreshPaths
<1>2. job[c].plan # {}
  BY <1>1
<1>3. /\ job[c].s \in Sessions
      /\ job[c].plan \subseteq Planned[job[c].s]
      /\ job[c].f \in job[c].plan \/ ~stale[job[c].f] \/ job[c].f \in unread[c]
  BY <1>2 DEF PlanInv, RefreshesPlan
<1>4. CASE f \in job[c].plan
  <2>1. f \in Files /\ Owner[f] \in Projects
    BY <1>3, <1>4, IndexAssumption
  <2>2. CASE Declared[job[c].s][f] = Owner[f]
    BY <1>1, <1>4, <2>1, <2>2
  <2>3. CASE Declared[job[c].s][f] # Owner[f]
    BY <1>3, <1>4, <2>3 DEF Misdeclared
  <2> QED BY <2>2, <2>3
<1> QED BY <1>3, <1>4

LEMMA SavedJob ==
    ASSUME TypeOK, NEW c \in Callers, SaveSolution(c) \/ SaveProject(c)
    PROVE  /\ job'[c].at = "mark" /\ job'[c].mode = job[c].mode
           /\ job'[c].target = job[c].target /\ job'[c].own = job[c].own
           /\ SaveSolution(c) => job[c].mode # "project"
           /\ SaveProject(c) => ~job'[c].all /\ job'[c].todo = job[c].own
<1>1. SaveSolution(c) => job[c].mode # "project"
  BY SaveJobType DEF SaveSolution, TypeOK
<1> QED BY <1>1, AfterGoes DEF SaveSolution, SaveProject, Marks

LEMMA MarkedJob ==
    ASSUME TypeOK, NEW c \in Callers, Marked(c), job'[c].at = "mark"
    PROVE  /\ job[c].at = "mark" /\ job[c].all
           /\ job'[c].mode = job[c].mode /\ job'[c].target = job[c].target
BY DEF Marked, Returns, Goes, Marks, Idle, TypeOK

\* A scoped refresh is chosen, is loaded or is saved; all else is the solution.
LEMMA ScopedSteps ==
    ASSUME TypeOK, ScopedMarksAreOwn, [Next]_vars, NEW c \in Callers, job'[c] # job[c],
           job'[c].at \in {"load", "save", "mark"}, job'[c].mode = "project"
    PROVE  \/ ListSymbols(c)
           \/ /\ Load(c) \/ SaveProject(c) \/ \E f \in Files : MarkFresh(c, f)
              /\ job[c].at \in {"load", "save", "mark"} /\ job[c].mode = "project"
              /\ job'[c].target = job[c].target /\ job'[c].own = job[c].own
<1>1. ~SaveSolution(c)
  BY SavedJob
<1>2. CASE Load(c)
  BY <1>2, LoadedJob DEF Load
<1>3. CASE SaveProject(c)
  BY <1>3, SavedJob DEF SaveProject
<1>4. ASSUME NEW f \in Files, MarkFresh(c, f)
      PROVE  /\ job[c].at = "mark" /\ job[c].mode = "project"
             /\ job'[c].target = job[c].target /\ job'[c].own = job[c].own
  BY <1>4, MarkFreshJob DEF MarkFresh
<1>5. ~(Marked(c) /\ job'[c].at = "mark")
  BY MarkedJob DEF ScopedMarksAreOwn
<1> QED BY <1>1, <1>2, <1>3, <1>4, <1>5, JobFollows

LEMMA NextMarksOwnProject ==
    ASSUME FreshInv, [Next]_vars
    PROVE  MarksOwnProject'
<1> USE DEF FreshInv, PlanInv
<1> SUFFICES ASSUME NEW c \in Callers, job'[c].at \in {"load", "save", "mark"},
                    job'[c].mode = "project", NEW f \in job'[c].own, Owner[f] # job'[c].target
             PROVE  Misdeclared(f) \/ ~stale'[f] \/ f \in unread'[c]
  BY DEF MarksOwnProject, Misdeclared
<1>1. CASE job'[c] = job[c]
  <2>1. f \in Files
    BY <1>1, RefreshJobType DEF TypeOK
  <2> QED BY <1>1, <2>1, Meanwhile DEF MarksOwnProject
<1>2. CASE job'[c] # job[c] /\ ListSymbols(c)
  <2>1. /\ job[c].at = "symbols"
        /\ job'[c].target \in OnlyProject(job[c])
        /\ f \in job[c].plan \cup {job[c].f}
        /\ UNCHANGED <<stale, unread>>
    BY <1>2, ListSymbolsJob DEF ListSymbols, history
  <2> QED BY <2>1, ScopedPlan
<1>3. CASE /\ Load(c) \/ SaveProject(c) \/ \E g \in Files : MarkFresh(c, g)
           /\ job[c].at \in {"load", "save", "mark"} /\ job[c].mode = "project"
           /\ job'[c].target = job[c].target /\ job'[c].own = job[c].own
  <2>1. /\ Misdeclared(f) \/ ~stale[f] \/ f \in unread[c]
        /\ f \in Files
    BY <1>3, RefreshJobType DEF MarksOwnProject, TypeOK
  <2>2. stale'[f] => stale[f]
    BY <1>3, <2>1 DEF Load, Loaded, SaveProject, MarkFresh, TypeOK
  <2>3. f \in unread[c] => f \in unread'[c]
    BY <1>3 DEF Load, Loaded, SaveProject, MarkFresh, TypeOK
  <2> QED BY <2>1, <2>2, <2>3
<1> QED BY <1>1, <1>2, <1>3, ScopedSteps

LEMMA NextScopedMarksAreOwn ==
    ASSUME TypeOK, ScopedMarksAreOwn, [Next]_vars
    PROVE  ScopedMarksAreOwn'
<1> SUFFICES ASSUME NEW c \in Callers, job'[c].at = "mark", job'[c].mode = "project"
             PROVE  ~job'[c].all /\ job'[c].todo \subseteq job'[c].own
  BY DEF ScopedMarksAreOwn
<1>1. CASE job'[c] = job[c]
  BY <1>1 DEF ScopedMarksAreOwn
<1>2. CASE job'[c] # job[c] /\ SaveProject(c)
  BY <1>2, SavedJob
<1>3. ASSUME NEW f \in Files, MarkFresh(c, f), job[c].mode = "project"
      PROVE  ~job'[c].all /\ job'[c].todo \subseteq job'[c].own
  <2>1. /\ job'[c].all = job[c].all /\ job'[c].own = job[c].own
        /\ job'[c].todo = job[c].todo \ {f}
    BY <1>3, MarkFreshJob
  <2> QED BY <1>3, <2>1 DEF ScopedMarksAreOwn, MarkFresh
<1>4. ~ListSymbols(c) /\ ~Load(c)
  BY AfterGoes, ListSymbolsJob DEF Load, Loaded, Goes, TypeOK
<1> QED BY <1>1, <1>2, <1>3, <1>4, ScopedSteps

LEMMA TextsAreNumbers ==
    ASSUME TypeOK, SourceIsAhead, NEW f \in Files
    PROVE  source[f] \in Nat /\ accepted[f] \in Nat /\ source[f] >= accepted[f]
BY IndexAssumption DEF TypeOK, Versions, SourceIsAhead

LEMMA NextProjectSnapshots ==
    ASSUME FreshInv, [Next]_vars
    PROVE  ProjectSnapshotsAreNew'
<1> USE DEF FreshInv, PlanInv
<1> SUFFICES ASSUME NEW c \in Callers, job'[c].at = "save", job'[c].mode = "project",
                    NEW f \in Files, Owner[f] = job'[c].target
             PROVE  f \in unread'[c] \/ job'[c].snap[f] >= accepted'[f]
  BY DEF ProjectSnapshotsAreNew
<1>1. CASE job'[c] = job[c]
  <2>1. f \in unread'[c] \/ accepted'[f] = accepted[f]
    BY <1>1, Meanwhile
  <2>2. unread[c] \subseteq unread'[c]
    BY <1>1, Meanwhile
  <2> QED BY <1>1, <2>1, <2>2 DEF ProjectSnapshotsAreNew
<1>2. CASE job'[c] # job[c]
  <2>1. Load(c) /\ accepted' = accepted
    BY <1>2, JobFollows DEF Load, Loaded, decisions
  <2>2. job'[c].snap = ProjectSnapshot(job[c].target, job[c].known)
    BY <2>1, LoadedJob
  <2>3. job'[c].snap[f] = source[f]
    BY <2>1, <2>2, LoadedJob, ProjectSnapshotTexts
  <2> QED BY <2>1, <2>3, TextsAreNumbers
<1> QED BY <1>1, <1>2

\* A project that was opened has all its texts.
LEMMA SolutionSnapshotIsNew ==
    ASSUME TypeOK, SourceIsAhead, NEW loaded \in SUBSET Projects, NEW f \in Files,
           SolutionSnapshot(loaded)[Owner[f]] # NoRows
    PROVE  SolutionSnapshot(loaded)[Owner[f]][f] >= accepted[f]
<1>1. Owner[f] \in Projects /\ Owner[f] \in loaded
  BY IndexAssumption, SolutionSnapshotRows
<1>2. SolutionSnapshot(loaded)[Owner[f]][f] = source[f]
  BY <1>1 DEF SolutionSnapshot
<1> QED BY <1>2, TextsAreNumbers

LEMMA NextSolutionSnapshots ==
    ASSUME FreshInv, [Next]_vars
    PROVE  SolutionSnapshotsAreNew'
<1> USE DEF FreshInv, PlanInv
<1> SUFFICES ASSUME NEW c \in Callers, job'[c].at \in {"save", "write"},
                    job'[c].mode # "project", NEW f \in Files
             PROVE  \/ f \in unread'[c] \/ job'[c].snap[Owner[f]] = NoRows
                    \/ job'[c].snap[Owner[f]][f] >= accepted'[f]
  BY DEF SolutionSnapshotsAreNew, NewIn
<1>1. CASE job'[c] = job[c]
  <2>1. unread[c] \subseteq unread'[c] /\ (f \in unread'[c] \/ accepted'[f] = accepted[f])
    BY <1>1, Meanwhile
  <2> QED BY <1>1, <2>1 DEF SolutionSnapshotsAreNew, NewIn
<1>2. CASE Load(c)
  <2>1. PICK loaded \in Loads : job'[c].snap = SolutionSnapshot(loaded)
    BY <1>2, LoadedJob
  <2>2. loaded \in SUBSET Projects /\ accepted' = accepted
    BY <1>2, IndexAssumption DEF Load, Loaded, decisions
  <2> QED BY <2>1, <2>2, SolutionSnapshotIsNew
<1>3. CASE CheckProjects(c)
  <2>1. job'[c].snap = job[c].snap /\ job[c].at = "save" /\ job[c].mode # "project"
    BY <1>3, CheckProjectsJob DEF CheckProjects
  <2>2. accepted' = accepted /\ unread' = unread
    BY <1>3 DEF CheckProjects, decisions, history
  <2> QED BY <2>1, <2>2 DEF SolutionSnapshotsAreNew, NewIn
<1> QED BY <1>1, <1>2, <1>3, JobFollows

LEMMA NextMarksFollowSave ==
    ASSUME FreshInv, [Next]_vars
    PROVE  MarksFollowSave'
<1> USE DEF FreshInv, PlanInv
<1> SUFFICES ASSUME NEW c \in Callers, c \notin overtaken', job'[c].at = "mark",
                    NEW f \in Files, job'[c].mode # "project" \/ Owner[f] = job'[c].target
             PROVE  \/ f \in unread'[c] \/ rows'[Owner[f]] = NoRows
                    \/ rows'[Owner[f]][f] >= accepted'[f]
  BY DEF MarksFollowSave, NewIn
<1>0. Owner[f] \in Projects
  BY IndexAssumption
<1>1. CASE job'[c] = job[c]
  <2>1. /\ unread[c] \subseteq unread'[c]
        /\ f \in unread'[c] \/ accepted'[f] = accepted[f]
        /\ c \notin overtaken
        /\ rows' \in {rows, EmptyIndex}
    BY <1>1, Meanwhile DEF GoesByRows
  <2>2. CASE rows' = EmptyIndex
    BY <1>0, <2>2 DEF EmptyIndex
  <2>3. CASE rows' = rows
    <3>1. NewIn(c, rows, f)
      BY <1>1, <2>1 DEF MarksFollowSave
    <3> QED BY <2>1, <2>3, <3>1 DEF NewIn
  <2> QED BY <2>1, <2>2, <2>3
<1>2. CASE job'[c] # job[c] /\ SaveSolution(c)
  <2>1. rows' = job[c].snap /\ accepted' = accepted /\ unread' = unread
    BY <1>2 DEF SaveSolution, decisions
  <2>2. NewIn(c, job[c].snap, f)
    BY <1>2, SavedJob DEF SaveSolution, SolutionSnapshotsAreNew
  <2> QED BY <2>1, <2>2 DEF NewIn
<1>3. CASE job'[c] # job[c] /\ SaveProject(c)
  <2>1. /\ job[c].at = "save" /\ job[c].mode = "project"
        /\ job'[c].mode = job[c].mode /\ job'[c].target = job[c].target
        /\ accepted' = accepted /\ unread' = unread
    BY <1>3, SavedJob DEF SaveProject, decisions
  <2>2. rows'[Owner[f]] = job[c].snap
    BY <1>0, <1>3, <2>1, SavedProject DEF TypeOK
  <2>3. f \in unread[c] \/ job[c].snap[f] >= accepted[f]
    BY <2>1 DEF ProjectSnapshotsAreNew
  <2> QED BY <2>1, <2>2, <2>3
<1>4. CASE job'[c] # job[c] /\ (Marked(c) \/ \E g \in Files : MarkFresh(c, g))
  <2>1. /\ job[c].at = "mark"
        /\ job'[c].mode = job[c].mode /\ job'[c].target = job[c].target
    BY <1>4, MarkedJob, MarkFreshJob DEF MarkFresh
  <2>2. rows' = rows /\ accepted' = accepted /\ overtaken' = overtaken /\ unread' = unread
    <3>1. CASE Marked(c)
      <4>1. job[c].all
        BY <3>1, MarkedJob
      <4> QED BY <3>1, <4>1 DEF Marked, index, decisions
    <3>2. ASSUME NEW g \in Files, MarkFresh(c, g)
          PROVE  rows' = rows /\ accepted' = accepted /\ overtaken' = overtaken /\ unread' = unread
      BY <3>2 DEF MarkFresh, index, decisions
    <3> QED BY <1>4, <3>1, <3>2
  <2>3. NewIn(c, rows, f)
    BY <2>1, <2>2 DEF MarksFollowSave
  <2> QED BY <2>2, <2>3 DEF NewIn
<1> QED BY <1>1, <1>2, <1>3, <1>4, JobFollows

LEMMA NextFresh ==
    ASSUME FreshInv, [Next]_vars
    PROVE  FreshInv'
<1>1. PlanInv' /\ SourceIsAhead'
  BY NextPlan, NextSourceIsAhead DEF FreshInv, PlanInv
<1>2. MarksOwnProject' /\ ScopedMarksAreOwn'
  BY NextMarksOwnProject, NextScopedMarksAreOwn DEF FreshInv, PlanInv
<1>3. ProjectSnapshotsAreNew' /\ SolutionSnapshotsAreNew' /\ MarksFollowSave'
  BY NextProjectSnapshots, NextSolutionSnapshots, NextMarksFollowSave
<1> QED BY <1>1, <1>2, <1>3 DEF FreshInv

LEMMA InitFresh == Init => FreshInv
<1> SUFFICES ASSUME Init PROVE FreshInv
  OBVIOUS
<1>1. TypeOK /\ PlanInv
  BY InitType, InitPlan
<1>2. SourceIsAhead
  BY <1>1, IndexAssumption DEF Init, SourceIsAhead, TypeOK, Versions
<1>3. \A c \in Callers : job[c].at = "idle"
  BY DEF Init, Idle
<1> QED BY <1>1, <1>2, <1>3 DEF FreshInv, MarksOwnProject, ScopedMarksAreOwn,
     ProjectSnapshotsAreNew, SolutionSnapshotsAreNew, MarksFollowSave

\* A mark goes with the record of a decision or with MarkFresh.
LEMMA UnmarkSteps ==
    ASSUME TypeOK, [Next]_vars, NEW f \in Files, stale[f], ~stale'[f]
    PROVE  \/ \E c \in Callers : MarkFresh(c, f)
           \/ \E c \in Callers : RecordDecision(c) /\ job[c].f = f
<1>1. ASSUME NEW c \in Callers, Decision(c) PROVE RecordDecision(c) /\ job[c].f = f
  <2>1. RecordDecision(c)
    BY <1>1 DEF Decision, BeginDecision, RefuseDecision
  <2> QED BY <2>1, RecordedSets
<1>2. ASSUME NEW c \in Callers, Refreshing(c) PROVE MarkFresh(c, f)
  <2>1. \E g \in Files : MarkFresh(c, g)
    BY <1>2 DEF Refreshing, ChooseMode, ReadInbound, ListSymbols, BeginRebuild, Load, Loaded,
       CheckProjects, SaveSolution, SaveProject, Marked, ProjectRefreshFails, Fail
  <2> QED BY <2>1 DEF MarkFresh, TypeOK
<1> QED BY <1>1, <1>2 DEF Next, OperatorSaves, Stage, ReadVersion, DropTables, StampVersion, vars

\* A refresh takes the mark from a file only when the index has its accepted
\* text, or no rows of its project; the plan may be wrong, and other calls may
\* have saved or accepted meanwhile, but nothing else can be in the way.
THEOREM MarksAreKept == Spec => StaleUntilIndexed
<1> DEFINE A == \A f \in Files :
                  stale[f] /\ ~stale'[f] /\ NotDecided(f)
                    => \/ Indexed(f)
                       \/ rows[Owner[f]] = NoRows
                       \/ Misdeclared(f)
                       \/ \E c \in Callers :
                            job'[c] # job[c] /\ (c \in overtaken \/ f \in unread[c])
<1>1. FreshInv /\ [Next]_vars => A
  <2> SUFFICES ASSUME FreshInv, [Next]_vars, NEW f \in Files, stale[f], ~stale'[f], NotDecided(f),
                      ~Misdeclared(f), rows[Owner[f]] # NoRows,
                      \A c \in Callers : job'[c] = job[c] \/ (c \notin overtaken /\ f \notin unread[c])
               PROVE  Indexed(f)
    OBVIOUS
  <2> USE DEF FreshInv, PlanInv
  <2>1. ASSUME NEW c \in Callers, RecordDecision(c), job[c].f = f PROVE FALSE
    <3>1. job[c].at = "decide" /\ job'[c] # job[c]
      BY <2>1, RecordedJob, StepMoves DEF Decision
    <3> QED BY <2>1, <3>1 DEF NotDecided
  <2>2. PICK c \in Callers : MarkFresh(c, f)
    BY <2>1, UnmarkSteps
  <2>3. job[c].at = "mark" /\ f \in job[c].todo /\ c \notin overtaken /\ f \notin unread[c]
    BY <2>2, StepMoves DEF MarkFresh, Refreshing
  <2>4. job[c].mode # "project" \/ Owner[f] = job[c].target
    BY <2>3 DEF MarksOwnProject, ScopedMarksAreOwn
  <2>5. NewIn(c, rows, f)
    BY <2>3, <2>4 DEF MarksFollowSave
  <2> QED BY <2>3, <2>5 DEF NewIn, Indexed
<1>2. Init => FreshInv
  BY InitFresh
<1>3. FreshInv /\ [Next]_vars => FreshInv'
  BY NextFresh
<1> QED BY <1>1, <1>2, <1>3, PTL DEF Spec, StaleUntilIndexed

-----------------------------------------------------------------------------
(* Stale marks have somebody to remove them *)

AcceptedIsPlanned == \A s \in Sessions : acceptedIn[s] \subseteq Planned[s]

\* Files a call will mark fresh, unless it fails.
Pending(j) ==
    {f \in Files :
        \/ j.at \in {"choose", "inbound", "symbols"} /\ f \in j.plan \cup {j.f}
        \/ j.at \in {"load", "save", "write"} /\ (j.mode = "project" => f \in j.own)
        \/ j.at = "mark" /\ f \in j.todo}

\* A session in which f was accepted waits for other files.
Awaited(f) == \E s \in Sessions : f \in acceptedIn[s] /\ ~(Planned[s] \subseteq decidedIn[s])

Attended(f) == f \in unattended \/ Awaited(f) \/ \E c \in Callers : f \in Pending(job[c])

StaleIsAttended == ~lost => \A f \in Files : stale[f] => Attended(f)

AwaitInv ==
    /\ TypeOK
    /\ CandidatesArePlanned
    /\ AcceptedIsPlanned
    /\ StaleIsAttended

\* A call that goes on has at least the same files to mark.
LEMMA PendingStays ==
    ASSUME TypeOK, NEW c \in Callers, Refreshing(c), ~Fail(c), NEW f \in Pending(job[c])
    PROVE  f \in Pending(job'[c]) \/ MarkFresh(c, f)
<1> USE DEF Pending
<1>1. CASE ChooseMode(c) \/ ReadInbound(c)
  BY <1>1, ChoosingJob DEF ChooseMode, ReadInbound
<1>2. CASE ListSymbols(c)
  BY <1>2, ListSymbolsJob DEF ListSymbols
<1>3. CASE BeginRebuild(c)
  BY <1>3 DEF BeginRebuild, Idle
<1>4. CASE Load(c)
  <2>1. job'[c].at = "save" /\ job[c].at = "load"
    BY <1>4, AfterGoes DEF Load, Loaded, Goes, TypeOK
  <2> QED BY <1>4, <2>1, LoadedJob
<1>5. CASE CheckProjects(c)
  BY <1>5, CheckProjectsJob DEF CheckProjects
<1>6. CASE SaveSolution(c)
  BY <1>6, AfterGoes DEF SaveSolution, Marks
<1>7. CASE SaveProject(c)
  BY <1>7, SavedJob DEF SaveProject
<1>8. ASSUME NEW g \in Files, MarkFresh(c, g)
      PROVE  f \in Pending(job'[c]) \/ MarkFresh(c, f)
  <2>1. /\ job'[c].at = "mark" /\ job'[c].todo = job[c].todo \ {g}
        /\ job[c].at = "mark"
    BY <1>8, MarkFreshJob DEF MarkFresh
  <2>2. CASE f = g
    BY <1>8, <2>2
  <2>3. CASE f # g
    BY <2>1, <2>3
  <2> QED BY <2>2, <2>3
<1>9. CASE Marked(c)
  BY <1>9 DEF Marked
<1>10. CASE ProjectRefreshFails(c)
  BY <1>10, AfterGoes DEF ProjectRefreshFails, Refresh, Goes, TypeOK
<1> QED BY <1>1, <1>2, <1>3, <1>4, <1>5, <1>6, <1>7, <1>8, <1>9, <1>10 DEF Refreshing

LEMMA NextAcceptedIsPlanned ==
    ASSUME TypeOK, CandidatesArePlanned, AcceptedIsPlanned, [Next]_vars
    PROVE  AcceptedIsPlanned'
<1>1. ASSUME NEW c \in Callers, RecordDecision(c) PROVE AcceptedIsPlanned'
  <2>1. job[c].s \in Sessions => job[c].f \in Planned[job[c].s]
    BY <1>1, RecordedSets DEF RecordDecision, CandidatesArePlanned
  <2>2. ASSUME NEW s \in Sessions PROVE acceptedIn'[s] \subseteq Planned[s]
    <3>1. CASE s = job[c].s
      BY <1>1, <2>1, <3>1, RecordedSets DEF AcceptedIsPlanned
    <3>2. CASE s # job[c].s
      BY <1>1, <3>2, RecordedSets DEF AcceptedIsPlanned
    <3> QED BY <3>1, <3>2
  <2> QED BY <2>2 DEF AcceptedIsPlanned
<1> QED BY <1>1, OtherDecisions DEF AcceptedIsPlanned

\* Sessions other than that of a decision wait for what they waited for.
LEMMA AwaitedElsewhere ==
    ASSUME TypeOK, NEW c \in Callers, RecordDecision(c), NEW f,
           NEW s \in Sessions \ {job[c].s}, f \in acceptedIn[s], ~(Planned[s] \subseteq decidedIn[s])
    PROVE  Awaited(f)'
<1>1. acceptedIn'[s] = acceptedIn[s] /\ decidedIn'[s] = decidedIn[s]
  BY RecordedSets
<1> QED BY <1>1 DEF Awaited

\* A decision with the options its session asks for leaves every stale file to
\* the session or to its own refresh.
LEMMA RecordAttends ==
    ASSUME AwaitInv, NEW c \in Callers, RecordDecision(c), OptionsHold(job[c]),
           NEW f \in Files, stale'[f],
           \/ f = job[c].f
           \/ job[c].s \in Sessions /\ f \in acceptedIn[job[c].s]
    PROVE  Awaited(f)' \/ f \in Pending(job'[c])
<1> DEFINE d == job[c]
<1> USE DEF AwaitInv
<1>1. d.at = "decide" /\ (f = d.f => d.word = "accepted")
  BY RecordedSets DEF RecordDecision
<1>2. ASSUME ~d.defer, f = d.f \/ f \in d.plan
      PROVE  f \in Pending(job'[c])
  <2>1. d.word = "accepted" \/ d.plan # {}
    BY <1>1, <1>2
  <2>2. /\ job'[c].at = "choose" /\ job'[c].f = d.f /\ job'[c].plan = d.plan
    BY <1>2, <2>1, RecordedJob
  <2> QED BY <1>2, <2>2 DEF Pending
<1>3. CASE d.s \notin Sessions
  <2>1. ~d.defer /\ f = d.f
    BY <1>3 DEF OptionsHold
  <2> QED BY <1>2, <2>1
<1>4. CASE d.s \in Sessions
  <2>1. /\ d.plan = AcceptedPlanned(d.s, d.f, d.word)
        /\ d.defer = DeferRefresh(d.s, d.f, d.word)
    BY <1>4 DEF OptionsHold
  <2>2. d.f \in Planned[d.s]
    BY <1>4, RecordedSets DEF RecordDecision, CandidatesArePlanned
  <2>3. f \in d.plan
    BY <1>1, <1>4, <2>1, <2>2 DEF AcceptedPlanned, AcceptedIsPlanned
  <2>4. CASE d.defer
    <3>1. ~(Planned[d.s] \subseteq decidedIn[d.s] \cup {d.f})
      BY <2>1, <2>4 DEF DeferRefresh, AllDecided
    <3>2. decidedIn'[d.s] = decidedIn[d.s] \cup {d.f} /\ f \in acceptedIn'[d.s]
      BY <1>1, <1>4, RecordedSets
    <3> QED BY <1>4, <3>1, <3>2 DEF Awaited
  <2>5. CASE ~d.defer
    BY <1>2, <2>3, <2>5
  <2> QED BY <2>4, <2>5
<1> QED BY <1>3, <1>4

LEMMA RecordKeepsAttended ==
    ASSUME AwaitInv, NEW c \in Callers, RecordDecision(c), ~lost, NEW f \in Files, stale'[f]
    PROVE  Attended(f)'
<1> DEFINE d == job[c]
<1> USE DEF AwaitInv
<1>1. /\ unattended' = (unattended \ {d.f}) \cup
            {g \in Files : /\ stale'[g] /\ ~OptionsHold(d)
                           /\ IF d.s \in Sessions THEN g \in acceptedIn'[d.s] ELSE g = d.f}
      /\ d.at = "decide"
  BY DEF RecordDecision
<1>2. d.s \in Sessions =>
        acceptedIn'[d.s] = acceptedIn[d.s] \cup IF d.word = "accepted" THEN {d.f} ELSE {}
  BY RecordedSets
<1>3. f = d.f => d.word = "accepted"
  BY RecordedSets
<1>4. CASE f = d.f \/ (d.s \in Sessions /\ f \in acceptedIn[d.s])
  <2>1. CASE ~OptionsHold(d)
    <3>1. IF d.s \in Sessions THEN f \in acceptedIn'[d.s] ELSE f = d.f
      BY <1>2, <1>3, <1>4
    <3>2. f \in unattended'
      BY <1>1, <2>1, <3>1
    <3> QED BY <3>2 DEF Attended
  <2>2. CASE OptionsHold(d)
    BY <1>4, <2>2, RecordAttends DEF Attended, Pending
  <2> QED BY <2>1, <2>2
<1>5. CASE f # d.f /\ ~(d.s \in Sessions /\ f \in acceptedIn[d.s])
  <2>1. stale[f]
    BY <1>5, RecordedSets
  <2>2. Attended(f)
    BY <2>1 DEF StaleIsAttended
  <2>3. f \in unattended => f \in unattended'
    BY <1>1, <1>5
  <2>4. Awaited(f) => Awaited(f)'
    BY <1>5, AwaitedElsewhere DEF Awaited
  <2>5. ASSUME NEW k \in Callers, f \in Pending(job[k]) PROVE f \in Pending(job'[k])
    <3>1. k # c
      BY <1>1, <2>5 DEF Pending
    <3>2. job'[k] = job[k]
      BY <3>1, AfterGoes DEF RecordDecision
    <3> QED BY <2>5, <3>2
  <2> QED BY <2>2, <2>3, <2>4, <2>5 DEF Attended, Pending
<1> QED BY <1>4, <1>5

\* Steps of other kinds take neither the plan nor the calls away from a file.
LEMMA OthersKeepAttended ==
    ASSUME AwaitInv, [Next]_vars, \A c \in Callers : ~RecordDecision(c), ~lost',
           NEW f \in Files, stale'[f]
    PROVE  Attended(f)'
<1> USE DEF AwaitInv
<1>1. ~lost /\ stale[f] /\ \A c \in Callers : ~Fail(c) /\ ~MarkFresh(c, f)
  <2>1. ASSUME NEW c \in Callers, Decision(c) PROVE lost' = lost /\ stale' = stale
    BY <2>1 DEF Decision, BeginDecision, RefuseDecision, history
  <2>2. ASSUME NEW c \in Callers, Refreshing(c), ~Fail(c)
        PROVE  lost' = lost /\ (stale'[f] => stale[f])
    BY <2>2 DEF Refreshing, ChooseMode, ReadInbound, ListSymbols, BeginRebuild, Load, Loaded,
       CheckProjects, SaveSolution, SaveProject, MarkFresh, Marked, ProjectRefreshFails, history,
       TypeOK
  <2>3. \A c \in Callers : ~Fail(c) /\ ~MarkFresh(c, f)
    BY DEF Fail, MarkFresh, TypeOK
  <2> QED BY <2>1, <2>2, <2>3 DEF Next, OperatorSaves, Stage, ReadVersion, DropTables,
       StampVersion, vars, history
<1>2. Attended(f)
  BY <1>1 DEF StaleIsAttended
<1>3. f \in unattended => f \in unattended'
  <2>1. ASSUME NEW c \in Callers, Decision(c) PROVE unattended' = unattended
    BY <2>1 DEF Decision, BeginDecision, RefuseDecision, history
  <2>2. ASSUME NEW c \in Callers, Refreshing(c) PROVE f \in unattended => f \in unattended'
    BY <1>1, <2>2 DEF Refreshing, ChooseMode, ReadInbound, ListSymbols, BeginRebuild, Load, Loaded,
       CheckProjects, SaveSolution, SaveProject, MarkFresh, Marked, ProjectRefreshFails, history
  <2> QED BY <2>1, <2>2 DEF Next, OperatorSaves, Stage, ReadVersion, DropTables,
       StampVersion, vars, history
<1>4. Awaited(f) => Awaited(f)'
  BY OtherDecisions DEF Awaited
<1>5. ASSUME NEW k \in Callers, f \in Pending(job[k]) PROVE f \in Pending(job'[k])
  <2>1. CASE job'[k] = job[k]
    BY <1>5, <2>1
  <2>2. CASE job'[k] # job[k]
    <3>1. Decision(k) \/ Refreshing(k)
      BY <2>2, StepOfOne
    <3>2. ~Decision(k)
      BY <1>5 DEF Decision, BeginDecision, RefuseDecision, Pending, Idle
    <3> QED BY <1>1, <1>5, <3>1, <3>2, PendingStays
  <2> QED BY <2>1, <2>2
<1> QED BY <1>2, <1>3, <1>4, <1>5 DEF Attended, Pending

LEMMA NextAwait ==
    ASSUME AwaitInv, [Next]_vars
    PROVE  AwaitInv'
<1>1. ASSUME ~lost', NEW f \in Files, stale'[f] PROVE Attended(f)'
  <2>1. ASSUME NEW c \in Callers, RecordDecision(c) PROVE Attended(f)'
    <3>1. ~lost
      BY <1>1, <2>1 DEF RecordDecision
    <3> QED BY <1>1, <2>1, <3>1, RecordKeepsAttended
  <2> QED BY <1>1, <2>1, OthersKeepAttended
<1>2. StaleIsAttended'
  BY <1>1 DEF StaleIsAttended
<1> QED BY <1>2, NextType, NextCandidates, NextAcceptedIsPlanned DEF AwaitInv

\* With no call under way and none that was cut short, every stale file waits
\* for other files of its session, but for those of which a decision was
\* recorded with options that the session no longer asked for.
THEOREM StaleFilesAreAwaited == Spec => []StaleIsAwaited
<1>1. Init => AwaitInv
  BY InitType DEF Init, AwaitInv, CandidatesArePlanned, AcceptedIsPlanned, StaleIsAttended
<1>2. AwaitInv /\ [Next]_vars => AwaitInv'
  BY NextAwait, NextType DEF AwaitInv
<1>3. AwaitInv => StaleIsAwaited
  <2> SUFFICES ASSUME AwaitInv, NEW f \in Files, stale[f], ~lost, f \notin unattended,
                      \A c \in Callers : job[c] = Idle
               PROVE  Awaited(f)
    BY DEF StaleIsAwaited, Awaited
  <2>1. \A c \in Callers : f \notin Pending(job[c])
    BY DEF Pending, Idle
  <2> QED BY <2>1 DEF AwaitInv, StaleIsAttended, Attended
<1> QED BY <1>1, <1>2, <1>3, PTL DEF Spec
=============================================================================
