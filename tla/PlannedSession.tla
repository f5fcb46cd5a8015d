--------------------------- MODULE PlannedSession ---------------------------
(***************************************************************************)
(* One MCP session with an edit plan: the gates of launch_staged_diff and  *)
(* record_diff_decision, and the two builds that vouch for a set of edits: *)
(* the overlay build before a review is launched, and the terminal build   *)
(* before the last planned file is decided.                                *)
(*                                                                         *)
(* A build copies watched source, lays candidates over it and runs dotnet  *)
(* build for up to three minutes, so launches and decisions take two steps *)
(* here: they read records and sources, and later they write the outcome.  *)
(* All other calls are one step, and go on meanwhile.                      *)
(*                                                                         *)
(* A candidate is any text: what the edit tools do to the Working file is  *)
(* in EditWorkflow.  Left out: new files, line endings, decision strings   *)
(* with blanks (see EditWorkflow), the writes inside a call (RecordStore), *)
(* the index refresh and other sessions (IndexRefresh), session events.    *)
(***************************************************************************)
EXTENDS Naturals

CONSTANTS
    Files,         \* watched source files, by full path
    Texts,         \* what a file can hold
    GoodTrees,     \* the texts of all files that build together
    Callers,       \* launches and decisions that can be under way at once
    MaxRecords     \* bound: how many times a behaviour stages

RecordIds == 1..MaxRecords

Tree == [Files -> Texts]

ASSUME SessionAssumption == MaxRecords \in Nat \ {0} /\ GoodTrees \subseteq Tree

VARIABLES
    plan,       \* the planned files in the session file
    watched,    \* file |-> text on disk
    session,    \* file |-> its edit session: the baseline text, or NoSession
    records,    \* id |-> StagedEditRecord, or NoRecord
    call        \* caller |-> the launch or decision it has under way, or Idle

vars == <<plan, watched, session, records, call>>

-----------------------------------------------------------------------------
(* Stored data *)

NoSession == [open |-> FALSE]

\* `shut` is RequiresRefresh.
Session == [open : {TRUE}, base : Texts, shut : BOOLEAN]

NoRecord == [status |-> "none"]

\* "rejected" stands for "dirty-unexpected" too: nothing here tells a file that
\* was left alone from one that was changed and not accepted.
Record ==
    [file : Files, text : Texts, launched : BOOLEAN,
     validation : {"none", "passed", "failed", "overridden"},
     status : {"staged", "superseded", "accepted", "rejected"}]

Idle == [at |-> "idle"]

\* What a launch has read: `tree` is the tree it builds.
LaunchCall == [at : {"launch"}, r : RecordIds, tree : Tree]

\* What a decision has read: the plan, the ids that were decided, whether a
\* failed build of the record was overridden; and the tree it builds, if any.
DecisionCall ==
    [at : {"decision"}, r : RecordIds, word : {"accepted", "rejected"},
     plan : SUBSET Files, seen : SUBSET RecordIds, overridden : BOOLEAN,
     trees : {{}} \cup {{t} : t \in Tree}]

Init ==
    /\ plan \in (SUBSET Files) \ {{}}
    /\ watched \in Tree
    /\ session = [f \in Files |-> NoSession]
    /\ records = [r \in RecordIds |-> NoRecord]
    /\ call = [c \in Callers |-> Idle]

-----------------------------------------------------------------------------
(* Records of the session *)

Stored(r) == records[r].status # "none"

\* Neither superseded nor decided.
Active(r) == records[r].status = "staged"

Decided(r) == records[r].status \in {"accepted", "rejected"}

Accepted(r) == records[r].status = "accepted"

DecidedIds == {r \in RecordIds : Decided(r)}

FilesOf(S) == {records[r].file : r \in S}

\* The newest of the records in S that are of file f.
IsNewest(r, f, S) ==
    /\ r \in S
    /\ records[r].file = f
    /\ \A q \in S : records[q].file = f => q <= r

\* Watched source with the newest of the records in S laid over each file.
Overlay(S) ==
    [f \in Files |->
        IF f \in FilesOf(S)
        THEN records[CHOOSE r \in S : IsNewest(r, f, S)].text
        ELSE watched[f]]

\* NormalizeOverlayRecords: the record in hand stands for its file.
OverlayWith(S, r) == [Overlay(S) EXCEPT ![records[r].file] = records[r].text]

\* The copy is built by dotnet build; a build can also fail by a timeout or a copy
\* that fails, so a tree that builds may be refused and no other tree passes.
Builds(t) == t \in GoodTrees

Goes(c, state) == call' = [call EXCEPT ![c] = state]

-----------------------------------------------------------------------------
(* Plan and candidates *)

\* Fault: the files given are not checked.
SetAnyPlan(p) ==
    /\ plan' = p
    /\ UNCHANGED <<watched, session, records, call>>

\* Any non-empty set of files replaces the plan, whatever became of the old one.
SetMonitorSessionEditPlan(p) ==
    /\ p # {}
    /\ plan' = p
    /\ UNCHANGED <<watched, session, records, call>>

\* A refresh needs no plan.
RefreshFile(f) ==
    /\ session' = [session EXCEPT
         ![f] = [open |-> TRUE, base |-> watched[f], shut |-> FALSE]]
    /\ UNCHANGED <<plan, watched, records, call>>

\* Ids grow with the time of staging.
IsNextId(r) == ~Stored(r) /\ \A q \in RecordIds : q < r => Stored(q)

Superseded(f) ==
    [q \in RecordIds |->
        IF Active(q) /\ records[q].file = f
        THEN [records[q] EXCEPT !.status = "superseded"]
        ELSE records[q]]

\* Each edit of the Working file and the staging of it ask for the plan, an open
\* session and a watched file that is still the baseline.
StageCandidateForReview(f, t) ==
    /\ f \in plan
    /\ session[f].open /\ ~session[f].shut
    /\ session[f].base = watched[f]
    /\ t # watched[f]
    /\ \E r \in RecordIds :
         /\ IsNextId(r)
         /\ records' = [Superseded(f) EXCEPT ![r] =
              [file |-> f, text |-> t, launched |-> FALSE,
               validation |-> "none", status |-> "staged"]]
    /\ UNCHANGED <<plan, watched, session, call>>

-----------------------------------------------------------------------------
(* Launch *)

\* Fault: a planned file that is decided must have a record to review too.
EveryFileIsStaged ==
    \A f \in plan : \E r \in RecordIds : Active(r) /\ records[r].file = f

\* ShouldDeferBuildValidationUntilAccept throws for a planned file that is
\* neither decided nor staged.
BatchIsStaged ==
    \A f \in plan : \E r \in RecordIds : (Active(r) \/ Decided(r)) /\ records[r].file = f

ActiveIds == {r \in RecordIds : Active(r)}

BeginLaunch(c, r) ==
    /\ call[c] = Idle
    /\ Active(r)
    /\ records[r].file \in plan
    /\ BatchIsStaged
    /\ Goes(c, [at |-> "launch", r |-> r, tree |-> OverlayWith(ActiveIds, r)])
    /\ UNCHANGED <<plan, watched, session, records>>

\* When the build fails, the operator or the caller may force the launch, and
\* WinMerge may not be found.
EndLaunch(c, passed, forced, found) ==
    LET r == call[c].r
    IN  /\ call[c].at = "launch"
        /\ passed => Builds(call[c].tree) /\ ~forced
        /\ found => passed \/ forced
        /\ Active(r)
        /\ records' = [records EXCEPT
             ![r].validation = IF passed THEN "passed"
                               ELSE IF forced THEN "overridden" ELSE "failed",
             ![r].launched = found]
        /\ Goes(c, Idle)
        /\ UNCHANGED <<plan, watched, session>>

\* The record was decided or superseded during the build.
RefuseLaunch(c) ==
    /\ call[c].at = "launch"
    /\ ~Active(call[c].r)
    /\ Goes(c, Idle)
    /\ UNCHANGED <<plan, watched, session, records>>

-----------------------------------------------------------------------------
(* Decision *)

\* The other records whose decision counts, when r is decided.
DecidedBut(r) == DecidedIds \ {r}

\* With r decided, every planned file has a decision.
ClosesPlan(r) == plan \subseteq {records[r].file} \cup FilesOf(DecidedBut(r))

\* The files that are accepted once r is decided.
AcceptedFiles(r, word) ==
    FilesOf({q \in DecidedBut(r) : Accepted(q)})
        \cup (IF word = "accepted" THEN {records[r].file} ELSE {})

IsTerminal(r, word) == ClosesPlan(r) /\ AcceptedFiles(r, word) \cap plan # {}

\* Fault: the candidates of files that were not accepted are laid over too.
TerminalTreeOfStored(r, word) == OverlayWith({q \in RecordIds : Stored(q)}, r)

\* The newest record of each accepted file, whatever became of it.
TerminalTree(r, word) ==
    OverlayWith({q \in RecordIds : Stored(q) /\ records[q].file \in AcceptedFiles(r, word)}, r)

BeginDecision(c, r, word) ==
    /\ call[c] = Idle
    /\ Active(r)
    /\ Goes(c, [at |-> "decision", r |-> r, word |-> word,
                plan |-> plan, seen |-> DecidedBut(r),
                overridden |-> records[r].validation = "overridden",
                trees |-> IF IsTerminal(r, word) THEN {TerminalTree(r, word)} ELSE {}])
    /\ UNCHANGED <<plan, watched, session, records>>

\* No terminal build, or one that passes, or one whose record was overridden.
TerminalBuildPasses(c) == call[c].overridden \/ \A t \in call[c].trees : Builds(t)

\* An accept asks for a launch, a validation and the saved text.
CanAccept(rec) ==
    /\ rec.launched
    /\ rec.validation \in {"passed", "overridden"}
    /\ watched[rec.file] = rec.text

EndDecision(c) ==
    LET r == call[c].r
        rec == records[r]
        word == call[c].word
    IN  /\ call[c].at = "decision"
        /\ TerminalBuildPasses(c)
        /\ Active(r)
        /\ word = "accepted" => CanAccept(rec)
        /\ records' = [records EXCEPT ![r].status = word]
        /\ session' = IF session[rec.file].open
                      THEN [session EXCEPT ![rec.file].shut = (word = "accepted")]
                      ELSE session
        /\ Goes(c, Idle)
        /\ UNCHANGED <<plan, watched>>

\* The terminal build fails or cannot run, the record was decided or superseded
\* during it, or an accept names no hash, another hash or a record that does not
\* pass.
RefuseDecision(c) ==
    /\ call[c].at = "decision"
    /\ \/ call[c].trees # {} /\ ~call[c].overridden
       \/ ~Active(call[c].r)
       \/ call[c].word = "accepted"
    /\ Goes(c, Idle)
    /\ UNCHANGED <<plan, watched, session, records>>

-----------------------------------------------------------------------------
\* The operator saves the merge, or part of it, in the diff that is open.
OperatorSaves(r, t) ==
    /\ Active(r)
    /\ records[r].launched
    /\ t # watched[records[r].file]
    /\ watched' = [watched EXCEPT ![records[r].file] = t]
    /\ UNCHANGED <<plan, session, records, call>>

-----------------------------------------------------------------------------
CandidateStep ==
    \/ \E p \in SUBSET Files : SetMonitorSessionEditPlan(p)
    \/ \E f \in Files :
         \/ RefreshFile(f)
         \/ \E t \in Texts : StageCandidateForReview(f, t)

LaunchStep(c) ==
    \/ \E r \in RecordIds : BeginLaunch(c, r)
    \/ \E passed, forced, found \in BOOLEAN : EndLaunch(c, passed, forced, found)
    \/ RefuseLaunch(c)

DecisionStep(c) ==
    \/ \E r \in RecordIds, word \in {"accepted", "rejected"} : BeginDecision(c, r, word)
    \/ EndDecision(c)
    \/ RefuseDecision(c)

Next ==
    \/ CandidateStep
    \/ \E c \in Callers : LaunchStep(c) \/ DecisionStep(c)
    \/ \E r \in RecordIds, t \in Texts : OperatorSaves(r, t)

Spec == Init /\ [][Next]_vars

-----------------------------------------------------------------------------
(* Properties *)

TypeOK ==
    /\ plan \in (SUBSET Files) \ {{}}
    /\ watched \in Tree
    /\ session \in [Files -> Session \cup {NoSession}]
    /\ records \in [RecordIds -> Record \cup {NoRecord}]
    /\ call \in [Callers -> LaunchCall \cup DecisionCall \cup {Idle}]

\* Reviewing and deciding the files of a batch one after the other never
\* locks out the rest: once the batch is staged, launches stay possible, in
\* any order of decisions and restaging, until the plan is replaced.
BatchStaysOpen == [][BatchIsStaged /\ plan' = plan => BatchIsStaged']_vars

PlanIsDecided == plan \subseteq FilesOf(DecidedIds)

\* The step in which the decision of c on record r is recorded.
EndsDecision(c, r) ==
    /\ call[c].at = "decision"
    /\ call[c].r = r
    /\ call'[c] = Idle
    /\ Active(r)
    /\ Decided(r)'

\* The plan and the decisions are still the ones the decision has read.
ReadsHold(c) ==
    /\ plan = call[c].plan
    /\ DecidedBut(call[c].r) = call[c].seen

StoredIds == {r \in RecordIds : Stored(r)}

\* No planned file has a newer candidate than the one that decided it; after
\* an accept, none was decided in any other way.
DecisionsAreFinal ==
    \A f \in plan, r \in RecordIds :
        IsNewest(r, f, StoredIds) =>
            /\ Decided(r)
            /\ Accepted(r) \/ \A q \in StoredIds : records[q].file = f => ~Accepted(q)

\* The accept that decides a plan is recorded only over a build that passed,
\* or was overridden, of the texts that are in the planned files then: the
\* accepted candidates, and watched source for the files that were rejected.
\* Decisions that overlap, and files restaged after their accept, can break
\* this, and are told apart.
LastAcceptWasBuilt ==
    [][\A c \in Callers, r \in RecordIds :
         /\ EndsDecision(c, r)
         /\ call[c].word = "accepted"
         /\ records[r].file \in plan
         /\ ReadsHold(c)
         /\ PlanIsDecided'
         /\ DecisionsAreFinal'
         => \E t \in call[c].trees :
              /\ t \in GoodTrees \/ call[c].overridden
              /\ \A f \in plan : t[f] = watched'[f]]_vars

\* When a plan of all files is decided, something of it was accepted and no
\* failed build was overridden, then watched source builds.
DecidedTreeBuilds ==
    [][\A c \in Callers, r \in RecordIds :
         /\ EndsDecision(c, r)
         /\ plan = Files
         /\ PlanIsDecided'
         /\ \E q \in RecordIds : Accepted(q)'
         /\ \A q \in RecordIds : Stored(q) => records[q].validation # "overridden"
         => watched' \in GoodTrees]_vars
=============================================================================
