---------------------------- MODULE EditWorkflow ----------------------------
(***************************************************************************)
(* WorkflowEditService: sessions on watched source files, monitor-owned    *)
(* Working candidates, staged records and the decisions taken on them.     *)
(*                                                                         *)
(* One action is one call of the service that succeeds; a call that throws *)
(* before it writes is not a step.  The calls come in any order, from the  *)
(* CLI, the MCP tools or the app.  Between them the operator saves watched *)
(* source from WinMerge, and the agent edits Working files directly.       *)
(* Calls are atomic here; RecordStore takes them apart.                    *)
(*                                                                         *)
(* Left out: the retrieval backup, compare snapshots, ledger and run log   *)
(* (write-only history), timestamps, messages and operation counts.        *)
(***************************************************************************)
EXTENDS FileContent, Naturals

CONSTANTS
    Files,           \* watched source files, by full path
    MaxRecords,      \* bound: how many times a behaviour stages
    DecisionTexts    \* decision strings callers pass: [word, padded]

RecordIds == 1..MaxRecords

ASSUME BoundAssumption == MaxRecords \in Nat \ {0}

ASSUME DecisionAssumption ==
    /\ DecisionTexts \subseteq [word : STRING, padded : BOOLEAN]
    /\ [word : {"accepted", "rejected"}, padded : {FALSE}] \subseteq DecisionTexts

VARIABLES
    watched,        \* file |-> content on disk, or Absent
    working,        \* file |-> content of its Working candidate, or Absent
    manifest,       \* file |-> its EditSessionManifest, or NoSession
    records,        \* id |-> StagedEditRecord, or NoRecord
    operatorSaved,  \* history: file |-> the operator saved it while its record was open
    saves           \* history: parity of the number of times the operator wrote a file

vars == <<watched, working, manifest, records, operatorSaved, saves>>

-----------------------------------------------------------------------------
(* Stored data *)

NoSession == [open |-> FALSE]

Manifest ==
    [open : {TRUE}, orig : Contents \cup {NewFileHash}, isNew : BOOLEAN,
     requiresRefresh : BOOLEAN, indexStale : BOOLEAN,
     lastStaged : {0} \cup RecordIds]

NoRecord == [status |-> "none"]

\* The decision of a record that has none.
Undecided == [word |-> "", padded |-> FALSE]

\* `status` is Status and Classification, which are always written together.
\* `validation` is PreMergeValidationStatus, ...IsError and ...ForceApproved:
\* "overridden" is an error the operator approved.  `launched` is a LaunchStatus
\* of "launched".  ReviewBaselineFilePath is left out: a launch always follows
\* PrepareReviewFileForLaunch, after which it is the watched file.
Record ==
    [file : Files, isNew : BOOLEAN, orig : Contents \cup {NewFileHash},
     staged : Contents, launched : BOOLEAN,
     validation : {"none", "passed", "failed", "overridden"},
     decision : DecisionTexts \cup {Undecided},
     status : {"staged", "superseded", "accepted", "accepted-normalized",
               "rejected", "dirty-unexpected"}]

Init ==
    /\ watched \in [Files -> Contents \cup {Absent}]
    /\ working = [f \in Files |-> Absent]
    /\ manifest = [f \in Files |-> NoSession]
    /\ records = [r \in RecordIds |-> NoRecord]
    /\ operatorSaved = [f \in Files |-> FALSE]
    /\ saves = FALSE

-----------------------------------------------------------------------------
(* The life of a record *)

AcceptedStatus == {"accepted", "accepted-normalized"}

TerminalStatus == AcceptedStatus \cup {"rejected", "superseded"}

\* IsTerminalDecision on the stored decision string, which is compared as it
\* was given: blanks around the word make it another string.
IsTerminalDecision(text) == ~text.padded /\ text.word \in TerminalStatus

\* Fault: a check that stops superseded records only.
IsSupersededOnly(rec) == rec.status = "superseded"

\* IsSuperseded, or a terminal decision or classification.
IsDecided(rec) ==
    \/ rec.status \in TerminalStatus
    \/ IsTerminalDecision(rec.decision)

\* The record exists and EnsureRecordNotDecided lets a call act on it.
Active(r) == records[r].status # "none" /\ ~IsDecided(records[r])

Accepted(r) == records[r].status \in AcceptedStatus

\* Fault: records left dirty by an odd decision are not superseded.
SupersedeStagedRecordsForFile(f) ==
    [r \in RecordIds |->
        IF records[r].status = "staged" /\ records[r].file = f
        THEN [records[r] EXCEPT !.status = "superseded"]
        ELSE records[r]]

\* SupersedeActiveRecordsForFile: what Stage leaves of the older records.
SupersedeActiveRecordsForFile(f) ==
    [r \in RecordIds |->
        IF Active(r) /\ records[r].file = f
        THEN [records[r] EXCEPT !.status = "superseded"]
        ELSE records[r]]

\* Record ids grow with the time of staging.
IsNextId(r) ==
    /\ records[r].status = "none"
    /\ \A q \in RecordIds : q < r => records[q].status # "none"

-----------------------------------------------------------------------------
(* Sessions and candidates *)

\* Fault: the requires-refresh check is missing.
SessionIsOpen(f) == manifest[f].open

\* EnsureSessionCanEdit on the manifest the call loaded.
SessionCanEdit(f) == manifest[f].open /\ ~manifest[f].requiresRefresh

\* Fault: a refresh copies the file and keeps the old baseline hash.
CaptureKeepingBaseline(f, stale) ==
    [open |-> TRUE, isNew |-> FALSE, requiresRefresh |-> FALSE,
     orig |-> IF manifest[f].open THEN manifest[f].orig ELSE watched[f],
     indexStale |-> stale, lastStaged |-> 0]

\* A manifest over the watched file as it is now.
CaptureExisting(f, stale) ==
    [open |-> TRUE, orig |-> watched[f], isNew |-> FALSE,
     requiresRefresh |-> FALSE, indexStale |-> stale, lastStaged |-> 0]

\* A manifest for a file to be created.  It starts with a fresh index flag.
CaptureNew ==
    [open |-> TRUE, orig |-> NewFileHash, isNew |-> TRUE,
     requiresRefresh |-> FALSE, indexStale |-> FALSE, lastStaged |-> 0]

\* Fault: a refresh that does not look whether the file exists.
RefreshUnchecked(f) ==
    /\ working' = [working EXCEPT ![f] = watched[f]]
    /\ manifest' = [manifest EXCEPT ![f] = CaptureExisting(f, FALSE)]
    /\ UNCHANGED <<watched, records, operatorSaved, saves>>

Refresh(f) ==
    /\ watched[f] # Absent
    /\ working' = [working EXCEPT ![f] = watched[f]]
    /\ manifest' = [manifest EXCEPT
         ![f] = CaptureExisting(f, manifest[f].open /\ manifest[f].indexStale)]
    /\ UNCHANGED <<watched, records, operatorSaved, saves>>

\* A Working file that is already there is kept.
EnsureWorking(f) == IF working[f] = Absent THEN Blank ELSE working[f]

NewFile(f) ==
    /\ watched[f] = Absent
    /\ working' = [working EXCEPT ![f] = EnsureWorking(f)]
    /\ manifest' = [manifest EXCEPT ![f] = CaptureNew]
    /\ UNCHANGED <<watched, records, operatorSaved, saves>>

WriteWorkingCandidate(f, c) ==
    /\ SessionCanEdit(f)
    /\ working' = [working EXCEPT ![f] = CandidateText(c, working[f])]
    /\ UNCHANGED <<watched, manifest, records, operatorSaved, saves>>

\* ReplaceText and ReplaceSpan: c is the Working text with the change in it.
ReplaceInCandidate(f, c) ==
    /\ working[f] # Absent
    /\ WriteWorkingCandidate(f, c)

\* Without a session SubmitFile makes one and saves it before the syntax
\* check that may refuse the text.
SubmitFile(f, c, syntaxOk) ==
    \/ /\ manifest[f].open
       /\ syntaxOk
       /\ WriteWorkingCandidate(f, c)
    \/ /\ ~manifest[f].open
       /\ manifest' = [manifest EXCEPT
            ![f] = IF watched[f] = Absent THEN CaptureNew ELSE CaptureExisting(f, FALSE)]
       /\ LET base == IF watched[f] = Absent THEN EnsureWorking(f) ELSE watched[f]
          IN  working' = [working EXCEPT
                ![f] = IF syntaxOk THEN CandidateText(c, base) ELSE base]
       /\ UNCHANGED <<watched, records, operatorSaved, saves>>

-----------------------------------------------------------------------------
(* Staging and review *)

\* What must hold of the baseline for the candidate of f to be staged.
BaselineHolds(f) ==
    IF manifest[f].isNew
    THEN watched[f] = Absent
    ELSE watched[f] = manifest[f].orig /\ watched[f] # working[f]

Stage(f) ==
    /\ SessionCanEdit(f)
    /\ working[f] # Absent
    /\ BaselineHolds(f)
    /\ \E r \in RecordIds :
         /\ IsNextId(r)
         /\ records' = [SupersedeActiveRecordsForFile(f) EXCEPT ![r] =
              [file |-> f, isNew |-> manifest[f].isNew, orig |-> manifest[f].orig,
               staged |-> working[f], launched |-> FALSE, validation |-> "none",
               decision |-> Undecided, status |-> "staged"]]
         /\ manifest' = [manifest EXCEPT ![f].lastStaged = r]
    /\ operatorSaved' = [operatorSaved EXCEPT ![f] = FALSE]
    /\ UNCHANGED <<watched, working, saves>>

RecordDiffLaunch(r, launched) ==
    /\ Active(r)
    /\ records' = [records EXCEPT ![r].launched = launched]
    /\ UNCHANGED <<watched, working, manifest, operatorSaved, saves>>

RecordPreMergeValidation(r, isError, force) ==
    /\ Active(r)
    /\ records' = [records EXCEPT
         ![r].validation = IF ~isError THEN "passed"
                           ELSE IF force THEN "overridden" ELSE "failed"]
    /\ UNCHANGED <<watched, working, manifest, operatorSaved, saves>>

\* Fault: the review file of a new file starts as the candidate, not blank.
PrepareReviewFileFromCandidate(r) ==
    /\ Active(r)
    /\ records[r].isNew
    /\ watched[records[r].file] = Absent
    /\ watched' = [watched EXCEPT ![records[r].file] = records[r].staged]
    /\ UNCHANGED <<working, manifest, records, operatorSaved, saves>>

\* For the record of an existing file this call changes nothing.
PrepareReviewFileForLaunch(r) ==
    /\ Active(r)
    /\ records[r].isNew
    /\ watched[records[r].file] \in {Absent, Blank}
    /\ watched' = [watched EXCEPT ![records[r].file] = Blank]
    /\ UNCHANGED <<working, manifest, records, operatorSaved, saves>>

-----------------------------------------------------------------------------
(* Decisions *)

\* Validated, and shown: a failed validation counts if it was overridden.
Reviewed(rec) == rec.launched /\ rec.validation \in {"passed", "overridden"}

\* ReviewDecisionClassifier.Classify; `reviewed` is the watched file by then.
Classify(rec, word, reviewed) ==
    IF word = "accepted" /\ reviewed = rec.staged
    THEN "accepted"
    ELSE IF word = "accepted" /\ reviewed # Absent /\ SameText(reviewed, rec.staged)
    THEN "accepted-normalized"
    ELSE IF word = "rejected" /\ ((rec.isNew /\ reviewed = Absent) \/ reviewed = rec.orig)
    THEN "rejected"
    ELSE "dirty-unexpected"

\* Fault: rejecting a new file deletes it whatever is in it.
DeleteRejectedNewFile(rec, word) ==
    IF word = "rejected" /\ rec.isNew THEN Absent ELSE watched[rec.file]

\* The watched file as the decision leaves it: rejecting a new file deletes
\* the file in its place if it is empty.
AfterDecision(rec, word) ==
    IF word = "rejected" /\ rec.isNew /\ watched[rec.file] = Blank
    THEN Absent
    ELSE watched[rec.file]

\* What a decision writes in the manifest of its file.
DecisionFlags(m, accepted) ==
    [m EXCEPT !.requiresRefresh = accepted, !.indexStale = accepted]

\* An accept also compares the caller's expected hash, and the staged file on
\* disk, with the staged content: it is a step for the callers that pass both.
RecordDecision(r, text) ==
    LET rec == records[r]
        f == rec.file
        class == Classify(rec, text.word, AfterDecision(rec, text.word))
    IN  /\ Active(r)
        /\ watched[f] # Absent \/ rec.isNew
        /\ text.word = "accepted" =>
             Reviewed(rec) /\ class # "dirty-unexpected"
        /\ watched' = [watched EXCEPT ![f] = AfterDecision(rec, text.word)]
        /\ records' = [records EXCEPT ![r].decision = text, ![r].status = class]
        /\ manifest' =
             IF manifest[f].open
             THEN [manifest EXCEPT
                    ![f] = DecisionFlags(manifest[f], class \in AcceptedStatus)]
             ELSE manifest
        /\ UNCHANGED <<working, operatorSaved, saves>>

\* Accept and Reject by file act on the record the manifest names.
DecideLastStaged(f, word) ==
    /\ manifest[f].open
    /\ manifest[f].lastStaged # 0
    /\ RecordDecision(manifest[f].lastStaged, [word |-> word, padded |-> FALSE])

\* MarkIndexFresh, and each turn of the loop of MarkAllIndexesFresh.
MarkIndexFresh(f) ==
    /\ manifest[f].open
    /\ manifest[f].indexStale
    /\ manifest' = [manifest EXCEPT ![f].indexStale = FALSE]
    /\ UNCHANGED <<watched, working, records, operatorSaved, saves>>

-----------------------------------------------------------------------------
(* The operator and the agent, outside the service *)

OperatorSaves(f, c) ==
    /\ c # watched[f]
    /\ watched' = [watched EXCEPT ![f] = c]
    /\ operatorSaved' = [operatorSaved EXCEPT
         ![f] = \E r \in RecordIds : Active(r) /\ records[r].file = f]
    /\ saves' = ~saves
    /\ UNCHANGED <<working, manifest, records>>

AgentEditsWorkingFile(f, c) ==
    /\ working' = [working EXCEPT ![f] = c]
    /\ UNCHANGED <<watched, manifest, records, operatorSaved, saves>>

-----------------------------------------------------------------------------
CandidateStep(f) ==
    \/ Refresh(f)
    \/ NewFile(f)
    \/ \E c \in Contents :
         \/ WriteWorkingCandidate(f, c)
         \/ ReplaceInCandidate(f, c)
         \/ \E syntaxOk \in BOOLEAN : SubmitFile(f, c, syntaxOk)
    \/ Stage(f)

ReviewStep(r) ==
    \/ \E launched \in BOOLEAN : RecordDiffLaunch(r, launched)
    \/ \E isError, force \in BOOLEAN : RecordPreMergeValidation(r, isError, force)
    \/ PrepareReviewFileForLaunch(r)

DecisionStep ==
    \/ \E r \in RecordIds, text \in DecisionTexts : RecordDecision(r, text)
    \/ \E f \in Files, word \in {"accepted", "rejected"} : DecideLastStaged(f, word)

ServiceStep ==
    \/ \E f \in Files : CandidateStep(f) \/ MarkIndexFresh(f)
    \/ \E r \in RecordIds : ReviewStep(r)
    \/ DecisionStep

OutsideStep ==
    \E f \in Files :
        \/ \E c \in Contents \cup {Absent} : OperatorSaves(f, c)
        \/ \E c \in Contents : AgentEditsWorkingFile(f, c)

Next == ServiceStep \/ OutsideStep

Spec == Init /\ [][Next]_vars

-----------------------------------------------------------------------------
(* Properties *)

\* Every stored value is one the service can have written.
TypeOK ==
    /\ watched \in [Files -> Contents \cup {Absent}]
    /\ working \in [Files -> Contents \cup {Absent}]
    /\ manifest \in [Files -> Manifest \cup {NoSession}]
    /\ records \in [RecordIds -> Record \cup {NoRecord}]
    /\ operatorSaved \in [Files -> BOOLEAN]
    /\ saves \in BOOLEAN

\* A record that can still be launched or decided is the newest one of its
\* file, and a manifest that names a record names the newest one: an old
\* candidate is never accepted in the place of the current one.
ActiveIsNewest ==
    \A r, q \in RecordIds :
        r < q /\ records[q].status # "none" /\ records[r].file = records[q].file
            => ~Active(r) /\ manifest[records[r].file].lastStaged # r

\* An accepted record carries the evidence an accept asks for, for good: no
\* later launch, validation or decision takes it away.
AcceptedWasReviewed ==
    \A r \in RecordIds : Accepted(r) => Reviewed(records[r])

\* The text a record changes: what its file held when it was staged.
BaseText(rec) == IF rec.isNew THEN EmptyText ELSE rec.orig.text

\* A change of text is accepted only if the operator saved the watched file
\* after the change was staged: placeholders, refreshes and other records of
\* the file never make it look saved.
AcceptedWasSaved ==
    [][\A r \in RecordIds :
         /\ ~Accepted(r) /\ Accepted(r)'
         /\ records[r].staged.text # BaseText(records[r])
         => operatorSaved[records[r].file]]_vars

\* After an accept, and until its file is captured again, edits and staging
\* are shut, and no record of the file is left that another decision could
\* use to open them.
AcceptShutsGate ==
    \A f \in Files :
        manifest[f].open =>
            /\ \A r \in RecordIds :
                 manifest[f].lastStaged = r /\ Accepted(r) => manifest[f].requiresRefresh
            /\ manifest[f].requiresRefresh =>
                 \A r \in RecordIds : records[r].status # "none" /\ records[r].file = f
                                        => ~Active(r)

\* The gate that an accept shut opens only on a manifest that has captured
\* the watched file as it is at that moment.
GateOpensOnCapture ==
    [][\A f \in Files :
         manifest[f].open /\ manifest[f].requiresRefresh =>
            \/ manifest'[f].requiresRefresh
            \/ manifest'[f].orig = watched'[f]
            \/ manifest'[f].isNew /\ watched'[f] = Absent]_vars

\* A record as the person who reviews knows it.
ProposalOf(r) ==
    IF records[r].status = "none"
    THEN [phase |-> "none"]
    ELSE [phase |-> IF Active(r) THEN "open"
                    ELSE IF Accepted(r) THEN "approved" ELSE "closed",
          file |-> records[r].file, content |-> records[r].staged,
          isNew |-> records[r].isNew, ready |-> Reviewed(records[r])]

Gate == INSTANCE ReviewGate
            WITH Ids <- RecordIds,
                 source <- watched,
                 proposals <- [r \in RecordIds |-> ProposalOf(r)]

\* The service keeps the promise of ReviewGate: no call of it writes watched
\* source, but for a placeholder it puts where no file is or takes away empty,
\* and what it does to records is what the reviewer may rely on.
KeepsReviewGate == Gate!Spec
=============================================================================
