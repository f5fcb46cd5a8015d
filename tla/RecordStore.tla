---------------------------- MODULE RecordStore ----------------------------
(***************************************************************************)
(* The calls of WorkflowEditService on one watched file, taken apart where *)
(* they read and write the runtime folder.  CLI, MCP server and app are    *)
(* processes of their own, so calls overlap; a call may also die anywhere, *)
(* by a crash, a sharing violation or the deadline of the manifest lock.   *)
(*                                                                         *)
(* Manifests are read and written under a lock file.  Staged records are   *)
(* not: a call loads a record, checks it, and later writes all of it back. *)
(*                                                                         *)
(* Left out: contents (a staged text is known by the id of its record),    *)
(* Working files, the index flag, decision strings with blanks, new files. *)
(* EditWorkflow has them, with calls as atomic steps.                      *)
(***************************************************************************)
EXTENDS Naturals

CONSTANTS
    Callers,       \* calls that can be under way at the same time
    MaxRecords,    \* bound: how many times a behaviour stages
    Nobody         \* stands for a free lock

RecordIds == 1..MaxRecords

ASSUME StoreAssumption == MaxRecords \in Nat \ {0} /\ Nobody \notin Callers

VARIABLES
    disk,        \* id |-> StagedEditRecord file, or NoRecord
    manifest,    \* the EditSessionManifest file, or NoSession
    lock,        \* who holds the manifest's lock file open, or Nobody
    source,      \* what the watched file holds: 0 at first, or the text of a record
    call,        \* caller |-> where its call is and what it has read
    alone        \* history: two calls were never under way at the same time

vars == <<disk, manifest, lock, source, call, alone>>

NoRecord == [status |-> "none"]

\* `validated` is a validation that passed or whose failure was overridden;
\* "rejected" stands for any decision but an accept.
Record == [status : {"staged", "superseded", "accepted", "rejected"},
           launched : BOOLEAN, validated : BOOLEAN]

NewRecord == [status |-> "staged", launched |-> FALSE, validated |-> FALSE]

NoSession == [open |-> FALSE]

Sources == {0} \cup RecordIds

Manifest == [open : {TRUE}, orig : Sources, requiresRefresh : BOOLEAN,
             lastStaged : {0} \cup RecordIds]

Idle == [at |-> "idle"]

Call ==
    {Idle}
    \cup [at : {"refresh", "list", "saveManifest", "flags"}, m : Manifest]
    \cup (UNION {[at : {"supersede"}, m : Manifest, seen : [S -> Record]] : S \in SUBSET RecordIds})
    \cup [at : {"review", "accept", "reject"}, r : RecordIds, rec : Record]
    \cup [at : {"waitFlags"}, accepted : BOOLEAN]

Init ==
    /\ disk = [r \in RecordIds |-> NoRecord]
    /\ manifest = NoSession
    /\ lock = Nobody
    /\ source = 0
    /\ call = [c \in Callers |-> Idle]
    /\ alone = TRUE

-----------------------------------------------------------------------------
\* Fault: a superseded record passes for one that can be decided.
NotAcceptedOrRejected(rec) == rec.status \in {"staged", "superseded"}

\* EnsureRecordNotDecided passes.
NotDecided(rec) == rec.status = "staged"

\* The call of c is at its next step; no other is under way, if calls are alone.
Goes(c, state) ==
    /\ call' = [call EXCEPT ![c] = state]
    /\ alone' = (alone /\ (state # Idle => \A d \in Callers \ {c} : call[d] = Idle))

\* AcquireManifestLock on a free lock file.
Acquire(c) == lock = Nobody /\ lock' = c

\* The lock file is closed, by Dispose or with the process.
Release(c) == lock' = IF lock = c THEN Nobody ELSE lock

Holds(c) == lock = c

-----------------------------------------------------------------------------
(* Refresh *)

BeginRefresh(c) ==
    /\ call[c] = Idle
    /\ Acquire(c)
    /\ Goes(c, [at |-> "refresh",
                m |-> [open |-> TRUE, orig |-> source, requiresRefresh |-> FALSE,
                       lastStaged |-> 0]])
    /\ UNCHANGED <<disk, manifest, source>>

\* SaveManifest, the last step of the calls that hold the lock.
SaveManifest(c) ==
    /\ call[c].at \in {"refresh", "saveManifest", "flags"}
    /\ manifest' = call[c].m
    /\ Release(c)
    /\ Goes(c, Idle)
    /\ UNCHANGED <<disk, source>>

-----------------------------------------------------------------------------
(* Stage *)

\* The bound on staging.
RoomToStage == \E r \in RecordIds : disk[r] = NoRecord

\* Fault: Stage does its work without the lock.
BeginStageUnlocked(c) ==
    /\ call[c] = Idle
    /\ UNCHANGED lock
    /\ manifest.open
    /\ ~manifest.requiresRefresh
    /\ source = manifest.orig
    /\ RoomToStage
    /\ Goes(c, [at |-> "list", m |-> manifest])
    /\ UNCHANGED <<disk, manifest, source>>

\* The manifest is read once, and written back when the record is saved.
BeginStage(c) ==
    /\ call[c] = Idle
    /\ Acquire(c)
    /\ manifest.open
    /\ ~manifest.requiresRefresh
    /\ source = manifest.orig
    /\ RoomToStage
    /\ Goes(c, [at |-> "list", m |-> manifest])
    /\ UNCHANGED <<disk, manifest, source>>

\* Fault: every id is superseded, used or not.
ListIds(c) ==
    /\ call[c].at = "list"
    /\ Goes(c, [at |-> "supersede", m |-> call[c].m, seen |-> disk])
    /\ UNCHANGED <<disk, manifest, lock, source>>

\* Fault: decided records are superseded with the others.
ListStored(c) ==
    /\ call[c].at = "list"
    /\ LET stored == {r \in RecordIds : disk[r] # NoRecord}
       IN  Goes(c, [at |-> "supersede", m |-> call[c].m,
                    seen |-> [r \in stored |-> disk[r]]])
    /\ UNCHANGED <<disk, manifest, lock, source>>

\* SupersedeActiveRecordsForFile reads every record before it writes any.
ListActive(c) ==
    /\ call[c].at = "list"
    /\ LET active == {r \in RecordIds : NotDecided(disk[r])}
       IN  Goes(c, [at |-> "supersede", m |-> call[c].m,
                    seen |-> [r \in active |-> disk[r]]])
    /\ UNCHANGED <<disk, manifest, lock, source>>

SupersedeNext(c, r) ==
    /\ call[c].at = "supersede"
    /\ r \in DOMAIN call[c].seen
    /\ disk' = [disk EXCEPT ![r] = [call[c].seen[r] EXCEPT !.status = "superseded"]]
    /\ Goes(c, [call[c] EXCEPT !.seen = [q \in DOMAIN @ \ {r} |-> @[q]]])
    /\ UNCHANGED <<manifest, lock, source>>

SupersededAll(c) == call[c].at = "supersede" /\ DOMAIN call[c].seen = {}

\* Fault: the manifest names the record before the record is there.
SaveNewRecordLast(c) ==
    /\ SupersededAll(c)
    /\ \E r \in RecordIds :
         /\ disk[r] = NoRecord
         /\ \A q \in RecordIds : q < r => disk[q] # NoRecord
         /\ manifest' = [call[c].m EXCEPT !.lastStaged = r]
         /\ Goes(c, [at |-> "saveManifest", m |-> manifest'])
    /\ UNCHANGED <<disk, lock, source>>

\* Ids grow with the time of staging.
SaveNewRecord(c) ==
    /\ SupersededAll(c)
    /\ \E r \in RecordIds :
         /\ disk[r] = NoRecord
         /\ \A q \in RecordIds : q < r => disk[q] # NoRecord
         /\ disk' = [disk EXCEPT ![r] = NewRecord]
         /\ Goes(c, [at |-> "saveManifest", m |-> [call[c].m EXCEPT !.lastStaged = r]])
    /\ UNCHANGED <<manifest, lock, source>>

-----------------------------------------------------------------------------
(* Launch and validation: load and check, then save the whole record *)

\* What RecordDiffLaunch, RecordPreMergeValidation and PrepareReviewFileForLaunch
\* make of the record they loaded.
ReviewOutcomes(rec) ==
    {[rec EXCEPT !.launched = b] : b \in BOOLEAN}
        \cup {[rec EXCEPT !.validated = b] : b \in BOOLEAN}
        \cup {rec}

LoadForReview(c, r) ==
    /\ call[c] = Idle
    /\ NotDecided(disk[r])
    /\ \E new \in ReviewOutcomes(disk[r]) : Goes(c, [at |-> "review", r |-> r, rec |-> new])
    /\ UNCHANGED <<disk, manifest, lock, source>>

SaveReview(c) ==
    /\ call[c].at = "review"
    /\ disk' = [disk EXCEPT ![call[c].r] = call[c].rec]
    /\ Goes(c, Idle)
    /\ UNCHANGED <<manifest, lock, source>>

-----------------------------------------------------------------------------
(* RecordDecision *)

\* An accept asks the loaded record for its evidence.
LoadForDecision(c, r, word) ==
    /\ call[c] = Idle
    /\ NotDecided(disk[r])
    /\ word = "accept" => disk[r].launched /\ disk[r].validated
    /\ Goes(c, [at |-> word, r |-> r, rec |-> disk[r]])
    /\ UNCHANGED <<disk, manifest, lock, source>>

\* Fault: the decision is set on the record as it is on disk by now.
MergeDecision(c, status) ==
    disk' = [disk EXCEPT ![call[c].r] = [@ EXCEPT !.status = status]]

\* SaveStagedRecord of the record that was loaded, with the decision in it.
WriteDecision(c, status) ==
    disk' = [disk EXCEPT ![call[c].r] = [call[c].rec EXCEPT !.status = status]]

\* The classifier compares the watched file with the staged text.
SaveDecision(c) ==
    /\ \/ /\ call[c].at = "accept"
          /\ source = call[c].r
          /\ WriteDecision(c, "accepted")
       \/ /\ call[c].at = "reject"
          /\ WriteDecision(c, "rejected")
    /\ Goes(c, [at |-> "waitFlags", accepted |-> call[c].at = "accept"])
    /\ UNCHANGED <<manifest, lock, source>>

\* "Cannot accept because the watched source does not match": nothing is saved.
RefuseAccept(c) ==
    /\ call[c].at = "accept"
    /\ source # call[c].r
    /\ Goes(c, Idle)
    /\ UNCHANGED <<disk, manifest, lock, source>>

LockForFlags(c) ==
    /\ call[c].at = "waitFlags"
    /\ manifest.open
    /\ Acquire(c)
    /\ Goes(c, [at |-> "flags",
                m |-> [manifest EXCEPT !.requiresRefresh = call[c].accepted]])
    /\ UNCHANGED <<disk, manifest, source>>

\* After ten seconds AcquireManifestLock throws: the decision is on disk, its
\* flags are not.
LockDeadline(c) ==
    /\ call[c].at = "waitFlags"
    /\ Goes(c, Idle)
    /\ UNCHANGED <<disk, manifest, lock, source>>

-----------------------------------------------------------------------------
\* The process dies, or a read or write of a file fails.
Fail(c) ==
    /\ call[c] # Idle
    /\ Release(c)
    /\ Goes(c, Idle)
    /\ UNCHANGED <<disk, manifest, source>>

\* The operator saves the text of a staged record, or puts the first text back.
OperatorSaves(s) ==
    /\ s # source
    /\ s # 0 => disk[s] # NoRecord
    /\ source' = s
    /\ UNCHANGED <<disk, manifest, lock, call, alone>>

-----------------------------------------------------------------------------
Begin(c) ==
    \/ BeginRefresh(c)
    \/ BeginStage(c)
    \/ \E r \in RecordIds :
         \/ LoadForReview(c, r)
         \/ \E word \in {"accept", "reject"} : LoadForDecision(c, r, word)

Proceed(c) ==
    \/ SaveManifest(c)
    \/ ListActive(c) \/ SaveNewRecord(c)
    \/ \E r \in RecordIds : SupersedeNext(c, r)
    \/ SaveReview(c)
    \/ SaveDecision(c) \/ RefuseAccept(c)
    \/ LockForFlags(c) \/ LockDeadline(c)

Next ==
    \/ \E c \in Callers : Begin(c) \/ Proceed(c) \/ Fail(c)
    \/ \E s \in Sources : OperatorSaves(s)

Spec == Init /\ [][Next]_vars
-----------------------------------------------------------------------------
(* Properties *)

\* The files and the calls hold what the code can have put there.
TypeOK ==
    /\ disk \in [RecordIds -> Record \cup {NoRecord}]
    /\ manifest \in Manifest \cup {NoSession}
    /\ lock \in Callers \cup {Nobody}
    /\ source \in Sources
    /\ \A c \in Callers : call[c] \in Call
    /\ alone \in BOOLEAN

\* An accepted record was validated and launched, by what the record itself
\* says, whatever other calls wrote over it while it was being decided: a save
\* writes back the record whose evidence was checked.
AcceptedHasEvidence ==
    \A r \in RecordIds :
        disk[r].status = "accepted" => disk[r].launched /\ disk[r].validated

\* A manifest never names a record that was not written, wherever a Stage died.
ManifestNamesStoredRecord ==
    manifest.open /\ manifest.lastStaged # 0 => disk[manifest.lastStaged] # NoRecord

\* The manifest that a Stage read at its start and writes at its end does not
\* undo what another call wrote between: only a refresh or a decision opens
\* the gate of an accept.
StageKeepsGate ==
    [][manifest.open /\ manifest.requiresRefresh /\ ~manifest'.requiresRefresh
         => \E c \in Callers : call[c].at \in {"refresh", "flags"} /\ call'[c] = Idle]_vars

\* A record of which a newer one is stored becomes accepted.
AcceptsOldRecord ==
    \E r, q \in RecordIds :
        /\ r < q
        /\ disk[q] # NoRecord
        /\ disk[r].status # "accepted"
        /\ disk'[r].status = "accepted"

\* As long as calls come one at a time, any of which may die half-way: an old
\* record is not accepted, and what is decided or superseded stays so.
AloneOldRecordIsShut == [][alone' => ~AcceptsOldRecord]_vars

AloneDecisionsStick ==
    [][alone' =>
         \A r \in RecordIds :
            disk[r].status \in {"superseded", "accepted", "rejected"}
                => disk'[r].status = disk[r].status]_vars

\* When no call is under way, the session whose last record was accepted
\* asks for a refresh.
AcceptedRequiresRefresh ==
    /\ \A c \in Callers : call[c] = Idle
    /\ manifest.open
    /\ manifest.lastStaged # 0
    /\ disk[manifest.lastStaged].status = "accepted"
    => manifest.requiresRefresh
=============================================================================
