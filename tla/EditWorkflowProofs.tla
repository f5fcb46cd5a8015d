------------------------- MODULE EditWorkflowProofs -------------------------
(***************************************************************************)
(* Proofs about EditWorkflow for any files, contents, decision strings and *)
(* number of records.  The inductive invariant is IInv; each of its parts  *)
(* is one reason why an old record cannot stand in for the current one.    *)
(***************************************************************************)
EXTENDS EditWorkflow, TLAPS

Exists(r) == records[r].status # "none"

\* Ids are given out in order.
IdsInOrder ==
    \A q, r \in RecordIds : q < r /\ Exists(r) => Exists(q)

\* The record a manifest names is a record of that file.
LastStagedIsOwn ==
    \A f \in Files :
        manifest[f].open /\ manifest[f].lastStaged # 0 =>
            /\ Exists(manifest[f].lastStaged)
            /\ records[manifest[f].lastStaged].file = f

\* As long as the operator has not saved the file of an open record, the file
\* is as it was when the record was staged, a placeholder aside.
UnsavedIsBaseline ==
    \A r \in RecordIds :
        Active(r) /\ ~operatorSaved[records[r].file] =>
            IF records[r].isNew
            THEN watched[records[r].file] \in {Absent, Blank}
            ELSE watched[records[r].file] = records[r].orig

IInv ==
    /\ TypeOK
    /\ IdsInOrder
    /\ LastStagedIsOwn
    /\ ActiveIsNewest
    /\ AcceptedWasReviewed
    /\ AcceptShutsGate
    /\ UnsavedIsBaseline

-----------------------------------------------------------------------------
(* Facts about the operators *)

LEMMA CandidateTextType ==
    ASSUME NEW c \in Contents, NEW d \in Contents \cup {Absent}
    PROVE  CandidateText(c, d) \in Contents
BY RewriteAssumption

\* What a classification can be.
LEMMA ClassifyRange ==
    ASSUME NEW rec, NEW word, NEW reviewed
    PROVE  Classify(rec, word, reviewed)
             \in AcceptedStatus \cup {"rejected", "dirty-unexpected"}
BY DEF Classify, AcceptedStatus

\* An accepting classification means that the reviewed file holds the text.
LEMMA ClassifyAccepted ==
    ASSUME NEW rec, NEW word, NEW reviewed,
           rec.staged # Absent,
           Classify(rec, word, reviewed) \in AcceptedStatus
    PROVE  /\ word = "accepted"
           /\ reviewed # Absent
           /\ SameText(reviewed, rec.staged)
BY DEF Classify, AcceptedStatus, SameText

\* A record that exists is a Record.
LEMMA ExistingRecord ==
    ASSUME TypeOK, NEW r \in RecordIds, Exists(r)
    PROVE  records[r] \in Record
BY DEF TypeOK, Exists, NoRecord

\* An open session is a Manifest.
LEMMA OpenManifest ==
    ASSUME TypeOK, NEW f \in Files, manifest[f].open
    PROVE  manifest[f] \in Manifest
BY DEF TypeOK, NoSession

\* A file has at most one record that can still be decided.
LEMMA OneActive ==
    ASSUME TypeOK, ActiveIsNewest, NEW r \in RecordIds, NEW q \in RecordIds,
           Active(r), Active(q), records[r].file = records[q].file
    PROVE  r = q
<1>1. r \in Nat /\ q \in Nat
  BY BoundAssumption DEF RecordIds
<1>2. ~(r < q) /\ ~(q < r)
  BY DEF ActiveIsNewest, Active
<1> QED BY <1>1, <1>2

-----------------------------------------------------------------------------
(* The inductive invariant *)

LEMMA InitIInv == Init => IInv
<1> SUFFICES ASSUME Init PROVE IInv
  OBVIOUS
<1>1. TypeOK
  BY DEF Init, TypeOK
<1>2. \A r \in RecordIds : ~Exists(r) /\ ~Active(r) /\ ~Accepted(r)
  BY DEF Init, Exists, Active, Accepted, AcceptedStatus, NoRecord
<1>3. \A f \in Files : ~manifest[f].open
  BY DEF Init, NoSession
<1> QED
  BY <1>1, <1>2, <1>3 DEF IInv, IdsInOrder, LastStagedIsOwn, ActiveIsNewest,
     AcceptedWasReviewed, AcceptShutsGate, UnsavedIsBaseline, Exists

\* A step that changes nothing but Working files.
LEMMA WorkingStep ==
    ASSUME IInv, NEW f \in Files, NEW c \in Contents,
           working' = [working EXCEPT ![f] = c],
           UNCHANGED <<watched, manifest, records, operatorSaved, saves>>
    PROVE  IInv'
<1>1. TypeOK'
  BY DEF IInv, TypeOK
<1> QED
  BY <1>1 DEF IInv, IdsInOrder, LastStagedIsOwn, ActiveIsNewest,
     AcceptedWasReviewed, AcceptShutsGate, UnsavedIsBaseline, Exists, Active,
     IsDecided, Accepted

\* A step that gives a file a new manifest that names no record.
LEMMA CaptureStep ==
    ASSUME IInv, NEW f \in Files, NEW c \in Contents, NEW m \in Manifest,
           m.lastStaged = 0, ~m.requiresRefresh,
           working' = [working EXCEPT ![f] = c],
           manifest' = [manifest EXCEPT ![f] = m],
           UNCHANGED <<watched, records, operatorSaved, saves>>
    PROVE  IInv'
<1>1. TypeOK'
  BY DEF IInv, TypeOK
<1>2. \A r \in RecordIds : r # 0
  BY BoundAssumption DEF RecordIds
<1>3. \A g \in Files : manifest'[g] = IF g = f THEN m ELSE manifest[g]
  BY DEF IInv, TypeOK
<1>4. \A r \in RecordIds : /\ Active(r)' <=> Active(r)
                           /\ Accepted(r)' <=> Accepted(r)
                           /\ Exists(r)' <=> Exists(r)
  BY DEF Active, Accepted, IsDecided, Exists
<1>5. \A r \in RecordIds : Exists(r) => records[r].file \in Files
  BY ExistingRecord DEF IInv, Record
<1>6. (IdsInOrder /\ AcceptedWasReviewed /\ UnsavedIsBaseline)'
  BY <1>4 DEF IInv, IdsInOrder, AcceptedWasReviewed, UnsavedIsBaseline
<1>7. LastStagedIsOwn'
  BY <1>3 DEF IInv, LastStagedIsOwn, Exists
<1>8. ActiveIsNewest'
  BY <1>2, <1>3, <1>4 DEF IInv, ActiveIsNewest, TypeOK
<1>9. AcceptShutsGate'
  BY <1>2, <1>3, <1>4 DEF IInv, AcceptShutsGate
<1> QED
  BY <1>1, <1>6, <1>7, <1>8, <1>9 DEF IInv

\* A step that changes only what a record says of its review.
LEMMA ReviewedStep ==
    ASSUME IInv, NEW r \in RecordIds, Active(r), NEW rec \in Record,
           rec.status = records[r].status, rec.decision = records[r].decision,
           rec.file = records[r].file, rec.isNew = records[r].isNew,
           rec.orig = records[r].orig, records' = [records EXCEPT ![r] = rec],
           UNCHANGED <<watched, working, manifest, operatorSaved, saves>>
    PROVE  IInv'
<1>1. TypeOK'
  BY DEF IInv, TypeOK
<1>2. \A q \in RecordIds : records'[q] = IF q = r THEN rec ELSE records[q]
  BY DEF IInv, TypeOK
<1>3. \A q \in RecordIds : /\ records'[q].status = records[q].status
                           /\ records'[q].file = records[q].file
                           /\ records'[q].isNew = records[q].isNew
                           /\ records'[q].orig = records[q].orig
                           /\ records'[q].decision = records[q].decision
  BY <1>2
<1>4. \A q \in RecordIds : /\ Active(q)' <=> Active(q)
                           /\ Accepted(q)' <=> Accepted(q)
                           /\ Exists(q)' <=> Exists(q)
  BY <1>3 DEF Active, Accepted, IsDecided, Exists
<1>5. ~Accepted(r)
  BY DEF Active, Accepted, IsDecided, TerminalStatus
<1>6. AcceptedWasReviewed'
  BY <1>2, <1>4, <1>5 DEF IInv, AcceptedWasReviewed, Reviewed
<1>7. (IdsInOrder /\ LastStagedIsOwn)'
  BY <1>3, OpenManifest DEF IInv, IdsInOrder, LastStagedIsOwn, Exists, Manifest
<1>8. ActiveIsNewest'
  BY <1>3, <1>4 DEF IInv, ActiveIsNewest
<1>9. AcceptShutsGate'
  BY <1>3, <1>4 DEF IInv, AcceptShutsGate
<1>10. UnsavedIsBaseline'
  BY <1>3, <1>4 DEF IInv, UnsavedIsBaseline
<1> QED
  BY <1>1, <1>6, <1>7, <1>8, <1>9, <1>10 DEF IInv

LEMMA PrepareStep ==
    ASSUME IInv, NEW r \in RecordIds, PrepareReviewFileForLaunch(r)
    PROVE  IInv'
<1> DEFINE f == records[r].file
<1>1. f \in Files /\ records[r].isNew /\ Active(r)
  BY ExistingRecord DEF IInv, PrepareReviewFileForLaunch, Active, Exists, Record
<1>2. \A g \in Files : watched'[g] = IF g = f THEN Blank ELSE watched[g]
  BY <1>1 DEF IInv, TypeOK, PrepareReviewFileForLaunch
<1>3. TypeOK'
  BY <1>1, ContentAssumption DEF IInv, TypeOK, PrepareReviewFileForLaunch
<1>4. \A q \in RecordIds : /\ Active(q)' <=> Active(q)
                           /\ Accepted(q)' <=> Accepted(q)
                           /\ Exists(q)' <=> Exists(q)
  BY DEF PrepareReviewFileForLaunch, Active, Accepted, IsDecided, Exists
<1>5. \A q \in RecordIds : Active(q) => records[q].file \in Files
  BY ExistingRecord DEF IInv, Active, Exists, Record
<1>6. UnsavedIsBaseline'
  <2> SUFFICES ASSUME NEW q \in RecordIds, Active(q), ~operatorSaved[records[q].file]
               PROVE  IF records[q].isNew
                      THEN watched'[records[q].file] \in {Absent, Blank}
                      ELSE watched'[records[q].file] = records[q].orig
    BY <1>4 DEF UnsavedIsBaseline, PrepareReviewFileForLaunch
  <2>1. CASE records[q].file = f
    BY <2>1, <1>1, <1>2, OneActive DEF IInv
  <2>2. CASE records[q].file # f
    BY <2>2, <1>2, <1>5 DEF IInv, UnsavedIsBaseline
  <2> QED BY <2>1, <2>2
<1>7. (IdsInOrder /\ LastStagedIsOwn /\ ActiveIsNewest /\ AcceptedWasReviewed /\ AcceptShutsGate)'
  BY <1>4 DEF IInv, IdsInOrder, LastStagedIsOwn, ActiveIsNewest, AcceptedWasReviewed,
     AcceptShutsGate, Exists, PrepareReviewFileForLaunch
<1> QED
  BY <1>3, <1>6, <1>7 DEF IInv

LEMMA OperatorStep ==
    ASSUME IInv, NEW f \in Files, NEW c \in Contents \cup {Absent}, OperatorSaves(f, c)
    PROVE  IInv'
<1>1. TypeOK'
  BY DEF IInv, TypeOK, OperatorSaves
<1>2. \A q \in RecordIds : /\ Active(q)' <=> Active(q)
                           /\ Accepted(q)' <=> Accepted(q)
                           /\ Exists(q)' <=> Exists(q)
  BY DEF OperatorSaves, Active, Accepted, IsDecided, Exists
<1>3. \A q \in RecordIds : Active(q) => records[q].file \in Files
  BY ExistingRecord DEF IInv, Active, Exists, Record
<1>4. UnsavedIsBaseline'
  BY <1>2, <1>3 DEF IInv, TypeOK, UnsavedIsBaseline, OperatorSaves
<1>5. (IdsInOrder /\ LastStagedIsOwn /\ ActiveIsNewest /\ AcceptedWasReviewed /\ AcceptShutsGate)'
  BY <1>2 DEF IInv, IdsInOrder, LastStagedIsOwn, ActiveIsNewest, AcceptedWasReviewed,
     AcceptShutsGate, Exists, OperatorSaves
<1> QED
  BY <1>1, <1>4, <1>5 DEF IInv

LEMMA FreshStep ==
    ASSUME IInv, NEW f \in Files, MarkIndexFresh(f)
    PROVE  IInv'
<1>1. manifest[f] \in Manifest
  BY OpenManifest DEF IInv, MarkIndexFresh
<1>2. \A g \in Files : /\ manifest'[g].open = manifest[g].open
                       /\ manifest[g].open =>
                            /\ manifest'[g].lastStaged = manifest[g].lastStaged
                            /\ manifest'[g].requiresRefresh = manifest[g].requiresRefresh
  BY <1>1 DEF IInv, TypeOK, MarkIndexFresh, Manifest
<1>3. TypeOK'
  BY <1>1 DEF IInv, TypeOK, MarkIndexFresh, Manifest
<1>4. \A q \in RecordIds : /\ Active(q)' <=> Active(q)
                           /\ Accepted(q)' <=> Accepted(q)
                           /\ Exists(q)' <=> Exists(q)
  BY DEF MarkIndexFresh, Active, Accepted, IsDecided, Exists
<1>5. (IdsInOrder /\ AcceptedWasReviewed /\ UnsavedIsBaseline)'
  BY <1>4 DEF IInv, IdsInOrder, AcceptedWasReviewed, UnsavedIsBaseline, MarkIndexFresh
<1>6. (LastStagedIsOwn /\ AcceptShutsGate)'
  BY <1>2, <1>4 DEF IInv, LastStagedIsOwn, AcceptShutsGate, Exists, MarkIndexFresh
<1>7. \A r \in RecordIds, g \in Files :
         r # 0 /\ manifest'[g].lastStaged = r => manifest[g].lastStaged = r
  BY <1>1 DEF IInv, TypeOK, MarkIndexFresh, Manifest
<1>8. ActiveIsNewest'
  BY <1>4, <1>7, ExistingRecord, BoundAssumption
  DEF IInv, ActiveIsNewest, Exists, Record, RecordIds, MarkIndexFresh
<1> QED
  BY <1>3, <1>5, <1>6, <1>8 DEF IInv

LEMMA StageStep ==
    ASSUME IInv, NEW f \in Files, Stage(f)
    PROVE  IInv'
<1>1. PICK r \in RecordIds :
        /\ IsNextId(r)
        /\ records' = [SupersedeActiveRecordsForFile(f) EXCEPT ![r] =
             [file |-> f, isNew |-> manifest[f].isNew, orig |-> manifest[f].orig,
              staged |-> working[f], launched |-> FALSE, validation |-> "none",
              decision |-> Undecided, status |-> "staged"]]
        /\ manifest' = [manifest EXCEPT ![f].lastStaged = r]
  BY DEF Stage
<1>2. manifest[f] \in Manifest
  BY OpenManifest DEF IInv, Stage, SessionCanEdit
<1>3. r \in Nat /\ \A q \in RecordIds : q \in Nat /\ q # 0
  BY BoundAssumption DEF RecordIds
\* The new record is the last one, and the only active one of its file.
<1>4. \A q \in RecordIds : /\ q < r => Exists(q)
                           /\ ~(q < r) => ~Exists(q)
  BY <1>1, <1>3 DEF IInv, IdsInOrder, IsNextId, Exists
<1>5. \A q \in RecordIds : q # r =>
        records'[q] = IF Active(q) /\ records[q].file = f
                      THEN [records[q] EXCEPT !.status = "superseded"]
                      ELSE records[q]
  BY <1>1 DEF SupersedeActiveRecordsForFile
<1>6. /\ records'[r].file = f
      /\ records'[r].isNew = manifest[f].isNew
      /\ records'[r].orig = manifest[f].orig
      /\ records'[r].status = "staged"
  BY <1>1 DEF SupersedeActiveRecordsForFile
<1>7. \A q \in RecordIds : q # r =>
        /\ Exists(q)' <=> Exists(q)
        /\ Accepted(q)' <=> Accepted(q)
        /\ Active(q)' <=> Active(q) /\ records[q].file # f
  <2> SUFFICES ASSUME NEW q \in RecordIds, q # r
               PROVE  /\ Exists(q)' <=> Exists(q)
                      /\ Accepted(q)' <=> Accepted(q)
                      /\ Active(q)' <=> Active(q) /\ records[q].file # f
    OBVIOUS
  <2>1. CASE Active(q) /\ records[q].file = f
    <3>1. records[q] \in Record
      BY <2>1, ExistingRecord DEF IInv, Active, Exists
    <3>2. records'[q].status = "superseded"
      BY <2>1, <1>5, <3>1 DEF Record
    <3> QED
      BY <2>1, <3>2 DEF Exists, Accepted, AcceptedStatus, Active, IsDecided, TerminalStatus
  <2>2. CASE ~(Active(q) /\ records[q].file = f)
    BY <2>2, <1>5 DEF Exists, Accepted, Active, IsDecided
  <2> QED BY <2>1, <2>2
<1>8. \A q \in RecordIds : q # r /\ Exists(q) =>
        /\ records'[q].file = records[q].file
        /\ records'[q].isNew = records[q].isNew
        /\ records'[q].orig = records[q].orig
        /\ records'[q].launched = records[q].launched
        /\ records'[q].validation = records[q].validation
        /\ records'[q] \in Record
  <2> SUFFICES ASSUME NEW q \in RecordIds, q # r, Exists(q)
               PROVE  /\ records'[q].file = records[q].file
                      /\ records'[q].isNew = records[q].isNew
                      /\ records'[q].orig = records[q].orig
                      /\ records'[q].launched = records[q].launched
                      /\ records'[q].validation = records[q].validation
                      /\ records'[q] \in Record
    OBVIOUS
  <2>1. records[q] \in Record
    BY ExistingRecord DEF IInv
  <2>2. records'[q] \in {records[q], [records[q] EXCEPT !.status = "superseded"]}
    BY <1>5
  <2> QED
    BY <2>1, <2>2 DEF Record
<1>9. \A g \in Files : manifest'[g] = IF g = f
                                    THEN [manifest[f] EXCEPT !.lastStaged = r]
                                    ELSE manifest[g]
  BY <1>1 DEF IInv, TypeOK
<1>10. ~Accepted(r)' /\ Exists(r)'
  BY <1>6 DEF Accepted, AcceptedStatus, Exists
<1>11. TypeOK'
  <2>1. records' \in [RecordIds -> Record \cup {NoRecord}]
    <3>1. records'[r] \in Record
      BY <1>1, <1>2 DEF IInv, TypeOK, Stage, Record, Manifest, SupersedeActiveRecordsForFile
    <3>2. \A q \in RecordIds : q # r => records'[q] \in Record \cup {NoRecord}
      BY <1>5, <1>8 DEF IInv, TypeOK, Active, Exists
    <3>3. records' = [q \in RecordIds |-> records'[q]]
      BY <1>1 DEF SupersedeActiveRecordsForFile
    <3> QED BY <3>1, <3>2, <3>3
  <2>2. manifest' \in [Files -> Manifest \cup {NoSession}]
    BY <1>1, <1>2 DEF IInv, TypeOK, Manifest
  <2> QED
    BY <2>1, <2>2 DEF IInv, TypeOK, Stage
<1>12. IdsInOrder'
  BY <1>3, <1>4, <1>7, <1>10 DEF IInv, IdsInOrder
<1>13. LastStagedIsOwn'
  <2> SUFFICES ASSUME NEW g \in Files, manifest'[g].open, manifest'[g].lastStaged # 0
               PROVE  /\ Exists(manifest[g].lastStaged)'
                      /\ records'[manifest'[g].lastStaged].file = g
    BY DEF LastStagedIsOwn
  <2>1. CASE g = f
    <3>1. manifest'[g].lastStaged = r
      BY <2>1, <1>2, <1>9 DEF Manifest
    <3> QED BY <2>1, <3>1, <1>6 DEF Exists
  <2>2. CASE g # f
    <3> DEFINE q == manifest[g].lastStaged
    <3>1. manifest'[g] = manifest[g]
      BY <2>2, <1>9
    <3>2. Exists(q) /\ records[q].file = g /\ q \in RecordIds
      BY <3>1, OpenManifest DEF IInv, LastStagedIsOwn, Manifest
    <3>3. q # r
      BY <3>2, <1>3, <1>4
    <3>4. records'[q].file = g /\ records'[q].status # "none"
      BY <3>2, <3>3, <1>7, <1>8 DEF Exists
    <3> QED BY <3>1, <3>4 DEF Exists
  <2> QED BY <2>1, <2>2
<1>14. ActiveIsNewest'
  <2> SUFFICES ASSUME NEW p \in RecordIds, NEW q \in RecordIds,
                      p < q, Exists(q)', records'[p].file = records'[q].file
               PROVE  ~Active(p)' /\ manifest'[records'[p].file].lastStaged # p
    BY DEF ActiveIsNewest, Exists
  <2>1. p # r /\ Exists(p) /\ Exists(p)'
    BY <1>3, <1>4, <1>7, <1>10
  <2>2. CASE q = r
    <3>1. records'[p].file = f /\ records[p].file = f
      BY <2>1, <2>2, <1>6, <1>8
    <3>2. manifest'[f].lastStaged = r
      BY <1>2, <1>9 DEF Manifest
    <3> QED
      BY <2>1, <3>1, <3>2, <1>7
  <2>3. CASE q # r
    <3>1. Exists(q) /\ records[p].file = records[q].file
      BY <2>1, <2>3, <1>7, <1>8
    <3>2. ~Active(p) /\ manifest[records[p].file].lastStaged # p
      BY <3>1 DEF IInv, ActiveIsNewest, Exists
    <3>3. records[p].file \in Files
      BY <2>1, ExistingRecord DEF IInv, Record
    <3>4. ~Active(p)' /\ records'[p].file = records[p].file
      BY <2>1, <3>2, <1>7, <1>8
    <3>5. manifest'[records[p].file].lastStaged \in {r, manifest[records[p].file].lastStaged}
      BY <3>3, <1>2, <1>9 DEF Manifest
    <3> QED
      BY <2>1, <3>2, <3>4, <3>5
  <2> QED BY <2>2, <2>3
<1>15. AcceptedWasReviewed'
  <2> SUFFICES ASSUME NEW q \in RecordIds, Accepted(q)' PROVE Reviewed(records[q])'
    BY DEF AcceptedWasReviewed
  <2>1. q # r /\ Accepted(q)
    BY <1>7, <1>10
  <2>2. Exists(q) /\ Reviewed(records[q])
    BY <2>1 DEF IInv, AcceptedWasReviewed, Accepted, AcceptedStatus, Exists
  <2> QED
    BY <2>1, <2>2, <1>8 DEF Reviewed
<1>16. AcceptShutsGate'
  <2> SUFFICES ASSUME NEW g \in Files, manifest'[g].open
               PROVE  /\ \A q \in RecordIds : manifest'[g].lastStaged = q /\ Accepted(q)'
                                               => manifest'[g].requiresRefresh
                      /\ manifest'[g].requiresRefresh =>
                           \A q \in RecordIds : Exists(q)' /\ records'[q].file = g
                                                  => ~Active(q)'
    BY DEF AcceptShutsGate, Exists
  <2>1. CASE g = f
    BY <2>1, <1>2, <1>9, <1>10 DEF Stage, SessionCanEdit, Manifest
  <2>2. CASE g # f
    BY <2>2, <1>6, <1>7, <1>8, <1>9, <1>10 DEF IInv, AcceptShutsGate, Exists
  <2> QED BY <2>1, <2>2
<1>17. UnsavedIsBaseline'
  <2> SUFFICES ASSUME NEW q \in RecordIds, Active(q)', ~operatorSaved'[records'[q].file]
               PROVE  IF records'[q].isNew
                      THEN watched'[records'[q].file] \in {Absent, Blank}
                      ELSE watched'[records'[q].file] = records'[q].orig
    BY DEF UnsavedIsBaseline
  <2>1. CASE q = r
    BY <2>1, <1>6 DEF Stage, BaselineHolds
  <2>2. CASE q # r
    <3>1. Active(q) /\ Exists(q) /\ records[q].file # f
      BY <2>2, <1>7 DEF Active, Exists
    <3>2. records'[q].file = records[q].file /\ records[q].file \in Files
      BY <2>2, <3>1, <1>8, ExistingRecord DEF IInv, Record
    <3>3. ~operatorSaved[records[q].file] /\ watched' = watched
      BY <3>1, <3>2 DEF IInv, TypeOK, Stage
    <3> QED
      BY <2>2, <3>1, <3>2, <3>3, <1>8 DEF IInv, UnsavedIsBaseline
  <2> QED BY <2>1, <2>2
<1> QED
  BY <1>11, <1>12, <1>13, <1>14, <1>15, <1>16, <1>17 DEF IInv

LEMMA DecisionStepIInv ==
    ASSUME IInv, NEW r \in RecordIds, NEW text \in DecisionTexts, RecordDecision(r, text)
    PROVE  IInv'
<1> DEFINE rec == records[r]
           f == rec.file
           class == Classify(rec, text.word, AfterDecision(rec, text.word))
<1>1. Active(r) /\ Exists(r) /\ rec \in Record /\ f \in Files
  BY ExistingRecord DEF IInv, RecordDecision, Active, Exists, Record
<1>2. class \in AcceptedStatus \cup {"rejected", "dirty-unexpected"}
  BY ClassifyRange
<1>3. class \in AcceptedStatus => text.word = "accepted" /\ Reviewed(rec)
  <2> SUFFICES ASSUME class \in AcceptedStatus PROVE text.word = "accepted" /\ Reviewed(rec)
    OBVIOUS
  <2>1. rec.staged # Absent
    BY <1>1, ContentAssumption DEF Record
  <2>2. text.word = "accepted"
    BY <2>1, ClassifyAccepted
  <2> QED
    BY <2>2 DEF RecordDecision
<1>4. \A q \in RecordIds :
        records'[q] = IF q = r THEN [rec EXCEPT !.decision = text, !.status = class]
                      ELSE records[q]
  BY DEF IInv, TypeOK, RecordDecision
<1>5. [rec EXCEPT !.decision = text, !.status = class] \in Record
  BY <1>1, <1>2 DEF Record, AcceptedStatus
<1>6. \A q \in RecordIds : Exists(q) =>
        /\ records'[q].file = records[q].file
        /\ records'[q].isNew = records[q].isNew
        /\ records'[q].orig = records[q].orig
        /\ records'[q].launched = records[q].launched
        /\ records'[q].validation = records[q].validation
  <2> DEFINE new == [rec EXCEPT !.decision = text, !.status = class]
  <2>1. /\ new.file = rec.file /\ new.isNew = rec.isNew /\ new.orig = rec.orig
        /\ new.launched = rec.launched /\ new.validation = rec.validation
    BY <1>1 DEF Record
  <2> QED
    BY <1>4, <2>1
<1>7. records'[r].status = class
  BY <1>1, <1>4 DEF Record
<1>8. \A q \in RecordIds : /\ Exists(q)' <=> Exists(q)
                           /\ q # r => (Accepted(q)' <=> Accepted(q))
                           /\ q # r => (Active(q)' <=> Active(q))
  BY <1>1, <1>2, <1>4, <1>7 DEF Exists, Accepted, Active, IsDecided, AcceptedStatus
<1>9. Accepted(r)' <=> class \in AcceptedStatus
  BY <1>7 DEF Accepted
<1>10. Accepted(r)' => ~Active(r)'
  BY DEF Accepted, Active, IsDecided, TerminalStatus
<1>11. \A q \in RecordIds : q # r /\ records[q].file = f => ~Active(q)
  BY <1>1, OneActive DEF IInv
\* What the decision leaves of the manifests.
<1>12. \A g \in Files :
        /\ manifest'[g].open = manifest[g].open
        /\ manifest[g].open => manifest'[g].lastStaged = manifest[g].lastStaged
        /\ g # f => manifest'[g] = manifest[g]
        /\ g = f /\ manifest[g].open =>
             manifest'[g].requiresRefresh = (class \in AcceptedStatus)
        /\ ~manifest[g].open => manifest'[g] = manifest[g]
        /\ manifest'[g] \in Manifest \cup {NoSession}
  <2> SUFFICES ASSUME NEW g \in Files
               PROVE  /\ manifest'[g].open = manifest[g].open
                      /\ manifest[g].open => manifest'[g].lastStaged = manifest[g].lastStaged
                      /\ g # f => manifest'[g] = manifest[g]
                      /\ g = f /\ manifest[g].open =>
                           manifest'[g].requiresRefresh = (class \in AcceptedStatus)
                      /\ ~manifest[g].open => manifest'[g] = manifest[g]
                      /\ manifest'[g] \in Manifest \cup {NoSession}
    OBVIOUS
  <2>1. CASE g = f /\ manifest[f].open
    <3> DEFINE acc == class \in AcceptedStatus
    <3>1. manifest[f] \in Manifest /\ acc \in BOOLEAN
      BY <1>1, <2>1, OpenManifest DEF IInv
    <3>2. manifest'[f] = [manifest[f] EXCEPT !.requiresRefresh = acc, !.indexStale = acc]
      BY <1>1, <2>1 DEF IInv, TypeOK, RecordDecision, DecisionFlags
    <3> HIDE DEF acc
    <3>3. /\ manifest'[f].open = manifest[f].open
          /\ manifest'[f].lastStaged = manifest[f].lastStaged
          /\ manifest'[f].requiresRefresh = acc
          /\ manifest'[f] \in Manifest
      BY <3>1, <3>2 DEF Manifest
    <3> QED BY <2>1, <3>3 DEF acc
  <2>2. CASE ~(g = f /\ manifest[f].open)
    <3>1. manifest'[g] = manifest[g]
      BY <1>1, <2>2 DEF IInv, TypeOK, RecordDecision
    <3> QED BY <2>2, <3>1 DEF IInv, TypeOK
  <2> QED BY <2>1, <2>2
<1>13. TypeOK'
  <2>1. records' \in [RecordIds -> Record \cup {NoRecord}]
    BY <1>4, <1>5 DEF IInv, TypeOK, RecordDecision
  <2>2. manifest' \in [Files -> Manifest \cup {NoSession}]
    BY <1>12 DEF IInv, TypeOK, RecordDecision
  <2>3. watched' \in [Files -> Contents \cup {Absent}]
    BY <1>1 DEF IInv, TypeOK, RecordDecision, AfterDecision
  <2> QED
    BY <2>1, <2>2, <2>3 DEF IInv, TypeOK, RecordDecision
<1>14. IdsInOrder'
  BY <1>8 DEF IInv, IdsInOrder
<1>15. LastStagedIsOwn'
  <2> SUFFICES ASSUME NEW g \in Files, manifest'[g].open, manifest'[g].lastStaged # 0
               PROVE  /\ Exists(manifest[g].lastStaged)'
                      /\ records'[manifest'[g].lastStaged].file = g
    BY DEF LastStagedIsOwn
  <2> DEFINE q == manifest[g].lastStaged
  <2>1. manifest[g].open /\ manifest'[g].lastStaged = q
    BY <1>12
  <2>2. Exists(q) /\ records[q].file = g /\ q \in RecordIds
    BY <2>1, OpenManifest DEF IInv, LastStagedIsOwn, Manifest
  <2>3. records'[q].file = g /\ records'[q].status # "none"
    BY <2>2, <1>6, <1>8 DEF Exists
  <2> QED
    BY <2>1, <2>3 DEF Exists
<1>16. ActiveIsNewest'
  <2> SUFFICES ASSUME NEW p \in RecordIds, NEW q \in RecordIds,
                      p < q, Exists(q)', records'[p].file = records'[q].file
               PROVE  ~Active(p)' /\ manifest'[records'[p].file].lastStaged # p
    BY DEF ActiveIsNewest, Exists
  <2>1. Exists(q) /\ Exists(p)
    BY <1>8 DEF IInv, IdsInOrder
  <2>2. records'[p].file = records[p].file /\ records[p].file = records[q].file
    BY <2>1, <1>6
  <2>3. ~Active(p) /\ manifest[records[p].file].lastStaged # p
    BY <2>1, <2>2 DEF IInv, ActiveIsNewest, Exists
  <2>4. p # r /\ ~Active(p)'
    BY <2>3, <1>1, <1>8
  <2>5. records[p].file \in Files
    BY <2>1, ExistingRecord DEF IInv, Record
  <2> QED
    BY <2>2, <2>3, <2>4, <2>5, <1>12
<1>17. AcceptedWasReviewed'
  <2> SUFFICES ASSUME NEW q \in RecordIds, Accepted(q)' PROVE Reviewed(records'[q])
    BY DEF AcceptedWasReviewed
  <2>1. Exists(q) /\ Reviewed(records[q])
    <3>1. CASE q = r
      BY <3>1, <1>1, <1>3, <1>9
    <3>2. CASE q # r
      BY <3>2, <1>8 DEF IInv, AcceptedWasReviewed, Accepted, AcceptedStatus, Exists
    <3> QED BY <3>1, <3>2
  <2> QED BY <2>1, <1>6 DEF Reviewed
<1>18. AcceptShutsGate'
  <2> SUFFICES ASSUME NEW g \in Files, manifest'[g].open, NEW q \in RecordIds
               PROVE  /\ manifest'[g].lastStaged = q /\ Accepted(q)' => manifest'[g].requiresRefresh
                      /\ manifest'[g].requiresRefresh /\ Exists(q)' /\ records'[q].file = g
                           => ~Active(q)'
    BY DEF AcceptShutsGate, Exists
  <2>1. manifest[g].open /\ manifest'[g].lastStaged = manifest[g].lastStaged
    BY <1>12
  <2>2. CASE g = f
    <3>1. manifest'[g].requiresRefresh = (class \in AcceptedStatus)
      BY <2>1, <2>2, <1>12
    <3>2. ASSUME manifest'[g].lastStaged = q, Accepted(q)' PROVE class \in AcceptedStatus
      <4>1. CASE q = r
        BY <4>1, <3>2, <1>9
      <4>2. CASE q # r
        <5>1. Accepted(q) /\ Exists(q) /\ q # 0
          BY <4>2, <3>2, <1>8, BoundAssumption DEF Accepted, AcceptedStatus, Exists, RecordIds
        <5>2. records[q].file = f
          BY <5>1, <3>2, <2>1, <2>2 DEF IInv, LastStagedIsOwn
        <5>3. manifest[f].requiresRefresh
          BY <5>1, <3>2, <2>1, <2>2 DEF IInv, AcceptShutsGate
        <5>4. ~Active(r)
          BY <5>3, <2>1, <2>2, <1>1 DEF IInv, AcceptShutsGate, Exists
        <5> QED BY <5>4, <1>1
      <4> QED BY <4>1, <4>2
    <3>3. ASSUME class \in AcceptedStatus, Exists(q)', records'[q].file = g PROVE ~Active(q)'
      BY <3>3, <2>2, <1>6, <1>8, <1>9, <1>10, <1>11
    <3> QED BY <3>1, <3>2, <3>3
  <2>3. CASE g # f
    <3>1. manifest'[g] = manifest[g]
      BY <2>3, <1>12
    <3>2. ASSUME manifest'[g].lastStaged = q, Accepted(q)' PROVE manifest'[g].requiresRefresh
      <4>1. Exists(q) /\ q # 0
        BY <3>2, <1>8, BoundAssumption DEF Accepted, AcceptedStatus, Exists, RecordIds
      <4>2. q # r
        BY <3>1, <3>2, <4>1, <2>1, <2>3 DEF IInv, LastStagedIsOwn
      <4> QED BY <3>1, <3>2, <4>2, <2>1, <1>8 DEF IInv, AcceptShutsGate
    <3>3. ASSUME manifest'[g].requiresRefresh, Exists(q)', records'[q].file = g PROVE ~Active(q)'
      BY <3>1, <3>3, <2>1, <2>3, <1>6, <1>8 DEF IInv, AcceptShutsGate, Exists
    <3> QED BY <3>2, <3>3
  <2> QED BY <2>2, <2>3
<1>19. UnsavedIsBaseline'
  <2> SUFFICES ASSUME NEW q \in RecordIds, Active(q)', ~operatorSaved'[records'[q].file]
               PROVE  IF records'[q].isNew
                      THEN watched'[records'[q].file] \in {Absent, Blank}
                      ELSE watched'[records'[q].file] = records'[q].orig
    BY DEF UnsavedIsBaseline
  <2>1. Exists(q) /\ Active(q)
    BY <1>1, <1>8 DEF Active, Exists
  <2>2. records[q].file \in Files
    BY <2>1, ExistingRecord DEF IInv, Record
  <2>3. IF records[q].isNew
        THEN watched[records[q].file] \in {Absent, Blank}
        ELSE watched[records[q].file] = records[q].orig
    BY <2>1, <1>6 DEF IInv, UnsavedIsBaseline, RecordDecision
  <2>4. CASE records[q].file = f
    <3>1. q = r
      BY <2>1, <2>4, <1>11
    <3>2. watched'[f] = AfterDecision(rec, text.word)
      BY <1>1 DEF IInv, TypeOK, RecordDecision
    <3> QED
      BY <2>1, <2>3, <3>1, <3>2, <1>6 DEF AfterDecision
  <2>5. CASE records[q].file # f
    BY <2>1, <2>2, <2>3, <2>5, <1>6 DEF IInv, TypeOK, RecordDecision
  <2> QED BY <2>4, <2>5
<1> QED
  BY <1>13, <1>14, <1>15, <1>16, <1>17, <1>18, <1>19 DEF IInv

-----------------------------------------------------------------------------
(* What a step of Next is, in the terms of the lemmas above *)

WorkingChanges ==
    \E f \in Files, c \in Contents :
        /\ working' = [working EXCEPT ![f] = c]
        /\ UNCHANGED <<watched, manifest, records, operatorSaved, saves>>

Captures ==
    \E f \in Files, c \in Contents, m \in Manifest :
        /\ IF m.isNew THEN watched[f] = Absent ELSE m.orig = watched[f]
        /\ m.lastStaged = 0
        /\ ~m.requiresRefresh
        /\ working' = [working EXCEPT ![f] = c]
        /\ manifest' = [manifest EXCEPT ![f] = m]
        /\ UNCHANGED <<watched, records, operatorSaved, saves>>

ReviewChanges ==
    \E r \in RecordIds, rec \in Record :
        /\ Active(r)
        /\ rec = [records[r] EXCEPT !.launched = rec.launched, !.validation = rec.validation]
        /\ records' = [records EXCEPT ![r] = rec]
        /\ UNCHANGED <<watched, working, manifest, operatorSaved, saves>>

LEMMA WriteIsWorkingChange ==
    ASSUME IInv, NEW f \in Files, NEW c \in Contents, WriteWorkingCandidate(f, c)
    PROVE  WorkingChanges
<1>1. working[f] \in Contents \cup {Absent}
  BY DEF IInv, TypeOK
<1>2. CandidateText(c, working[f]) \in Contents
  BY <1>1, CandidateTextType
<1> QED
  BY <1>2 DEF WorkingChanges, WriteWorkingCandidate

LEMMA ManifestOfExisting ==
    ASSUME IInv, NEW f \in Files, NEW stale \in BOOLEAN, watched[f] # Absent
    PROVE  /\ CaptureExisting(f, stale) \in Manifest
           /\ CaptureExisting(f, stale).orig = watched[f]
           /\ ~CaptureExisting(f, stale).isNew
           /\ CaptureExisting(f, stale).lastStaged = 0
           /\ ~CaptureExisting(f, stale).requiresRefresh
<1>1. watched[f] \in Contents
  BY DEF IInv, TypeOK
<1> QED BY <1>1 DEF CaptureExisting, Manifest

LEMMA ManifestOfNew ==
    /\ CaptureNew \in Manifest
    /\ CaptureNew.isNew
    /\ CaptureNew.lastStaged = 0
    /\ ~CaptureNew.requiresRefresh
BY DEF CaptureNew, Manifest

LEMMA SubmitCases ==
    ASSUME IInv, NEW f \in Files, NEW c \in Contents, NEW ok \in BOOLEAN,
           SubmitFile(f, c, ok)
    PROVE  WorkingChanges \/ Captures
<1>1. CASE manifest[f].open
  BY <1>1, WriteIsWorkingChange DEF SubmitFile
<1>2. CASE ~manifest[f].open
  <2> DEFINE base == IF watched[f] = Absent THEN EnsureWorking(f) ELSE watched[f]
             text == IF ok THEN CandidateText(c, base) ELSE base
             m == IF watched[f] = Absent THEN CaptureNew ELSE CaptureExisting(f, FALSE)
  <2>1. base \in Contents
    BY ContentAssumption DEF IInv, TypeOK, EnsureWorking
  <2>2. text \in Contents
    BY <2>1, CandidateTextType
  <2>3. /\ m \in Manifest /\ m.lastStaged = 0 /\ ~m.requiresRefresh
        /\ IF m.isNew THEN watched[f] = Absent ELSE m.orig = watched[f]
    BY ManifestOfNew, ManifestOfExisting
  <2>4. /\ working' = [working EXCEPT ![f] = text]
        /\ manifest' = [manifest EXCEPT ![f] = m]
        /\ UNCHANGED <<watched, records, operatorSaved, saves>>
    BY <1>2 DEF SubmitFile
  <2> QED
    BY <2>2, <2>3, <2>4 DEF Captures
<1> QED BY <1>1, <1>2

LEMMA CandidateCases ==
    ASSUME IInv, NEW f \in Files, CandidateStep(f)
    PROVE  WorkingChanges \/ Captures \/ Stage(f)
<1>1. CASE Refresh(f)
  <2> DEFINE stale == manifest[f].open /\ manifest[f].indexStale
  <2>1. stale \in BOOLEAN /\ watched[f] \in Contents
    BY <1>1 DEF IInv, TypeOK, Refresh
  <2> HIDE DEF stale
  <2> QED
    BY <1>1, <2>1, ManifestOfExisting, ContentAssumption DEF Refresh, Captures, stale
<1>2. CASE NewFile(f)
  <2>1. EnsureWorking(f) \in Contents
    BY ContentAssumption DEF IInv, TypeOK, EnsureWorking
  <2> QED
    BY <1>2, <2>1, ManifestOfNew DEF NewFile, Captures
<1>3. ASSUME NEW c \in Contents, WriteWorkingCandidate(f, c) \/ ReplaceInCandidate(f, c)
      PROVE  WorkingChanges
  BY <1>3, WriteIsWorkingChange DEF ReplaceInCandidate
<1>4. ASSUME NEW c \in Contents, NEW ok \in BOOLEAN, SubmitFile(f, c, ok)
      PROVE  WorkingChanges \/ Captures
  BY <1>4, SubmitCases
<1> QED
  BY <1>1, <1>2, <1>3, <1>4 DEF CandidateStep

LEMMA ReviewCases ==
    ASSUME IInv, NEW r \in RecordIds, ReviewStep(r)
    PROVE  ReviewChanges \/ PrepareReviewFileForLaunch(r)
<1>1. ASSUME NEW launched \in BOOLEAN, RecordDiffLaunch(r, launched)
      PROVE  ReviewChanges
  <2> DEFINE rec == [records[r] EXCEPT !.launched = launched]
  <2>1. records[r] \in Record
    BY <1>1, ExistingRecord DEF IInv, RecordDiffLaunch, Active, Exists
  <2>2. rec \in Record
    BY <2>1 DEF Record
  <2>3. rec = [records[r] EXCEPT !.launched = rec.launched, !.validation = rec.validation]
    BY <2>1 DEF Record
  <2> QED
    BY <1>1, <2>2, <2>3 DEF RecordDiffLaunch, ReviewChanges
<1>2. ASSUME NEW isError \in BOOLEAN, NEW force \in BOOLEAN,
             RecordPreMergeValidation(r, isError, force)
      PROVE  ReviewChanges
  <2> DEFINE v == IF ~isError THEN "passed" ELSE IF force THEN "overridden" ELSE "failed"
             rec == [records[r] EXCEPT !.validation = v]
  <2>1. records[r] \in Record /\ v \in {"passed", "overridden", "failed"}
    BY <1>2, ExistingRecord DEF IInv, RecordPreMergeValidation, Active, Exists
  <2>2. records' = [records EXCEPT ![r] = rec]
    BY <1>2 DEF RecordPreMergeValidation
  <2> HIDE DEF v
  <2>3. rec \in Record
    BY <2>1 DEF Record
  <2>4. rec = [records[r] EXCEPT !.launched = rec.launched, !.validation = rec.validation]
    BY <2>1 DEF Record
  <2> QED
    BY <1>2, <2>2, <2>3, <2>4 DEF RecordPreMergeValidation, ReviewChanges
<1> QED
  BY <1>1, <1>2 DEF ReviewStep

LEMMA NextCases ==
    ASSUME IInv, Next
    PROVE  \/ WorkingChanges
           \/ Captures
           \/ ReviewChanges
           \/ \E f \in Files : Stage(f)
           \/ \E f \in Files : MarkIndexFresh(f)
           \/ \E r \in RecordIds : PrepareReviewFileForLaunch(r)
           \/ \E r \in RecordIds, text \in DecisionTexts : RecordDecision(r, text)
           \/ \E f \in Files, c \in Contents \cup {Absent} : OperatorSaves(f, c)
<1>1. ASSUME NEW f \in Files, NEW word \in {"accepted", "rejected"}, DecideLastStaged(f, word)
      PROVE  \E r \in RecordIds, text \in DecisionTexts : RecordDecision(r, text)
  <2>1. manifest[f].lastStaged \in RecordIds
    BY <1>1, OpenManifest DEF IInv, DecideLastStaged, Manifest
  <2>2. [word |-> word, padded |-> FALSE] \in DecisionTexts
    BY DecisionAssumption
  <2> QED
    BY <1>1, <2>1, <2>2 DEF DecideLastStaged
<1>2. ASSUME NEW f \in Files, NEW c \in Contents, AgentEditsWorkingFile(f, c)
      PROVE  WorkingChanges
  BY <1>2 DEF AgentEditsWorkingFile, WorkingChanges
<1> QED
  BY <1>1, <1>2, CandidateCases, ReviewCases
  DEF Next, ServiceStep, OutsideStep, DecisionStep

LEMMA NextIInv == IInv /\ [Next]_vars => IInv'
<1> SUFFICES ASSUME IInv, [Next]_vars PROVE IInv'
  OBVIOUS
<1>1. CASE UNCHANGED vars
  BY <1>1 DEF vars, IInv, TypeOK, IdsInOrder, LastStagedIsOwn, ActiveIsNewest,
     AcceptedWasReviewed, AcceptShutsGate, UnsavedIsBaseline, Exists, Active,
     IsDecided, Accepted
<1>2. CASE WorkingChanges
  BY <1>2, WorkingStep DEF WorkingChanges
<1>3. CASE Captures
  BY <1>3, CaptureStep DEF Captures
<1>4. CASE ReviewChanges
  <2>1. PICK r \in RecordIds, rec \in Record :
          /\ Active(r)
          /\ rec = [records[r] EXCEPT !.launched = rec.launched, !.validation = rec.validation]
          /\ records' = [records EXCEPT ![r] = rec]
          /\ UNCHANGED <<watched, working, manifest, operatorSaved, saves>>
    BY <1>4 DEF ReviewChanges
  <2>2. records[r] \in Record
    BY <2>1, ExistingRecord DEF IInv, Active, Exists
  <2>3. /\ rec.status = records[r].status /\ rec.decision = records[r].decision
        /\ rec.file = records[r].file /\ rec.isNew = records[r].isNew
        /\ rec.orig = records[r].orig
    BY <2>1, <2>2 DEF Record
  <2> QED
    BY <2>1, <2>3, ReviewedStep
<1>5. ASSUME NEW f \in Files, Stage(f) PROVE IInv'
  BY <1>5, StageStep
<1>6. ASSUME NEW f \in Files, MarkIndexFresh(f) PROVE IInv'
  BY <1>6, FreshStep
<1>7. ASSUME NEW r \in RecordIds, PrepareReviewFileForLaunch(r) PROVE IInv'
  BY <1>7, PrepareStep
<1>8. ASSUME NEW r \in RecordIds, NEW text \in DecisionTexts, RecordDecision(r, text)
      PROVE  IInv'
  BY <1>8, DecisionStepIInv
<1>9. ASSUME NEW f \in Files, NEW c \in Contents \cup {Absent}, OperatorSaves(f, c)
      PROVE  IInv'
  BY <1>9, OperatorStep
<1> QED
  BY <1>1, <1>2, <1>3, <1>4, <1>5, <1>6, <1>7, <1>8, <1>9, NextCases

LEMMA SpecIInv == Spec => []IInv
BY InitIInv, NextIInv, PTL DEF Spec

-----------------------------------------------------------------------------
(* Safety *)

\* Every stored manifest and record has its type, however many there are.
THEOREM TypeCorrect == Spec => []TypeOK
<1>1. IInv => TypeOK
  BY DEF IInv
<1> QED BY <1>1, SpecIInv, PTL

\* No superseded or older record of a file can be launched or decided.
THEOREM OldRecordsAreShut == Spec => []ActiveIsNewest
<1>1. IInv => ActiveIsNewest
  BY DEF IInv
<1> QED BY <1>1, SpecIInv, PTL

\* RecordDecision accepts only what was validated and launched, and nothing
\* takes that evidence out of an accepted record.
THEOREM AcceptsAreReviewed == Spec => []AcceptedWasReviewed
<1>1. IInv => AcceptedWasReviewed
  BY DEF IInv
<1> QED BY <1>1, SpecIInv, PTL

\* After an accept the session cannot edit or stage, and no record is left
\* whose decision would let it.
THEOREM GateIsShut == Spec => []AcceptShutsGate
<1>1. IInv => AcceptShutsGate
  BY DEF IInv
<1> QED BY <1>1, SpecIInv, PTL

-----------------------------------------------------------------------------
(* What a step may do *)

\* Only Refresh, and a SubmitFile or NewFile that makes a session, open the
\* gate again, each on a manifest of the file as it is then.
THEOREM GateOpens == Spec => GateOpensOnCapture
<1> DEFINE A == \A f \in Files :
                  manifest[f].open /\ manifest[f].requiresRefresh =>
                     \/ manifest'[f].requiresRefresh
                     \/ manifest'[f].orig = watched'[f]
                     \/ manifest'[f].isNew /\ watched'[f] = Absent
<1>1. IInv /\ [Next]_vars => A
  <2> SUFFICES ASSUME IInv, [Next]_vars, NEW f \in Files,
                      manifest[f].open, manifest[f].requiresRefresh
               PROVE  \/ manifest'[f].requiresRefresh
                      \/ manifest'[f].orig = watched'[f]
                      \/ manifest'[f].isNew /\ watched'[f] = Absent
    OBVIOUS
  <2>1. manifest[f] \in Manifest
    BY OpenManifest DEF IInv
  <2>2. CASE UNCHANGED manifest
    BY <2>2
  <2>3. CASE Captures
    <3>1. PICK g \in Files, m \in Manifest :
            /\ IF m.isNew THEN watched[g] = Absent ELSE m.orig = watched[g]
            /\ manifest' = [manifest EXCEPT ![g] = m]
            /\ UNCHANGED watched
      BY <2>3 DEF Captures
    <3> QED
      BY <3>1 DEF IInv, TypeOK
  <2>4. ASSUME NEW g \in Files, Stage(g) PROVE manifest'[f].requiresRefresh
    <3>1. PICK r \in RecordIds : manifest' = [manifest EXCEPT ![g].lastStaged = r]
      BY <2>4 DEF Stage
    <3> QED
      BY <3>1, <2>1, <2>4 DEF IInv, TypeOK, Stage, SessionCanEdit, Manifest
  <2>5. ASSUME NEW g \in Files, MarkIndexFresh(g) PROVE manifest'[f].requiresRefresh
    BY <2>1, <2>5 DEF IInv, TypeOK, MarkIndexFresh, Manifest
  \* A decision on f would need an active record of f, and there is none.
  <2>6. ASSUME NEW r \in RecordIds, NEW text \in DecisionTexts, RecordDecision(r, text)
        PROVE  manifest'[f].requiresRefresh
    <3>1. Active(r) /\ records[r].status # "none"
      BY <2>6 DEF RecordDecision, Active
    <3>2. records[r].file # f
      BY <3>1 DEF IInv, AcceptShutsGate
    <3>3. records[r].file \in Files
      BY <3>1, ExistingRecord DEF IInv, Exists, Record
    <3>4. manifest'[f] = manifest[f]
      BY <3>2, <3>3, <2>6 DEF IInv, TypeOK, RecordDecision
    <3> QED BY <3>4
  <2>7. WorkingChanges \/ ReviewChanges => UNCHANGED manifest
    BY DEF WorkingChanges, ReviewChanges
  <2>8. (\E r \in RecordIds : PrepareReviewFileForLaunch(r)) => UNCHANGED manifest
    BY DEF PrepareReviewFileForLaunch
  <2>9. (\E g \in Files, c \in Contents \cup {Absent} : OperatorSaves(g, c))
          => UNCHANGED manifest
    BY DEF OperatorSaves
  <2>10. UNCHANGED vars => UNCHANGED manifest
    BY DEF vars
  <2> QED
    BY <2>2, <2>3, <2>4, <2>5, <2>6, <2>7, <2>8, <2>9, <2>10, NextCases
<1>2. Spec => [][A]_vars
  BY <1>1, SpecIInv, PTL DEF Spec
<1> QED
  BY <1>2 DEF GateOpensOnCapture

\* An accept needs the watched file to hold the staged text, and until the
\* operator saves it the file holds what it held at staging, or a blank.
THEOREM AcceptsAreSaved == Spec => AcceptedWasSaved
<1> DEFINE A == \A r \in RecordIds :
                  /\ ~Accepted(r) /\ Accepted(r)'
                  /\ records[r].staged.text # BaseText(records[r])
                  => operatorSaved[records[r].file]
<1>1. IInv /\ [Next]_vars => A
  <2> SUFFICES ASSUME IInv, [Next]_vars, NEW r \in RecordIds,
                      ~Accepted(r), Accepted(r)',
                      ~operatorSaved[records[r].file]
               PROVE  records[r].staged.text = BaseText(records[r])
    OBVIOUS
  <2>1. records'[r].status # records[r].status
    BY DEF Accepted
  <2>2. ~Captures /\ ~WorkingChanges /\ ~(UNCHANGED vars)
    BY <2>1 DEF Captures, WorkingChanges, vars
  <2>3. ~ReviewChanges
    <3> SUFFICES ASSUME NEW q \in RecordIds, NEW rec \in Record, Active(q),
                        rec = [records[q] EXCEPT !.launched = rec.launched,
                                                 !.validation = rec.validation],
                        records' = [records EXCEPT ![q] = rec]
                 PROVE  FALSE
      BY DEF ReviewChanges
    <3>1. records[q] \in Record
      BY ExistingRecord DEF IInv, Active, Exists
    <3>2. rec.status = records[q].status
      BY <3>1 DEF Record
    <3> QED
      BY <2>1, <3>2 DEF IInv, TypeOK
  <2>4. ASSUME NEW f \in Files, Stage(f) PROVE FALSE
    <3>1. PICK q \in RecordIds :
            records' = [SupersedeActiveRecordsForFile(f) EXCEPT ![q] =
              [file |-> f, isNew |-> manifest[f].isNew, orig |-> manifest[f].orig,
               staged |-> working[f], launched |-> FALSE, validation |-> "none",
               decision |-> Undecided, status |-> "staged"]]
      BY <2>4 DEF Stage
    <3>2. records'[r].status \in {records[r].status, "superseded", "staged"}
      <4>1. CASE r = q
        BY <3>1, <4>1 DEF SupersedeActiveRecordsForFile
      <4>2. CASE r # q
        <5>1. records'[r] = IF Active(r) /\ records[r].file = f
                            THEN [records[r] EXCEPT !.status = "superseded"]
                            ELSE records[r]
          BY <3>1, <4>2 DEF SupersedeActiveRecordsForFile
        <5>2. Active(r) => records[r] \in Record
          BY ExistingRecord DEF IInv, Active, Exists
        <5> QED
          BY <5>1, <5>2 DEF Record
      <4> QED BY <4>1, <4>2
    <3> QED
      BY <2>1, <3>2 DEF Accepted, AcceptedStatus
  <2>5. ~(\E f \in Files : MarkIndexFresh(f))
    BY <2>1 DEF MarkIndexFresh
  <2>6. ~(\E q \in RecordIds : PrepareReviewFileForLaunch(q))
    BY <2>1 DEF PrepareReviewFileForLaunch
  <2>7. ~(\E f \in Files, c \in Contents \cup {Absent} : OperatorSaves(f, c))
    BY <2>1 DEF OperatorSaves
  <2>8. PICK q \in RecordIds, text \in DecisionTexts : RecordDecision(q, text)
    BY <2>2, <2>3, <2>4, <2>5, <2>6, <2>7, NextCases
  <2>9. q = r
    BY <2>1, <2>8 DEF RecordDecision, IInv, TypeOK
  <2> DEFINE rec == records[r]
             reviewed == AfterDecision(rec, text.word)
  <2>10. Active(r) /\ rec \in Record
    BY <2>8, <2>9, ExistingRecord DEF IInv, RecordDecision, Active, Exists
  <2>11. Classify(rec, text.word, reviewed) \in AcceptedStatus
    <3>1. records' = [records EXCEPT ![r].decision = text,
                        ![r].status = Classify(rec, text.word, reviewed)]
      BY <2>8, <2>9 DEF RecordDecision
    <3>2. records'[r].status = Classify(rec, text.word, reviewed)
      BY <3>1, <2>10 DEF IInv, TypeOK, Record
    <3> QED BY <3>2 DEF Accepted
  <2>12. rec.staged # Absent
    BY <2>10, ContentAssumption DEF Record
  <2>13. text.word = "accepted" /\ reviewed # Absent /\ SameText(reviewed, rec.staged)
    BY <2>11, <2>12, ClassifyAccepted
  <2>14. watched[rec.file] # Absent /\ watched[rec.file].text = rec.staged.text
    BY <2>13 DEF AfterDecision, SameText
  <2>15. IF rec.isNew THEN watched[rec.file] = Blank ELSE watched[rec.file] = rec.orig
    BY <2>10, <2>14 DEF IInv, UnsavedIsBaseline
  <2> QED
    BY <2>14, <2>15 DEF BaseText, Blank
<1>2. Spec => [][A]_vars
  BY <1>1, SpecIInv, PTL DEF Spec
<1> QED
  BY <1>2 DEF AcceptedWasSaved

-----------------------------------------------------------------------------
(* EditWorkflow implements ReviewGate *)

LEMMA ProposalsSame ==
    ASSUME UNCHANGED records
    PROVE  \A r \in RecordIds : ProposalOf(r)' = ProposalOf(r)
BY DEF ProposalOf, Active, Accepted, IsDecided

\* A step on one record is a step on one proposal.
LEMMA ProposalsExcept ==
    ASSUME IInv, NEW r \in RecordIds, NEW rec, records' = [records EXCEPT ![r] = rec]
    PROVE  \A q \in RecordIds : q # r => ProposalOf(q)' = ProposalOf(q)
<1>1. \A q \in RecordIds : q # r => records'[q] = records[q]
  BY DEF IInv, TypeOK
<1> QED
  BY <1>1 DEF ProposalOf, Active, Accepted, IsDecided

LEMMA OpenProposal ==
    ASSUME IInv, NEW r \in RecordIds, Active(r)
    PROVE  /\ ProposalOf(r) = [phase |-> "open", file |-> records[r].file,
                               content |-> records[r].staged,
                               isNew |-> records[r].isNew,
                               ready |-> Reviewed(records[r])]
           /\ Reviewed(records[r]) \in BOOLEAN
BY DEF ProposalOf, Active, Reviewed, IInv, TypeOK, Record, NoRecord

\* The proposals as one function, and the steps of the gate.
Proposals == [r \in RecordIds |-> ProposalOf(r)]

GateStep == Gate!Next \/ UNCHANGED <<watched, saves, Proposals>>

LEMMA QuietStep ==
    ASSUME UNCHANGED <<watched, records, saves>>
    PROVE  GateStep
BY ProposalsSame DEF GateStep, Proposals

LEMMA ReviewRefines ==
    ASSUME IInv, ReviewChanges
    PROVE  GateStep
<1>1. PICK r \in RecordIds, rec \in Record :
        /\ Active(r)
        /\ rec = [records[r] EXCEPT !.launched = rec.launched, !.validation = rec.validation]
        /\ records' = [records EXCEPT ![r] = rec]
        /\ UNCHANGED <<watched, working, manifest, operatorSaved, saves>>
  BY DEF ReviewChanges
<1>2. records[r] \in Record /\ records'[r] = rec
  BY <1>1, ExistingRecord DEF IInv, TypeOK, Active, Exists
<1>3. /\ rec.status = records[r].status /\ rec.decision = records[r].decision
      /\ rec.file = records[r].file /\ rec.isNew = records[r].isNew
      /\ rec.staged = records[r].staged
  BY <1>1, <1>2 DEF Record
<1>4. Active(r)'
  BY <1>1, <1>2, <1>3 DEF Active, IsDecided
<1>5. ProposalOf(r)' = [phase |-> "open", file |-> records[r].file,
                        content |-> records[r].staged, isNew |-> records[r].isNew,
                        ready |-> Reviewed(rec)]
  BY <1>2, <1>3, <1>4 DEF ProposalOf, Active
<1>6. \A q \in RecordIds : q # r => ProposalOf(q)' = ProposalOf(q)
  BY <1>1, ProposalsExcept
<1>7. Reviewed(rec) \in BOOLEAN
  BY DEF Reviewed, Record
<1>8. CASE Reviewed(rec) = Reviewed(records[r])
  <2>1. ProposalOf(r)' = ProposalOf(r)
    BY <1>1, <1>5, <1>8, OpenProposal
  <2> QED
    BY <1>1, <1>6, <2>1 DEF GateStep, Proposals
<1>9. CASE Reviewed(rec) # Reviewed(records[r])
  <2>1. Reviewed(rec) = ~Reviewed(records[r])
    BY <1>1, <1>7, <1>9, OpenProposal
  <2>2. ProposalOf(r)' = [ProposalOf(r) EXCEPT !.ready = ~@]
    BY <1>1, <1>5, <2>1, OpenProposal
  <2>3. Proposals' = [Proposals EXCEPT ![r].ready = ~@]
    BY <1>6, <2>2 DEF Proposals
  <2>4. Gate!IsOpen(r)
    BY <1>1, OpenProposal DEF Gate!IsOpen
  <2>5. Gate!Review(r)
    BY <1>1, <2>3 DEF Gate!Review, Proposals
  <2> QED
    BY <2>4, <2>5 DEF GateStep, Gate!Next
<1> QED BY <1>8, <1>9

LEMMA PrepareRefines ==
    ASSUME IInv, NEW r \in RecordIds, PrepareReviewFileForLaunch(r)
    PROVE  GateStep
<1>1. /\ Active(r) /\ records[r].isNew /\ UNCHANGED <<records, saves>>
      /\ watched[records[r].file] \in {Absent, Blank}
      /\ watched' = [watched EXCEPT ![records[r].file] = Blank]
  BY DEF PrepareReviewFileForLaunch
<1>2. UNCHANGED Proposals
  BY <1>1, ProposalsSame DEF Proposals
<1>3. /\ Proposals[r] = ProposalOf(r) /\ ProposalOf(r).phase = "open"
      /\ ProposalOf(r).isNew /\ ProposalOf(r).file = records[r].file
  BY <1>1, OpenProposal DEF Proposals
<1>4. CASE watched[records[r].file] = Blank
  <2>1. UNCHANGED watched
    BY <1>1, <1>4 DEF IInv, TypeOK
  <2> QED BY <1>1, <1>2, <2>1 DEF GateStep
<1>5. CASE watched[records[r].file] = Absent
  <2>1. Gate!IsOpen(r) /\ Gate!ShowPlaceholder(r)
    BY <1>1, <1>2, <1>3, <1>5
    DEF Proposals, Gate!IsOpen, Gate!ShowPlaceholder, Gate!FileOf, Gate!Blank, Blank
  <2> QED
    BY <2>1 DEF GateStep, Gate!Next
<1> QED BY <1>1, <1>4, <1>5

LEMMA OperatorRefines ==
    ASSUME IInv, NEW f \in Files, NEW c \in Contents \cup {Absent}, OperatorSaves(f, c)
    PROVE  GateStep
<1>1. /\ UNCHANGED records /\ watched' = [watched EXCEPT ![f] = c]
      /\ saves' = ~saves
  BY DEF OperatorSaves
<1>2. watched'[f] = c
  BY <1>1 DEF IInv, TypeOK
<1>3. UNCHANGED Proposals
  BY <1>1, ProposalsSame DEF Proposals
<1>4. Gate!ReviewerWrites(f)
  BY <1>1, <1>2, <1>3 DEF Gate!ReviewerWrites, Proposals
<1> QED
  BY <1>4 DEF GateStep, Gate!Next

LEMMA DecisionRefines ==
    ASSUME IInv, NEW r \in RecordIds, NEW text \in DecisionTexts, RecordDecision(r, text)
    PROVE  GateStep
<1> DEFINE rec == records[r]
           f == rec.file
           reviewed == AfterDecision(rec, text.word)
           class == Classify(rec, text.word, reviewed)
           new == [rec EXCEPT !.decision = text, !.status = class]
<1>1. Active(r) /\ rec \in Record /\ f \in Files
  BY ExistingRecord DEF IInv, RecordDecision, Active, Exists, Record
<1>2. class \in AcceptedStatus \cup {"rejected", "dirty-unexpected"}
  BY ClassifyRange
<1>3. records' = [records EXCEPT ![r] = new] /\ records'[r] = new
  BY DEF IInv, TypeOK, RecordDecision
<1>4. /\ new.status = class /\ new.file = f /\ new.isNew = rec.isNew
      /\ new.staged = rec.staged /\ Reviewed(new) = Reviewed(rec)
  BY <1>1 DEF Record, Reviewed
<1>5. class # "none"
  BY <1>2 DEF AcceptedStatus
<1>6. ProposalOf(r)' =
        [phase |-> IF Active(r)' THEN "open"
                   ELSE IF class \in AcceptedStatus THEN "approved" ELSE "closed",
         file |-> f, content |-> rec.staged, isNew |-> rec.isNew, ready |-> Reviewed(rec)]
  BY <1>3, <1>4, <1>5 DEF ProposalOf, Accepted
<1>7. \A q \in RecordIds : q # r => ProposalOf(q)' = ProposalOf(q)
  BY <1>3, ProposalsExcept
<1>8. /\ Proposals[r] = ProposalOf(r)
      /\ ProposalOf(r) = [phase |-> "open", file |-> f, content |-> rec.staged,
                          isNew |-> rec.isNew, ready |-> Reviewed(rec)]
  BY <1>1, OpenProposal DEF Proposals
<1>9. Gate!IsOpen(r)
  BY <1>8 DEF Gate!IsOpen, Proposals
<1>10. watched' = [watched EXCEPT ![f] = reviewed] /\ UNCHANGED saves
  BY DEF RecordDecision
<1>11. CASE class \in AcceptedStatus
  <2>1. rec.staged # Absent
    BY <1>1, ContentAssumption DEF Record
  <2>2. text.word = "accepted" /\ reviewed # Absent /\ SameText(reviewed, rec.staged)
    BY <1>11, <2>1, ClassifyAccepted
  <2>3. reviewed = watched[f] /\ Reviewed(rec)
    BY <2>2 DEF AfterDecision, RecordDecision
  <2>4. UNCHANGED watched
    BY <1>1, <1>10, <2>3 DEF IInv, TypeOK
  <2>5. ~Active(r)'
    BY <1>3, <1>4, <1>11 DEF Active, IsDecided, TerminalStatus
  <2>6. Proposals' = [Proposals EXCEPT ![r].phase = "approved"]
    <3>1. ProposalOf(r)' = [ProposalOf(r) EXCEPT !.phase = "approved"]
      BY <1>6, <1>8, <1>11, <2>5
    <3> QED BY <1>7, <3>1 DEF Proposals
  <2>7. Gate!Approve(r)
    BY <1>8, <1>10, <2>2, <2>3, <2>4, <2>6
    DEF Gate!Approve, Gate!FileOf, Gate!SameText, SameText, Proposals
  <2> QED
    BY <1>9, <2>7 DEF GateStep, Gate!Next
<1>12. CASE class \notin AcceptedStatus /\ Active(r)'
  <2>1. class = "dirty-unexpected"
    BY <1>2, <1>3, <1>4, <1>12 DEF Active, IsDecided, TerminalStatus
  <2>2. reviewed = watched[f]
    BY <2>1 DEF AfterDecision, Classify
  <2>3. UNCHANGED watched
    BY <1>1, <1>10, <2>2 DEF IInv, TypeOK
  <2>4. ProposalOf(r)' = ProposalOf(r)
    BY <1>6, <1>8, <1>12
  <2> QED
    BY <1>7, <1>10, <2>3, <2>4 DEF GateStep, Proposals
<1>13. CASE class \notin AcceptedStatus /\ ~Active(r)'
  <2>1. Proposals' = [Proposals EXCEPT ![r].phase = "closed"]
    <3>1. ProposalOf(r)' = [ProposalOf(r) EXCEPT !.phase = "closed"]
      BY <1>6, <1>8, <1>13
    <3> QED BY <1>7, <3>1 DEF Proposals
  <2>2. CASE reviewed = watched[f]
    <3>1. UNCHANGED watched
      BY <1>1, <1>10, <2>2 DEF IInv, TypeOK
    <3>2. Gate!Close(r)
      BY <1>10, <2>1, <3>1 DEF Gate!Close, Proposals
    <3> QED
      BY <1>9, <3>2 DEF GateStep, Gate!Next
  <2>3. CASE reviewed # watched[f]
    <3>1. rec.isNew /\ watched[f] = Blank /\ reviewed = Absent
      BY <2>3 DEF AfterDecision
    <3>2. Proposals[r].isNew /\ Proposals[r].file = f
      BY <1>8, <3>1
    <3>3. watched' = [watched EXCEPT ![f] = Absent] /\ watched[f] = Blank
      BY <1>10, <3>1
    <3>4. Gate!Close(r)
      BY <1>10, <2>1, <3>1, <3>2, <3>3
      DEF Gate!Close, Gate!FileOf, Gate!Blank, Blank, Proposals
    <3> QED
      BY <1>9, <3>4 DEF GateStep, Gate!Next
  <2> QED BY <2>2, <2>3
<1> QED BY <1>11, <1>12, <1>13

LEMMA StageRefines ==
    ASSUME IInv, NEW f \in Files, Stage(f)
    PROVE  GateStep
<1>1. PICK r \in RecordIds :
        /\ IsNextId(r)
        /\ records' = [SupersedeActiveRecordsForFile(f) EXCEPT ![r] =
             [file |-> f, isNew |-> manifest[f].isNew, orig |-> manifest[f].orig,
              staged |-> working[f], launched |-> FALSE, validation |-> "none",
              decision |-> Undecided, status |-> "staged"]]
  BY DEF Stage
<1>2. manifest[f] \in Manifest /\ working[f] \in Contents
  BY OpenManifest DEF IInv, TypeOK, Stage, SessionCanEdit
<1>3. records'[r] =
        [file |-> f, isNew |-> manifest[f].isNew, orig |-> manifest[f].orig,
         staged |-> working[f], launched |-> FALSE, validation |-> "none",
         decision |-> Undecided, status |-> "staged"]
  BY <1>1 DEF SupersedeActiveRecordsForFile
<1>4. Active(r)'
  <2>1. records'[r].status = "staged" /\ records'[r].decision = Undecided
    BY <1>3
  <2>2. ~IsTerminalDecision(Undecided)
    BY DEF IsTerminalDecision, TerminalStatus, AcceptedStatus, Undecided
  <2> QED
    BY <2>1, <2>2 DEF Active, IsDecided, TerminalStatus, AcceptedStatus
<1>5. ProposalOf(r)' = [phase |-> "open", file |-> f, content |-> working[f],
                        isNew |-> manifest[f].isNew, ready |-> FALSE]
  <2>1. /\ records'[r].file = f /\ records'[r].staged = working[f]
        /\ records'[r].isNew = manifest[f].isNew /\ records'[r].status = "staged"
        /\ records'[r].launched = FALSE
    BY <1>3
  <2>2. Reviewed(records'[r]) = FALSE
    BY <2>1 DEF Reviewed
  <2> QED
    BY <1>4, <2>1, <2>2 DEF ProposalOf
<1>6. ProposalOf(r) = [phase |-> "none"]
  BY <1>1 DEF IsNextId, ProposalOf
<1>7. \A q \in RecordIds : q # r =>
        ProposalOf(q)' = IF ProposalOf(q).phase = "open" /\ ProposalOf(q).file = f
                         THEN [ProposalOf(q) EXCEPT !.phase = "closed"]
                         ELSE ProposalOf(q)
  <2> SUFFICES ASSUME NEW q \in RecordIds, q # r
               PROVE  ProposalOf(q)' =
                        IF ProposalOf(q).phase = "open" /\ ProposalOf(q).file = f
                        THEN [ProposalOf(q) EXCEPT !.phase = "closed"]
                        ELSE ProposalOf(q)
    OBVIOUS
  <2>1. records'[q] = IF Active(q) /\ records[q].file = f
                      THEN [records[q] EXCEPT !.status = "superseded"]
                      ELSE records[q]
    BY <1>1 DEF SupersedeActiveRecordsForFile
  <2>2. ProposalOf(q).phase = "open" <=> Active(q)
    BY DEF ProposalOf, Active
  <2>3. CASE Active(q) /\ records[q].file = f
    <3>1. records[q] \in Record
      BY <2>3, ExistingRecord DEF IInv, Active, Exists
    <3>2. /\ records'[q].status = "superseded" /\ records'[q].file = f
          /\ records'[q].staged = records[q].staged
          /\ records'[q].isNew = records[q].isNew
          /\ records'[q].launched = records[q].launched
          /\ records'[q].validation = records[q].validation
      BY <2>1, <2>3, <3>1 DEF Record
    <3>3. ~Active(q)' /\ ~Accepted(q)'
      BY <3>2 DEF Active, Accepted, IsDecided, TerminalStatus, AcceptedStatus
    <3>4. ProposalOf(q)' = [phase |-> "closed", file |-> f, content |-> records[q].staged,
                            isNew |-> records[q].isNew, ready |-> Reviewed(records[q])]
      BY <3>2, <3>3 DEF ProposalOf, Reviewed
    <3> QED
      BY <2>3, <3>4, OpenProposal
  <2>4. CASE ~(Active(q) /\ records[q].file = f)
    <3>1. records'[q] = records[q]
      BY <2>1, <2>4
    <3>2. ProposalOf(q)' = ProposalOf(q)
      BY <3>1 DEF ProposalOf, Active, Accepted, IsDecided
    <3>3. ~(ProposalOf(q).phase = "open" /\ ProposalOf(q).file = f)
      BY <2>2, <2>4, OpenProposal
    <3> QED BY <3>2, <3>3
  <2> QED BY <2>3, <2>4
<1>8. /\ Proposals'[r] = ProposalOf(r)' /\ Proposals[r].phase = "none"
      /\ \A q \in RecordIds : Proposals[q] = ProposalOf(q)
  BY <1>6 DEF Proposals
<1>9. Proposals'[r] \in Gate!Proposal
  <2>1. manifest[f].isNew \in BOOLEAN
    BY <1>2 DEF Manifest
  <2>2. [phase |-> "open", file |-> f, content |-> working[f],
         isNew |-> manifest[f].isNew, ready |-> FALSE] \in Gate!Proposal
    BY <1>2, <2>1 DEF Gate!Proposal
  <2> QED
    BY <1>5, <1>8, <2>2
<1>10. Proposals' = [q \in RecordIds |->
          IF q = r THEN Proposals'[r]
          ELSE IF Proposals[q].phase = "open" /\ Proposals[q].file = Proposals'[r].file
          THEN [Proposals[q] EXCEPT !.phase = "closed"]
          ELSE Proposals[q]]
  BY <1>5, <1>7, <1>8 DEF Proposals
<1>11. UNCHANGED <<watched, saves>> /\
       IF manifest[f].isNew THEN watched[f] = Absent
                            ELSE watched[f] \notin {Absent, working[f]}
  <2>1. manifest[f].orig # Absent
    BY <1>2, ContentAssumption DEF Manifest
  <2> QED
    BY <2>1 DEF Stage, BaselineHolds
<1>12. Gate!Propose(r)
  BY <1>5, <1>8, <1>9, <1>10, <1>11
  DEF Gate!Propose, Gate!IsOpen, Gate!FileOf, Proposals
<1> QED
  BY <1>12 DEF GateStep, Gate!Next

\* The service implements the review gate: every step it, the operator or the
\* agent takes is a step of ReviewGate or changes nothing of it.
THEOREM ImplementsReviewGate == Spec => KeepsReviewGate
<1>1. Init => Gate!Init
  BY DEF Init, Gate!Init, Gate!Unused, ProposalOf, NoRecord
<1>2. IInv /\ [Next]_vars => GateStep
  <2> SUFFICES ASSUME IInv, [Next]_vars PROVE GateStep
    OBVIOUS
  <2>1. CASE UNCHANGED vars
    BY <2>1, QuietStep DEF vars
  <2>2. CASE WorkingChanges \/ Captures
    BY <2>2, QuietStep DEF WorkingChanges, Captures
  <2>3. ASSUME NEW f \in Files, MarkIndexFresh(f) PROVE GateStep
    BY <2>3, QuietStep DEF MarkIndexFresh
  <2> QED
    BY <2>1, <2>2, <2>3, NextCases, ReviewRefines, StageRefines, PrepareRefines,
       DecisionRefines, OperatorRefines
<1>3. GateStep => [Gate!Next]_<<watched, saves, Proposals>>
  BY DEF GateStep
<1> QED
  BY <1>1, <1>2, <1>3, SpecIInv, PTL DEF Spec, KeepsReviewGate, Gate!Spec, Proposals
=============================================================================
