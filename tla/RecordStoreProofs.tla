-------------------------- MODULE RecordStoreProofs --------------------------
(***************************************************************************)
(* Overlapping calls on the records and the manifest of one file, for any  *)
(* number of calls under way and of records: what a record and a manifest  *)
(* can say, and what holds as long as calls come one at a time.            *)
(***************************************************************************)
EXTENDS RecordStore, TLAPS

USE StoreAssumption

-----------------------------------------------------------------------------
(* Types *)

\* The calls that have read the manifest.
HasManifest == {"refresh", "list", "supersede", "saveManifest", "flags"}

\* The calls that have read a record.
HasRecord == {"review", "accept", "reject"}

LEMMA CallShape ==
    ASSUME NEW k \in Call
    PROVE  /\ k.at \in HasManifest \cup HasRecord \cup {"idle", "waitFlags"}
           /\ k.at = "idle" <=> k = Idle
           /\ k.at \in HasManifest => k.m \in Manifest
           /\ k.at = "supersede" =>
                \E S \in SUBSET RecordIds : k \in [at : {"supersede"}, m : Manifest, seen : [S -> Record]]
           /\ k.at \in HasRecord => k.r \in RecordIds /\ k.rec \in Record
           /\ k.at = "waitFlags" => k.accepted \in BOOLEAN
<1> USE DEF HasManifest, HasRecord, Idle
<1>1. CASE k = Idle
  BY <1>1
<1>2. CASE k \in [at : {"refresh", "list", "saveManifest", "flags"}, m : Manifest]
  BY <1>2
<1>3. ASSUME NEW S \in SUBSET RecordIds,
             k \in [at : {"supersede"}, m : Manifest, seen : [S -> Record]]
      PROVE  k.at = "supersede" /\ k.m \in Manifest
  BY <1>3
<1>4. CASE k \in [at : HasRecord, r : RecordIds, rec : Record]
  BY <1>4
<1>5. CASE k \in [at : {"waitFlags"}, accepted : BOOLEAN]
  BY <1>5
<1>6. CASE \E S \in SUBSET RecordIds : k \in [at : {"supersede"}, m : Manifest, seen : [S -> Record]]
  BY <1>3, <1>6
<1> QED BY <1>1, <1>2, <1>4, <1>5, <1>6 DEF Call

LEMMA NewCall ==
    /\ Idle \in Call
    /\ \A at \in {"refresh", "list", "saveManifest", "flags"}, m \in Manifest : [at |-> at, m |-> m] \in Call
    /\ \A at \in HasRecord, r \in RecordIds, rec \in Record : [at |-> at, r |-> r, rec |-> rec] \in Call
    /\ \A b \in BOOLEAN : [at |-> "waitFlags", accepted |-> b] \in Call
BY DEF Call, HasRecord

LEMMA NewSupersede ==
    ASSUME NEW S \in SUBSET RecordIds, NEW m \in Manifest, NEW seen \in [S -> Record]
    PROVE  [at |-> "supersede", m |-> m, seen |-> seen] \in Call
BY DEF Call

\* What a Stage has read of the records.
LEMMA SeenShape ==
    ASSUME NEW k \in Call, k.at = "supersede"
    PROVE  /\ DOMAIN k.seen \subseteq RecordIds
           /\ \A r \in DOMAIN k.seen : k.seen[r] \in Record
           /\ k.m \in Manifest
           /\ k = [at |-> "supersede", m |-> k.m, seen |-> k.seen]
BY CallShape DEF HasManifest

LEMMA RecordShape ==
    ASSUME NEW rec \in Record
    PROVE  /\ \A s \in {"staged", "superseded", "accepted", "rejected"} :
                /\ [rec EXCEPT !.status = s] \in Record
                /\ [rec EXCEPT !.status = s].status = s
                /\ [rec EXCEPT !.status = s].launched = rec.launched
                /\ [rec EXCEPT !.status = s].validated = rec.validated
           /\ rec # NoRecord
           /\ \A new \in ReviewOutcomes(rec) : new \in Record /\ new.status = rec.status
BY DEF Record, NoRecord, ReviewOutcomes

TypeInv == TypeOK /\ call \in [Callers -> Call]

LEMMA GoesTo ==
    ASSUME TypeInv, NEW c \in Callers, NEW k, Goes(c, k)
    PROVE  /\ call'[c] = k
           /\ \A d \in Callers \ {c} : call'[d] = call[d]
           /\ k \in Call => call' \in [Callers -> Call]
           /\ alone' \in BOOLEAN
           /\ alone' => alone
           /\ alone' /\ k # Idle => \A d \in Callers \ {c} : call[d] = Idle
BY DEF TypeInv, TypeOK, Goes

LEMMA InitType == Init => TypeInv
<1> SUFFICES ASSUME Init PROVE TypeInv
  OBVIOUS
<1>1. call \in [Callers -> Call] /\ \A c \in Callers : call[c] \in Call
  BY NewCall DEF Init
<1>2. disk \in [RecordIds -> Record \cup {NoRecord}]
  BY DEF Init
<1> QED BY <1>1, <1>2 DEF Init, TypeInv, TypeOK, Sources
LEMMA ManifestTypes ==
    ASSUME TypeInv, NEW c \in Callers,
           BeginRefresh(c) \/ SaveManifest(c) \/ BeginStage(c) \/ LockForFlags(c)
    PROVE  TypeInv'
<1>1. call[c] \in Call
  BY DEF TypeInv
<1>2. lock' \in Callers \cup {Nobody}
  BY DEF BeginRefresh, SaveManifest, BeginStage, LockForFlags, Acquire, Release, TypeInv, TypeOK
<1>3. manifest.open => manifest \in Manifest
  BY DEF TypeInv, TypeOK, NoSession
<1>4. UNCHANGED <<disk, source>>
  BY DEF BeginRefresh, SaveManifest, BeginStage, LockForFlags
<1>5. \E k \in Call : Goes(c, k)
  <2>1. CASE BeginRefresh(c)
    <3>1. [open |-> TRUE, orig |-> source, requiresRefresh |-> FALSE, lastStaged |-> 0] \in Manifest
      BY DEF TypeInv, TypeOK, Manifest, Sources
    <3> QED BY <2>1, <3>1, NewCall DEF BeginRefresh
  <2>2. CASE SaveManifest(c)
    BY <2>2, NewCall DEF SaveManifest
  <2>3. CASE BeginStage(c)
    BY <1>3, <2>3, NewCall DEF BeginStage
  <2>4. CASE LockForFlags(c)
    <3>1. [manifest EXCEPT !.requiresRefresh = call[c].accepted] \in Manifest
      BY <1>1, <1>3, <2>4, CallShape DEF LockForFlags, Manifest
    <3> QED BY <2>4, <3>1, NewCall DEF LockForFlags
  <2> QED BY <2>1, <2>2, <2>3, <2>4
<1>6. call' \in [Callers -> Call] /\ alone' \in BOOLEAN
  BY <1>5, GoesTo
<1>7. manifest' \in Manifest \cup {NoSession}
  BY <1>1, CallShape DEF BeginRefresh, SaveManifest, BeginStage, LockForFlags, TypeInv, TypeOK, HasManifest
<1> QED BY <1>2, <1>4, <1>6, <1>7 DEF TypeInv, TypeOK

LEMMA StageTypes ==
    ASSUME TypeInv, NEW c \in Callers,
           ListActive(c) \/ SaveNewRecord(c) \/ \E r \in RecordIds : SupersedeNext(c, r)
    PROVE  TypeInv'
<1>1. call[c] \in Call /\ disk \in [RecordIds -> Record \cup {NoRecord}]
  BY DEF TypeInv, TypeOK
<1>2. UNCHANGED <<manifest, lock, source>>
  BY DEF ListActive, SaveNewRecord, SupersedeNext
<1>3. CASE ListActive(c)
  <2>1. PICK S \in SUBSET RecordIds : S = {r \in RecordIds : NotDecided(disk[r])}
    OBVIOUS
  <2>2. [r \in S |-> disk[r]] \in [S -> Record]
    BY <1>1, <2>1 DEF NotDecided, NoRecord
  <2>3. call[c].m \in Manifest
    BY <1>1, <1>3, CallShape DEF ListActive, HasManifest
  <2>4. [at |-> "supersede", m |-> call[c].m, seen |-> [r \in S |-> disk[r]]] \in Call
    BY <2>2, <2>3, NewSupersede
  <2>5. call' \in [Callers -> Call] /\ alone' \in BOOLEAN
    BY <1>3, <2>1, <2>4, GoesTo DEF ListActive
  <2> QED BY <1>2, <1>3, <2>5 DEF ListActive, TypeInv, TypeOK
<1>4. ASSUME NEW r \in RecordIds, SupersedeNext(c, r)
      PROVE  TypeInv'
  <2>1. PICK seen : seen = call[c].seen
    OBVIOUS
  <2>2. /\ DOMAIN seen \subseteq RecordIds /\ r \in DOMAIN seen
        /\ \A q \in DOMAIN seen : seen[q] \in Record
        /\ call[c].m \in Manifest
        /\ call[c] = [at |-> "supersede", m |-> call[c].m, seen |-> seen]
    BY <1>1, <1>4, <2>1, SeenShape DEF SupersedeNext
  <2>3. PICK S \in SUBSET RecordIds : S = DOMAIN seen \ {r}
    BY <2>2
  <2>4. [q \in S |-> seen[q]] \in [S -> Record]
    BY <2>2, <2>3
  <2>5. [call[c] EXCEPT !.seen = [q \in DOMAIN @ \ {r} |-> @[q]]]
           = [at |-> "supersede", m |-> call[c].m, seen |-> [q \in S |-> seen[q]]]
    BY <2>2, <2>3
  <2>6. call' \in [Callers -> Call] /\ alone' \in BOOLEAN
    BY <1>4, <2>2, <2>4, <2>5, NewSupersede, GoesTo DEF SupersedeNext
  <2>7. disk' \in [RecordIds -> Record \cup {NoRecord}]
    BY <1>1, <1>4, <2>1, <2>2, RecordShape DEF SupersedeNext
  <2> QED BY <1>2, <2>6, <2>7 DEF TypeInv, TypeOK
<1>5. CASE SaveNewRecord(c)
  <2>1. PICK r \in RecordIds :
          /\ disk' = [disk EXCEPT ![r] = NewRecord]
          /\ Goes(c, [at |-> "saveManifest", m |-> [call[c].m EXCEPT !.lastStaged = r]])
    BY <1>5 DEF SaveNewRecord
  <2>2. NewRecord \in Record
    BY DEF NewRecord, Record
  <2>3. disk' \in [RecordIds -> Record \cup {NoRecord}]
    BY <1>1, <2>1, <2>2
  <2>4. call[c].m \in Manifest
    BY <1>1, <1>5, CallShape DEF SaveNewRecord, SupersededAll, HasManifest
  <2>5. [call[c].m EXCEPT !.lastStaged = r] \in Manifest
    BY <2>4 DEF Manifest
  <2>6. call' \in [Callers -> Call] /\ alone' \in BOOLEAN
    BY <2>1, <2>5, NewCall, GoesTo
  <2> QED BY <1>2, <2>3, <2>6 DEF TypeInv, TypeOK
<1> QED BY <1>3, <1>4, <1>5

LEMMA DecisionWrites ==
    ASSUME TypeInv, NEW c \in Callers, SaveReview(c) \/ SaveDecision(c)
    PROVE  \E r \in RecordIds, new \in Record :
             /\ r = call[c].r
             /\ disk' = [disk EXCEPT ![r] = new]
             /\ new.launched = call[c].rec.launched /\ new.validated = call[c].rec.validated
             /\ SaveReview(c) => new.status = call[c].rec.status
             /\ SaveDecision(c) /\ call[c].at = "accept" => new.status = "accepted"
             /\ SaveDecision(c) /\ call[c].at = "reject" => new.status = "rejected"
<1>1. call[c] \in Call
  BY DEF TypeInv
<1>2. call[c].r \in RecordIds /\ call[c].rec \in Record
  BY <1>1, CallShape DEF SaveReview, SaveDecision, HasRecord
<1>3. CASE SaveReview(c)
  BY <1>2, <1>3 DEF SaveReview, SaveDecision
<1>4. PICK accepted, rejected : /\ accepted = [call[c].rec EXCEPT !.status = "accepted"]
                               /\ rejected = [call[c].rec EXCEPT !.status = "rejected"]
  OBVIOUS
<1>5. CASE SaveDecision(c)
  <2>1. \/ call[c].at = "accept" /\ disk' = [disk EXCEPT ![call[c].r] = accepted]
        \/ call[c].at = "reject" /\ disk' = [disk EXCEPT ![call[c].r] = rejected]
    BY <1>4, <1>5 DEF SaveDecision, WriteDecision
  <2>2. /\ accepted \in Record /\ accepted.status = "accepted"
        /\ accepted.launched = call[c].rec.launched /\ accepted.validated = call[c].rec.validated
        /\ rejected \in Record /\ rejected.status = "rejected"
        /\ rejected.launched = call[c].rec.launched /\ rejected.validated = call[c].rec.validated
    BY <1>2, <1>4, RecordShape
  <2>3. call[c].at # "review"
    BY <2>1
  <2>4. CASE call[c].at = "accept"
    BY <1>2, <2>1, <2>2, <2>3, <2>4 DEF SaveReview
  <2>5. CASE call[c].at = "reject"
    BY <1>2, <2>1, <2>2, <2>3, <2>5 DEF SaveReview
  <2> QED BY <2>1, <2>4, <2>5
<1> QED BY <1>3, <1>5

LEMMA RecordTypes ==
    ASSUME TypeInv, NEW c \in Callers,
           \/ \E r \in RecordIds : \/ LoadForReview(c, r)
                                   \/ \E word \in {"accept", "reject"} : LoadForDecision(c, r, word)
           \/ SaveReview(c) \/ SaveDecision(c) \/ RefuseAccept(c)
    PROVE  TypeInv'
<1>1. call[c] \in Call /\ disk \in [RecordIds -> Record \cup {NoRecord}]
  BY DEF TypeInv, TypeOK
<1>2. UNCHANGED <<manifest, lock, source>>
  BY DEF LoadForReview, LoadForDecision, SaveReview, SaveDecision, RefuseAccept
<1>3. \E k \in Call : Goes(c, k)
  <2>1. ASSUME NEW r \in RecordIds, LoadForReview(c, r)
        PROVE  \E k \in Call : Goes(c, k)
    <3>1. disk[r] \in Record
      BY <1>1, <2>1 DEF LoadForReview, NotDecided, NoRecord
    <3> QED BY <2>1, <3>1, RecordShape, NewCall DEF LoadForReview, HasRecord
  <2>2. ASSUME NEW r \in RecordIds, NEW word \in {"accept", "reject"}, LoadForDecision(c, r, word)
        PROVE  \E k \in Call : Goes(c, k)
    <3>1. disk[r] \in Record
      BY <1>1, <2>2 DEF LoadForDecision, NotDecided, NoRecord
    <3> QED BY <2>2, <3>1, NewCall DEF LoadForDecision, HasRecord
  <2>3. CASE SaveReview(c) \/ RefuseAccept(c)
    BY <2>3, NewCall DEF SaveReview, RefuseAccept
  <2>4. CASE SaveDecision(c)
    <3>1. [at |-> "waitFlags", accepted |-> call[c].at = "accept"] \in Call
      BY NewCall
    <3> QED BY <2>4, <3>1 DEF SaveDecision
  <2> QED BY <2>1, <2>2, <2>3, <2>4
<1>4. call' \in [Callers -> Call] /\ alone' \in BOOLEAN
  BY <1>3, GoesTo
<1>5. disk' \in [RecordIds -> Record \cup {NoRecord}]
  <2>1. CASE UNCHANGED disk
    BY <1>1, <2>1
  <2>2. CASE SaveReview(c) \/ SaveDecision(c)
    BY <1>1, <2>2, DecisionWrites
  <2> QED BY <2>1, <2>2 DEF LoadForReview, LoadForDecision, RefuseAccept
<1> QED BY <1>2, <1>4, <1>5 DEF TypeInv, TypeOK

LEMMA OtherTypes ==
    ASSUME TypeInv,
           \/ \E c \in Callers : LockDeadline(c) \/ Fail(c)
           \/ \E s \in Sources : OperatorSaves(s)
           \/ UNCHANGED vars
    PROVE  TypeInv'
<1>1. ASSUME NEW c \in Callers, LockDeadline(c) \/ Fail(c)
      PROVE  TypeInv'
  <2>1. call' \in [Callers -> Call] /\ alone' \in BOOLEAN
    BY <1>1, NewCall, GoesTo DEF LockDeadline, Fail
  <2>2. lock' \in Callers \cup {Nobody}
    BY <1>1 DEF LockDeadline, Fail, Release, TypeInv, TypeOK
  <2> QED BY <1>1, <2>1, <2>2 DEF LockDeadline, Fail, TypeInv, TypeOK
<1>2. CASE \E s \in Sources : OperatorSaves(s)
  BY <1>2 DEF OperatorSaves, TypeInv, TypeOK
<1>3. CASE UNCHANGED vars
  BY <1>3 DEF vars, TypeInv, TypeOK
<1> QED BY <1>1, <1>2, <1>3

\* The steps of Next, grouped by what they touch.
LEMMA StepIs ==
    ASSUME [Next]_vars
    PROVE  \/ \E c \in Callers :
                \/ BeginRefresh(c) \/ SaveManifest(c) \/ BeginStage(c) \/ LockForFlags(c)
                \/ ListActive(c) \/ SaveNewRecord(c)
                \/ SaveReview(c) \/ SaveDecision(c) \/ RefuseAccept(c)
                \/ LockDeadline(c) \/ Fail(c)
                \/ \E r \in RecordIds :
                     \/ SupersedeNext(c, r) \/ LoadForReview(c, r)
                     \/ \E word \in {"accept", "reject"} : LoadForDecision(c, r, word)
           \/ \E s \in Sources : OperatorSaves(s)
           \/ UNCHANGED vars
BY DEF Next, Begin, Proceed

LEMMA NextType == TypeInv /\ [Next]_vars => TypeInv'
BY ManifestTypes, StageTypes, RecordTypes, OtherTypes, StepIs

LEMMA TypedCalls == Spec => []TypeInv
BY InitType, NextType, PTL DEF Spec

\* Records, manifest, lock and calls hold what the code can have put there, for
\* any number of calls under way and of records.
THEOREM Typed == Spec => []TypeOK
<1>1. TypeInv => TypeOK
  BY DEF TypeInv
<1> QED BY <1>1, TypedCalls, PTL
-----------------------------------------------------------------------------
(* What a step does to a record *)

LEMMA SupersedeWrites ==
    ASSUME TypeInv, NEW c \in Callers, NEW r \in RecordIds, SupersedeNext(c, r)
    PROVE  \E new \in Record :
             /\ disk' = [disk EXCEPT ![r] = new]
             /\ new.status = "superseded" /\ r \in DOMAIN call[c].seen
             /\ call[c].at = "supersede"
<1>1. PICK seen : seen = call[c].seen
  OBVIOUS
<1>2. call[c] \in Call /\ call[c].at = "supersede" /\ r \in DOMAIN seen
  BY <1>1 DEF TypeInv, SupersedeNext
<1>3. seen[r] \in Record
  BY <1>1, <1>2, SeenShape
<1>4. PICK new \in Record : new = [seen[r] EXCEPT !.status = "superseded"]
  BY <1>3, RecordShape
<1>5. new.status = "superseded"
  BY <1>3, <1>4, RecordShape
<1>6. disk' = [disk EXCEPT ![r] = new]
  BY <1>1, <1>4 DEF SupersedeNext
<1> QED BY <1>1, <1>2, <1>5, <1>6

\* How a record comes to be what it is after a step.
Untouched(r) == disk'[r] = disk[r]

Staged(r) ==
    \E c \in Callers :
        /\ SaveNewRecord(c) /\ disk[r] = NoRecord /\ disk'[r] = NewRecord
        /\ \A q \in RecordIds : q < r => disk[q] # NoRecord

Superseded(r) ==
    \E c \in Callers : SupersedeNext(c, r) /\ disk'[r] \in Record /\ disk'[r].status = "superseded"

Saved(r) ==
    \E c \in Callers :
        /\ SaveReview(c) \/ SaveDecision(c)
        /\ call[c].r = r /\ disk'[r] \in Record
        /\ disk'[r].launched = call[c].rec.launched /\ disk'[r].validated = call[c].rec.validated
        /\ SaveReview(c) => disk'[r].status = call[c].rec.status
        /\ SaveDecision(c) /\ call[c].at = "accept" => disk'[r].status = "accepted"
        /\ SaveDecision(c) /\ call[c].at = "reject" => disk'[r].status = "rejected"

LEMMA RecordStep ==
    ASSUME TypeInv, [Next]_vars, NEW r \in RecordIds
    PROVE  Untouched(r) \/ Staged(r) \/ Superseded(r) \/ Saved(r)
<1>1. disk \in [RecordIds -> Record \cup {NoRecord}]
  BY DEF TypeInv, TypeOK
<1>2. CASE UNCHANGED disk
  BY <1>2 DEF Untouched
<1>3. ASSUME NEW c \in Callers, SaveNewRecord(c)
      PROVE  Untouched(r) \/ Staged(r)
  <2>1. PICK q \in RecordIds :
          /\ disk[q] = NoRecord /\ disk' = [disk EXCEPT ![q] = NewRecord]
          /\ \A p \in RecordIds : p < q => disk[p] # NoRecord
    BY <1>3 DEF SaveNewRecord
  <2> QED BY <1>1, <1>3, <2>1 DEF Untouched, Staged
<1>4. ASSUME NEW c \in Callers, NEW q \in RecordIds, SupersedeNext(c, q)
      PROVE  Untouched(r) \/ Superseded(r)
  BY <1>1, <1>4, SupersedeWrites DEF Untouched, Superseded
<1>5. ASSUME NEW c \in Callers, SaveReview(c) \/ SaveDecision(c)
      PROVE  Untouched(r) \/ Saved(r)
  <2>1. PICK q \in RecordIds, new \in Record :
             /\ q = call[c].r
             /\ disk' = [disk EXCEPT ![q] = new]
             /\ new.launched = call[c].rec.launched /\ new.validated = call[c].rec.validated
             /\ SaveReview(c) => new.status = call[c].rec.status
             /\ SaveDecision(c) /\ call[c].at = "accept" => new.status = "accepted"
             /\ SaveDecision(c) /\ call[c].at = "reject" => new.status = "rejected"
    BY <1>5, DecisionWrites
  <2>2. CASE r = q
    <3>1. disk'[r] = new
      BY <1>1, <2>1, <2>2
    <3> QED BY <1>5, <2>1, <2>2, <3>1 DEF Saved
  <2>3. CASE r # q
    BY <1>1, <2>1, <2>3 DEF Untouched
  <2> QED BY <2>2, <2>3
<1> QED BY <1>2, <1>3, <1>4, <1>5, StepIs
        DEF BeginRefresh, SaveManifest, BeginStage, LockForFlags, ListActive, RefuseAccept, LockDeadline,
            Fail, LoadForReview, LoadForDecision, OperatorSaves, vars

LEMMA StoredStays ==
    ASSUME TypeInv, [Next]_vars, NEW r \in RecordIds, disk[r] # NoRecord
    PROVE  disk'[r] # NoRecord
<1>1. \A rec \in Record : rec # NoRecord
  BY RecordShape
<1>2. NewRecord \in Record
  BY DEF NewRecord, Record
<1> QED BY <1>1, <1>2, RecordStep DEF Untouched, Staged, Superseded, Saved

\* How a call comes to be where it is after a step.
LEMMA CallStep ==
    ASSUME TypeInv, [Next]_vars, NEW c \in Callers
    PROVE  \/ call'[c] = call[c] /\ (lock = c => lock' = c)
           \/ call'[c] = Idle
           \/ BeginRefresh(c) \/ BeginStage(c) \/ LockForFlags(c)
           \/ ListActive(c) \/ SaveNewRecord(c) \/ SaveDecision(c)
           \/ \E r \in RecordIds :
                \/ SupersedeNext(c, r) \/ LoadForReview(c, r)
                \/ \E word \in {"accept", "reject"} : LoadForDecision(c, r, word)
<1>1. c # Nobody
  OBVIOUS
<1>2. ASSUME NEW d \in Callers, NEW k, Goes(d, k), d # c
      PROVE  call'[c] = call[c]
  BY <1>2, GoesTo
<1>3. ASSUME NEW d \in Callers, Acquire(d)
      PROVE  lock # c
  BY <1>1, <1>3 DEF Acquire
<1>4. ASSUME NEW d \in Callers, Release(d), d # c
      PROVE  lock = c => lock' = c
  BY <1>4 DEF Release
<1>5. ASSUME NEW d \in Callers, d # c,
                \/ BeginRefresh(d) \/ SaveManifest(d) \/ BeginStage(d) \/ LockForFlags(d)
                \/ ListActive(d) \/ SaveNewRecord(d)
                \/ SaveReview(d) \/ SaveDecision(d) \/ RefuseAccept(d)
                \/ LockDeadline(d) \/ Fail(d)
                \/ \E r \in RecordIds :
                     \/ SupersedeNext(d, r) \/ LoadForReview(d, r)
                     \/ \E word \in {"accept", "reject"} : LoadForDecision(d, r, word)
      PROVE  call'[c] = call[c] /\ (lock = c => lock' = c)
  <2>1. \E k : Goes(d, k)
    BY <1>5 DEF BeginRefresh, SaveManifest, BeginStage, LockForFlags, ListActive, SaveNewRecord, SaveReview,
                SaveDecision, RefuseAccept, LockDeadline, Fail, SupersedeNext, LoadForReview, LoadForDecision
  <2>2. lock' = lock \/ Acquire(d) \/ Release(d)
    BY <1>5 DEF BeginRefresh, SaveManifest, BeginStage, LockForFlags, ListActive, SaveNewRecord, SaveReview,
                SaveDecision, RefuseAccept, LockDeadline, Fail, SupersedeNext, LoadForReview, LoadForDecision
  <2> QED BY <1>2, <1>3, <1>4, <1>5, <2>1, <2>2
<1>6. CASE \/ SaveManifest(c) \/ SaveReview(c) \/ RefuseAccept(c) \/ LockDeadline(c) \/ Fail(c)
  BY <1>6, GoesTo DEF SaveManifest, SaveReview, RefuseAccept, LockDeadline, Fail
<1>7. CASE (\E s \in Sources : OperatorSaves(s)) \/ UNCHANGED vars
  BY <1>7 DEF OperatorSaves, vars
<1> QED BY <1>5, <1>6, <1>7, StepIs
-----------------------------------------------------------------------------
(* The evidence of an accept *)

EvidenceInv ==
    /\ AcceptedHasEvidence
    /\ \A c \in Callers :
         /\ call[c].at = "accept" => call[c].rec.launched /\ call[c].rec.validated
         /\ call[c].at = "review" => call[c].rec.status = "staged"

LEMMA EvidenceInit == Init => EvidenceInv
<1> SUFFICES ASSUME Init PROVE EvidenceInv
  OBVIOUS
<1>1. \A r \in RecordIds : disk[r].status = "none"
  BY DEF Init, NoRecord
<1>2. \A c \in Callers : call[c].at = "idle"
  BY DEF Init, Idle
<1> QED BY <1>1, <1>2 DEF EvidenceInv, AcceptedHasEvidence

LEMMA EvidenceNext ==
    ASSUME TypeInv, EvidenceInv, [Next]_vars
    PROVE  EvidenceInv'
<1>1. ASSUME NEW r \in RecordIds, disk'[r].status = "accepted"
      PROVE  disk'[r].launched /\ disk'[r].validated
  <2>1. CASE Untouched(r)
    BY <1>1, <2>1 DEF Untouched, EvidenceInv, AcceptedHasEvidence
  <2>2. ~Staged(r) /\ ~Superseded(r)
    BY <1>1 DEF Staged, Superseded, NewRecord
  <2>3. CASE Saved(r)
    <3>1. PICK c \in Callers :
            /\ SaveReview(c) \/ SaveDecision(c)
            /\ disk'[r].launched = call[c].rec.launched /\ disk'[r].validated = call[c].rec.validated
            /\ SaveReview(c) => disk'[r].status = call[c].rec.status
            /\ SaveDecision(c) /\ call[c].at = "reject" => disk'[r].status = "rejected"
      BY <2>3 DEF Saved
    <3>2. ~SaveReview(c)
      BY <1>1, <3>1 DEF EvidenceInv, SaveReview
    <3>3. call[c].at = "accept"
      BY <1>1, <3>1, <3>2 DEF SaveDecision
    <3> QED BY <3>1, <3>3 DEF EvidenceInv
  <2> QED BY <2>1, <2>2, <2>3, RecordStep
<1>2. ASSUME NEW c \in Callers
      PROVE  /\ call'[c].at = "accept" => call'[c].rec.launched /\ call'[c].rec.validated
             /\ call'[c].at = "review" => call'[c].rec.status = "staged"
  <2>1. CASE call'[c] = call[c]
    BY <2>1 DEF EvidenceInv
  <2>2. CASE call'[c] = Idle
    BY <2>2 DEF Idle
  <2>3. ASSUME NEW r \in RecordIds, LoadForReview(c, r)
        PROVE  call'[c].at = "review" /\ call'[c].rec.status = "staged"
    <3>1. disk[r] \in Record /\ disk[r].status = "staged"
      BY <2>3 DEF LoadForReview, NotDecided, NoRecord, TypeInv, TypeOK
    <3>2. PICK new \in ReviewOutcomes(disk[r]) : Goes(c, [at |-> "review", r |-> r, rec |-> new])
      BY <2>3 DEF LoadForReview
    <3>3. call'[c] = [at |-> "review", r |-> r, rec |-> new]
      BY <3>2, GoesTo
    <3>4. new.status = "staged"
      BY <3>1, <3>2, RecordShape
    <3> QED BY <3>3, <3>4
  <2>4. ASSUME NEW r \in RecordIds, NEW word \in {"accept", "reject"}, LoadForDecision(c, r, word)
        PROVE  /\ call'[c].at = word
               /\ word = "accept" => call'[c].rec.launched /\ call'[c].rec.validated
    <3>1. call'[c] = [at |-> word, r |-> r, rec |-> disk[r]]
      BY <2>4, GoesTo DEF LoadForDecision
    <3> QED BY <2>4, <3>1 DEF LoadForDecision
  <2>5. CASE \/ BeginRefresh(c) \/ BeginStage(c) \/ LockForFlags(c)
             \/ ListActive(c) \/ SaveNewRecord(c) \/ SaveDecision(c)
    <3>1. BeginRefresh(c) => call'[c].at = "refresh"
      BY GoesTo DEF BeginRefresh
    <3>2. BeginStage(c) => call'[c].at = "list"
      BY GoesTo DEF BeginStage
    <3>3. LockForFlags(c) => call'[c].at = "flags"
      BY GoesTo DEF LockForFlags
    <3>4. ListActive(c) => call'[c].at = "supersede"
      BY GoesTo DEF ListActive
    <3>5. SaveNewRecord(c) => call'[c].at = "saveManifest"
      BY GoesTo DEF SaveNewRecord
    <3>6. SaveDecision(c) => call'[c].at = "waitFlags"
      BY GoesTo DEF SaveDecision
    <3> QED BY <2>5, <3>1, <3>2, <3>3, <3>4, <3>5, <3>6
  <2>6. ASSUME NEW r \in RecordIds, SupersedeNext(c, r)
        PROVE  call'[c].at = "supersede"
    <3>1. call[c] \in Call /\ call[c].at = "supersede"
      BY <2>6 DEF SupersedeNext, TypeInv
    <3>2. [call[c] EXCEPT !.seen = [q \in DOMAIN @ \ {r} |-> @[q]]].at = "supersede"
      BY <3>1, SeenShape
    <3> QED BY <2>6, <3>2, GoesTo DEF SupersedeNext
  <2> QED BY <2>1, <2>2, <2>3, <2>4, <2>5, <2>6, CallStep
<1> QED BY <1>1, <1>2 DEF EvidenceInv, AcceptedHasEvidence

\* An accepted record was validated and launched, by what the record itself says,
\* however calls overlapped and wherever one died.
THEOREM AcceptsHaveEvidence == Spec => []AcceptedHasEvidence
<1>1. EvidenceInv => AcceptedHasEvidence
  BY DEF EvidenceInv
<1> QED BY <1>1, EvidenceInit, EvidenceNext, TypedCalls, PTL DEF Spec
-----------------------------------------------------------------------------
(* The manifest *)

\* Where a call is that has read the manifest, and what it has made of it.
LEMMA ManifestCalls ==
    ASSUME TypeInv, [Next]_vars, NEW c \in Callers, call'[c].at \in HasManifest
    PROVE  \/ call'[c] = call[c] /\ (lock = c => lock' = c)
           \/ /\ BeginRefresh(c) /\ lock' = c
              /\ call'[c].at = "refresh" /\ call'[c].m.lastStaged = 0
           \/ /\ BeginStage(c) /\ lock' = c
              /\ call'[c].at = "list" /\ call'[c].m = manifest
           \/ /\ LockForFlags(c) /\ lock' = c
              /\ call'[c].at = "flags" /\ call'[c].m.lastStaged = manifest.lastStaged
           \/ /\ ListActive(c) \/ \E r \in RecordIds : SupersedeNext(c, r)
              /\ lock' = lock
              /\ call[c].at \in {"list", "supersede"} /\ call'[c].at = "supersede"
              /\ call'[c].m = call[c].m
           \/ /\ SaveNewRecord(c) /\ lock' = lock
              /\ call[c].at = "supersede" /\ call'[c].at = "saveManifest"
              /\ call'[c].m.requiresRefresh = call[c].m.requiresRefresh
              /\ call'[c].m.lastStaged \in RecordIds /\ disk'[call'[c].m.lastStaged] # NoRecord
<1>1. call[c] \in Call
  BY DEF TypeInv
<1>2. call'[c] # Idle
  BY DEF HasManifest, Idle
<1>3. CASE BeginRefresh(c)
  BY <1>3, GoesTo DEF BeginRefresh, Acquire
<1>4. CASE BeginStage(c)
  BY <1>4, GoesTo DEF BeginStage, Acquire
<1>5. CASE LockForFlags(c)
  <2>1. manifest \in Manifest
    BY <1>5 DEF LockForFlags, TypeInv, TypeOK, NoSession
  <2>2. PICK m : m = [manifest EXCEPT !.requiresRefresh = call[c].accepted]
    OBVIOUS
  <2>3. m.lastStaged = manifest.lastStaged
    BY <2>1, <2>2 DEF Manifest
  <2>4. Goes(c, [at |-> "flags", m |-> m]) /\ lock' = c
    BY <1>5, <2>2 DEF LockForFlags, Acquire
  <2>5. call'[c] = [at |-> "flags", m |-> m]
    BY <2>4, GoesTo
  <2> QED BY <1>5, <2>3, <2>4, <2>5
<1>6. CASE ListActive(c)
  BY <1>6, GoesTo DEF ListActive
<1>7. ASSUME NEW r \in RecordIds, SupersedeNext(c, r)
      PROVE  /\ lock' = lock /\ call[c].at = "supersede" /\ call'[c].at = "supersede"
             /\ call'[c].m = call[c].m
  <2>1. PICK k : k = [call[c] EXCEPT !.seen = [q \in DOMAIN @ \ {r} |-> @[q]]]
    OBVIOUS
  <2>2. call[c].at = "supersede" /\ lock' = lock /\ Goes(c, k)
    BY <1>7, <2>1 DEF SupersedeNext
  <2>3. k.at = "supersede" /\ k.m = call[c].m
    BY <1>1, <2>1, <2>2, SeenShape
  <2> QED BY <2>2, <2>3, GoesTo
<1>8. CASE SaveNewRecord(c)
  <2>1. PICK r \in RecordIds :
          /\ disk' = [disk EXCEPT ![r] = NewRecord]
          /\ Goes(c, [at |-> "saveManifest", m |-> [call[c].m EXCEPT !.lastStaged = r]])
    BY <1>8 DEF SaveNewRecord
  <2>2. call[c].at = "supersede" /\ call[c].m \in Manifest /\ lock' = lock
    BY <1>1, <1>8, CallShape DEF SaveNewRecord, SupersededAll, HasManifest
  <2>3. PICK m : m = [call[c].m EXCEPT !.lastStaged = r]
    OBVIOUS
  <2>4. m.lastStaged = r /\ m.requiresRefresh = call[c].m.requiresRefresh
    BY <2>2, <2>3 DEF Manifest
  <2>5. call'[c] = [at |-> "saveManifest", m |-> m]
    BY <2>1, <2>3, GoesTo
  <2>6. disk'[r] = NewRecord /\ NewRecord # NoRecord
    BY <2>1 DEF TypeInv, TypeOK, NewRecord, NoRecord
  <2> QED BY <1>8, <2>2, <2>4, <2>5, <2>6
<1>9. CASE SaveDecision(c)
  BY <1>9, GoesTo DEF SaveDecision, HasManifest
<1>10. ASSUME NEW r \in RecordIds,
              LoadForReview(c, r) \/ \E word \in {"accept", "reject"} : LoadForDecision(c, r, word)
       PROVE  FALSE
  <2>1. ASSUME LoadForReview(c, r)
        PROVE  call'[c].at = "review"
    <3>1. PICK new : Goes(c, [at |-> "review", r |-> r, rec |-> new])
      BY <2>1 DEF LoadForReview
    <3> QED BY <3>1, GoesTo
  <2>2. ASSUME NEW word \in {"accept", "reject"}, LoadForDecision(c, r, word)
        PROVE  call'[c].at = word
    <3>1. Goes(c, [at |-> word, r |-> r, rec |-> disk[r]])
      BY <2>2 DEF LoadForDecision
    <3> QED BY <3>1, GoesTo
  <2> QED BY <1>10, <2>1, <2>2 DEF HasManifest
<1> QED BY <1>2, <1>3, <1>4, <1>5, <1>6, <1>7, <1>8, <1>9, <1>10, CallStep

ManifestStep == manifest' = manifest \/ \E c \in Callers : SaveManifest(c)

LEMMA ManifestIsSaved == [Next]_vars => ManifestStep
<1> SUFFICES ASSUME [Next]_vars PROVE ManifestStep
  OBVIOUS
<1>1. ASSUME NEW c \in Callers,
             \/ BeginRefresh(c) \/ BeginStage(c) \/ LockForFlags(c)
             \/ ListActive(c) \/ SaveNewRecord(c)
             \/ SaveReview(c) \/ SaveDecision(c) \/ RefuseAccept(c)
             \/ LockDeadline(c) \/ Fail(c)
      PROVE  manifest' = manifest
  BY <1>1 DEF BeginRefresh, BeginStage, LockForFlags, ListActive, SaveNewRecord, SaveReview,
              SaveDecision, RefuseAccept, LockDeadline, Fail
<1>2. ASSUME NEW c \in Callers, NEW r \in RecordIds,
             \/ SupersedeNext(c, r) \/ LoadForReview(c, r)
             \/ \E word \in {"accept", "reject"} : LoadForDecision(c, r, word)
      PROVE  manifest' = manifest
  BY <1>2 DEF SupersedeNext, LoadForReview, LoadForDecision
<1>3. ASSUME (\E s \in Sources : OperatorSaves(s)) \/ UNCHANGED vars
      PROVE  manifest' = manifest
  BY <1>3 DEF OperatorSaves, vars
<1> QED BY <1>1, <1>2, <1>3, StepIs DEF ManifestStep

\* Neither the manifest nor a call that is to write it names a record that is
\* not there.
NamesInv ==
    /\ ManifestNamesStoredRecord
    /\ \A c \in Callers :
         call[c].at \in HasManifest /\ call[c].m.lastStaged # 0 =>
             disk[call[c].m.lastStaged] # NoRecord

LEMMA NamesInit == Init => NamesInv
<1> SUFFICES ASSUME Init PROVE NamesInv
  OBVIOUS
<1>1. ~manifest.open
  BY DEF Init, NoSession
<1>2. \A c \in Callers : call[c].at \notin HasManifest
  BY DEF Init, Idle, HasManifest
<1> QED BY <1>1, <1>2 DEF NamesInv, ManifestNamesStoredRecord

LEMMA NamesNext ==
    ASSUME TypeInv, NamesInv, [Next]_vars
    PROVE  NamesInv'
<1>1. \A r \in RecordIds : disk[r] # NoRecord => disk'[r] # NoRecord
  BY StoredStays
<1>2. \A m \in Manifest : m.lastStaged \in {0} \cup RecordIds
  BY DEF Manifest
<1>3. \A c \in Callers : call[c].at \in HasManifest => call[c].m \in Manifest
  BY CallShape DEF TypeInv
<1>4. manifest.open => manifest \in Manifest
  BY DEF TypeInv, TypeOK, NoSession
<1>5. ManifestNamesStoredRecord'
  <2>1. CASE manifest' = manifest
    BY <1>1, <1>2, <1>4, <2>1 DEF NamesInv, ManifestNamesStoredRecord
  <2>2. ASSUME NEW c \in Callers, SaveManifest(c)
        PROVE  ManifestNamesStoredRecord'
    <3>1. call[c].at \in HasManifest /\ manifest' = call[c].m
      BY <2>2 DEF SaveManifest, HasManifest
    <3> QED BY <1>1, <1>2, <1>3, <3>1 DEF NamesInv, ManifestNamesStoredRecord
  <2> QED BY <2>1, <2>2, ManifestIsSaved DEF ManifestStep
<1>6. ASSUME NEW c \in Callers, call'[c].at \in HasManifest, call'[c].m.lastStaged # 0
      PROVE  disk'[call'[c].m.lastStaged] # NoRecord
  <2>1. CASE call[c].at \in HasManifest /\ call'[c].m = call[c].m
    BY <1>1, <1>2, <1>3, <1>6, <2>1 DEF NamesInv
  <2>2. CASE manifest.open /\ call'[c].m.lastStaged = manifest.lastStaged
    BY <1>1, <1>2, <1>4, <1>6, <2>2 DEF NamesInv, ManifestNamesStoredRecord
  <2> QED BY <1>6, <2>1, <2>2, ManifestCalls DEF HasManifest, BeginStage, LockForFlags
<1> QED BY <1>5, <1>6 DEF NamesInv

\* A manifest never names a record that was not written, wherever a Stage died.
THEOREM ManifestNamesStored == Spec => []ManifestNamesStoredRecord
<1>1. NamesInv => ManifestNamesStoredRecord
  BY DEF NamesInv
<1> QED BY <1>1, NamesInit, NamesNext, TypedCalls, PTL DEF Spec

\* Who has read the manifest holds its lock, and a Stage has it as it still is.
GateInv ==
    \A c \in Callers :
        /\ call[c].at \in HasManifest => lock = c
        /\ call[c].at \in {"list", "supersede", "saveManifest"} =>
             ~call[c].m.requiresRefresh /\ ~manifest.requiresRefresh

LEMMA GateInit == Init => GateInv
<1> SUFFICES ASSUME Init PROVE GateInv
  OBVIOUS
<1>1. \A c \in Callers : call[c].at = "idle"
  BY DEF Init, Idle
<1> QED BY <1>1 DEF GateInv, HasManifest

LEMMA GateNext ==
    ASSUME TypeInv, GateInv, [Next]_vars
    PROVE  GateInv'
<1> SUFFICES ASSUME NEW c \in Callers, call'[c].at \in HasManifest
             PROVE  /\ lock' = c
                    /\ call'[c].at \in {"list", "supersede", "saveManifest"} =>
                         ~call'[c].m.requiresRefresh /\ ~manifest'.requiresRefresh
  BY DEF GateInv, HasManifest
<1>1. lock' = c
  BY ManifestCalls DEF GateInv, HasManifest
<1>2. CASE \E d \in Callers : SaveManifest(d)
  <2>1. PICK d \in Callers : SaveManifest(d)
    BY <1>2
  <2>2. lock = d /\ call'[d] = Idle
    BY <2>1, GoesTo DEF SaveManifest, GateInv, HasManifest
  <2>3. d # c
    BY <2>2 DEF Idle, HasManifest
  <2>4. lock' = Nobody
    BY <2>1, <2>2 DEF SaveManifest, Release
  <2> QED BY <1>1, <2>4
<1>3. CASE manifest' = manifest
  <2>1. CASE BeginStage(c)
    BY <1>1, <1>3, <2>1, GoesTo DEF BeginStage
  <2>2. CASE ~BeginStage(c)
    BY <1>1, <1>3, <2>2, ManifestCalls DEF GateInv
  <2> QED BY <2>1, <2>2
<1> QED BY <1>2, <1>3, ManifestIsSaved DEF ManifestStep

\* The manifest that a Stage read at its start and writes at its end does not undo
\* what another call wrote between, because the lock is held all the time.
THEOREM StagesKeepGate == Spec => StageKeepsGate
<1>1. ASSUME TypeInv, GateInv, [Next]_vars,
             manifest.open, manifest.requiresRefresh, ~manifest'.requiresRefresh
      PROVE  \E c \in Callers : call[c].at \in {"refresh", "flags"} /\ call'[c] = Idle
  <2>1. PICK c \in Callers : SaveManifest(c)
    BY <1>1, ManifestIsSaved DEF ManifestStep
  <2>2. call[c].at \in {"refresh", "saveManifest", "flags"} /\ call'[c] = Idle
    BY <1>1, <2>1, GoesTo DEF SaveManifest
  <2>3. call[c].at # "saveManifest"
    BY <1>1 DEF GateInv
  <2> QED BY <2>2, <2>3
<1> QED BY <1>1, GateInit, GateNext, TypedCalls, PTL DEF Spec, StageKeepsGate
-----------------------------------------------------------------------------
(* Calls that come one at a time *)

OneAtATime == \A c, d \in Callers : call[c] # Idle /\ call[d] # Idle => c = d

\* What the call under way has read of the records is still so.
ReadIsCurrent ==
    \A c \in Callers :
        /\ call[c].at \in HasRecord => disk[call[c].r].status = "staged"
        /\ call[c].at = "supersede" =>
             DOMAIN call[c].seen = {r \in RecordIds : disk[r].status = "staged"}

Decided(r) == disk[r].status \in {"superseded", "accepted", "rejected"}

\* Only the newest record can wait for a decision.
OldAreDecided == \A r, q \in RecordIds : r < q /\ disk[q] # NoRecord => Decided(r)

AloneInv == alone => OneAtATime /\ ReadIsCurrent /\ OldAreDecided

LEMMA AloneInit == Init => AloneInv
<1> SUFFICES ASSUME Init PROVE AloneInv
  OBVIOUS
<1>1. \A c \in Callers : call[c] = Idle /\ call[c].at = "idle"
  BY DEF Init, Idle
<1>2. \A r \in RecordIds : disk[r] = NoRecord
  BY DEF Init
<1> QED BY <1>1, <1>2 DEF AloneInv, OneAtATime, ReadIsCurrent, OldAreDecided, HasRecord

StepOf(c) ==
    \/ BeginRefresh(c) \/ SaveManifest(c) \/ BeginStage(c) \/ LockForFlags(c)
    \/ ListActive(c) \/ SaveNewRecord(c)
    \/ SaveReview(c) \/ SaveDecision(c) \/ RefuseAccept(c)
    \/ LockDeadline(c) \/ Fail(c)
    \/ \E r \in RecordIds :
         \/ SupersedeNext(c, r) \/ LoadForReview(c, r)
         \/ \E word \in {"accept", "reject"} : LoadForDecision(c, r, word)

\* As long as calls are alone, the others are idle while one takes a step.
LEMMA OthersIdle ==
    ASSUME TypeInv, AloneInv, [Next]_vars, alone'
    PROVE  /\ alone
           /\ \/ UNCHANGED <<call, disk>>
              \/ \E c \in Callers :
                   /\ StepOf(c)
                   /\ \A d \in Callers \ {c} : call[d] = Idle /\ call'[d] = Idle
<1>1. ASSUME NEW c \in Callers, StepOf(c)
      PROVE  /\ alone
             /\ \A d \in Callers \ {c} : call[d] = Idle /\ call'[d] = Idle
  <2>1. CASE call[c] # Idle
    <3>1. \E k : Goes(c, k)
      BY <1>1 DEF StepOf, BeginRefresh, SaveManifest, BeginStage, LockForFlags, ListActive, SaveNewRecord,
                  SaveReview, SaveDecision, RefuseAccept, LockDeadline, Fail, SupersedeNext, LoadForReview,
                  LoadForDecision
    <3> QED BY <2>1, <3>1, GoesTo DEF AloneInv, OneAtATime
  <2>2. CASE call[c] = Idle
    <3>1. call[c].at = "idle"
      BY <2>2 DEF Idle
    <3>2. \/ BeginRefresh(c) \/ BeginStage(c)
          \/ \E r \in RecordIds :
               LoadForReview(c, r) \/ \E word \in {"accept", "reject"} : LoadForDecision(c, r, word)
      BY <1>1, <2>2, <3>1 DEF StepOf, SaveManifest, LockForFlags, ListActive, SaveNewRecord, SupersededAll,
              SaveReview, SaveDecision, RefuseAccept, LockDeadline, Fail, SupersedeNext
    <3>3. ASSUME NEW k, Goes(c, k), k.at # "idle"
          PROVE  alone /\ \A d \in Callers \ {c} : call[d] = Idle /\ call'[d] = Idle
      <4>1. k # Idle
        BY <3>3 DEF Idle
      <4> QED BY <3>3, <4>1, GoesTo
    <3>4. ASSUME NEW m, NEW at, at # "idle", Goes(c, [at |-> at, m |-> m])
          PROVE  alone /\ \A d \in Callers \ {c} : call[d] = Idle /\ call'[d] = Idle
      BY <3>3, <3>4
    <3>5. ASSUME NEW r, NEW rec, NEW at, at # "idle", Goes(c, [at |-> at, r |-> r, rec |-> rec])
          PROVE  alone /\ \A d \in Callers \ {c} : call[d] = Idle /\ call'[d] = Idle
      BY <3>3, <3>5
    <3>6. CASE BeginRefresh(c) \/ BeginStage(c)
      BY <3>4, <3>6 DEF BeginRefresh, BeginStage
    <3>7. ASSUME NEW r \in RecordIds, LoadForReview(c, r)
          PROVE  alone /\ \A d \in Callers \ {c} : call[d] = Idle /\ call'[d] = Idle
      BY <3>5, <3>7 DEF LoadForReview
    <3>8. ASSUME NEW r \in RecordIds, NEW word \in {"accept", "reject"}, LoadForDecision(c, r, word)
          PROVE  alone /\ \A d \in Callers \ {c} : call[d] = Idle /\ call'[d] = Idle
      BY <3>5, <3>8 DEF LoadForDecision
    <3> QED BY <3>2, <3>6, <3>7, <3>8
  <2> QED BY <2>1, <2>2
<1>2. ASSUME (\E s \in Sources : OperatorSaves(s)) \/ UNCHANGED vars
      PROVE  alone /\ UNCHANGED <<call, disk>>
  BY <1>2 DEF OperatorSaves, vars
<1>3. (\E c \in Callers : StepOf(c)) \/ (\E s \in Sources : OperatorSaves(s)) \/ UNCHANGED vars
  BY StepIs DEF StepOf
<1> QED BY <1>1, <1>2, <1>3

\* What a step of c leaves c reading.
LEMMA ReadByStep ==
    ASSUME TypeInv, NEW c \in Callers, StepOf(c)
    PROVE  \/ call'[c].at \notin HasRecord \cup {"supersede"}
           \/ /\ disk' = disk
              /\ call'[c].at \in HasRecord /\ disk[call'[c].r].status = "staged"
           \/ /\ disk' = disk
              /\ call'[c].at = "supersede"
              /\ DOMAIN call'[c].seen = {r \in RecordIds : disk[r].status = "staged"}
           \/ \E r \in RecordIds :
                /\ SupersedeNext(c, r)
                /\ call'[c].at = "supersede"
                /\ DOMAIN call'[c].seen = DOMAIN call[c].seen \ {r}
<1>1. ASSUME NEW k, Goes(c, k), k.at \notin HasRecord \cup {"supersede"}
      PROVE  call'[c].at \notin HasRecord \cup {"supersede"}
  BY <1>1, GoesTo
<1>2. Idle.at \notin HasRecord \cup {"supersede"}
  BY DEF Idle, HasRecord
<1>3. CASE SaveManifest(c) \/ SaveReview(c) \/ RefuseAccept(c) \/ LockDeadline(c) \/ Fail(c)
  BY <1>1, <1>2, <1>3 DEF SaveManifest, SaveReview, RefuseAccept, LockDeadline, Fail
<1>4. ASSUME NEW at, NEW m, Goes(c, [at |-> at, m |-> m]), at \in {"refresh", "list", "flags", "saveManifest"}
      PROVE  call'[c].at \notin HasRecord \cup {"supersede"}
  BY <1>4, GoesTo DEF HasRecord
<1>5. CASE BeginRefresh(c) \/ BeginStage(c) \/ LockForFlags(c) \/ SaveNewRecord(c)
  BY <1>4, <1>5 DEF BeginRefresh, BeginStage, LockForFlags, SaveNewRecord
<1>6. CASE SaveDecision(c)
  <2>1. call'[c].at = "waitFlags"
    BY <1>6, GoesTo DEF SaveDecision
  <2> QED BY <2>1 DEF HasRecord
<1>7. CASE ListActive(c)
  <2>1. PICK active : active = {r \in RecordIds : disk[r].status = "staged"}
    OBVIOUS
  <2>2. PICK seen : seen = [r \in active |-> disk[r]]
    OBVIOUS
  <2>3. Goes(c, [at |-> "supersede", m |-> call[c].m, seen |-> seen])
    BY <1>7, <2>1, <2>2 DEF ListActive, NotDecided
  <2>4. call'[c] = [at |-> "supersede", m |-> call[c].m, seen |-> seen]
    BY <2>3, GoesTo
  <2>5. disk' = disk
    BY <1>7 DEF ListActive
  <2> QED BY <2>1, <2>2, <2>4, <2>5
<1>8. ASSUME NEW r \in RecordIds, SupersedeNext(c, r)
      PROVE  call'[c].at = "supersede" /\ DOMAIN call'[c].seen = DOMAIN call[c].seen \ {r}
  <2>1. PICK k : k = [call[c] EXCEPT !.seen = [q \in DOMAIN @ \ {r} |-> @[q]]]
    OBVIOUS
  <2>2. call[c] \in Call /\ call[c].at = "supersede" /\ Goes(c, k)
    BY <1>8, <2>1 DEF SupersedeNext, TypeInv
  <2>3. k.at = "supersede" /\ DOMAIN k.seen = DOMAIN call[c].seen \ {r}
    BY <2>1, <2>2, SeenShape
  <2> QED BY <2>2, <2>3, GoesTo
<1>9. ASSUME NEW r \in RecordIds, LoadForReview(c, r)
      PROVE  disk' = disk /\ call'[c].at \in HasRecord /\ disk[call'[c].r].status = "staged"
  <2>1. PICK new : Goes(c, [at |-> "review", r |-> r, rec |-> new])
    BY <1>9 DEF LoadForReview
  <2>2. call'[c] = [at |-> "review", r |-> r, rec |-> new]
    BY <2>1, GoesTo
  <2> QED BY <1>9, <2>2 DEF LoadForReview, NotDecided, HasRecord
<1>10. ASSUME NEW r \in RecordIds, NEW word \in {"accept", "reject"}, LoadForDecision(c, r, word)
       PROVE  disk' = disk /\ call'[c].at \in HasRecord /\ disk[call'[c].r].status = "staged"
  <2>1. Goes(c, [at |-> word, r |-> r, rec |-> disk[r]])
    BY <1>10 DEF LoadForDecision
  <2>2. call'[c] = [at |-> word, r |-> r, rec |-> disk[r]]
    BY <2>1, GoesTo
  <2> QED BY <1>10, <2>2 DEF LoadForDecision, NotDecided, HasRecord
<1> QED BY <1>3, <1>5, <1>6, <1>7, <1>8, <1>9, <1>10 DEF StepOf

\* While calls are alone, what is decided or superseded stays so.
LEMMA DecidedStays ==
    ASSUME TypeInv, EvidenceInv, AloneInv, [Next]_vars, alone, NEW r \in RecordIds, Decided(r)
    PROVE  disk'[r].status = disk[r].status
<1>1. CASE Untouched(r)
  BY <1>1 DEF Untouched
<1>2. ~Staged(r)
  BY DEF Staged, Decided, NoRecord
<1>3. ~Superseded(r)
  BY DEF Superseded, SupersedeNext, AloneInv, ReadIsCurrent, Decided
<1>4. ~Saved(r)
  <2>1. ASSUME NEW c \in Callers, SaveReview(c) \/ SaveDecision(c), call[c].r = r
        PROVE  FALSE
    <3>1. call[c].at \in HasRecord
      BY <2>1 DEF SaveReview, SaveDecision, HasRecord
    <3> QED BY <2>1, <3>1 DEF AloneInv, ReadIsCurrent, Decided
  <2> QED BY <2>1 DEF Saved
<1> QED BY <1>1, <1>2, <1>3, <1>4, RecordStep

LEMMA AloneNext ==
    ASSUME TypeInv, EvidenceInv, AloneInv, [Next]_vars
    PROVE  AloneInv'
<1> SUFFICES ASSUME alone' PROVE (OneAtATime /\ ReadIsCurrent /\ OldAreDecided)'
  BY DEF AloneInv
<1>1. alone
  BY OthersIdle
<1>2. CASE UNCHANGED <<call, disk>>
  BY <1>1, <1>2 DEF AloneInv, OneAtATime, ReadIsCurrent, OldAreDecided, Decided
<1>3. ASSUME NEW c \in Callers, StepOf(c),
             \A d \in Callers \ {c} : call[d] = Idle /\ call'[d] = Idle
      PROVE  (OneAtATime /\ ReadIsCurrent /\ OldAreDecided)'
  <2>1. OneAtATime'
    BY <1>3 DEF OneAtATime
  <2>2. ReadIsCurrent'
    <3> SUFFICES ASSUME NEW d \in Callers
                 PROVE  /\ call'[d].at \in HasRecord => disk'[call'[d].r].status = "staged"
                        /\ call'[d].at = "supersede" =>
                             DOMAIN call'[d].seen = {r \in RecordIds : disk'[r].status = "staged"}
      BY DEF ReadIsCurrent
    <3>1. CASE d # c
      BY <1>3, <3>1 DEF Idle, HasRecord
    <3>2. CASE d = c
      <4>1. ASSUME NEW r \in RecordIds, SupersedeNext(c, r),
                   DOMAIN call'[c].seen = DOMAIN call[c].seen \ {r}
            PROVE  DOMAIN call'[c].seen = {q \in RecordIds : disk'[q].status = "staged"}
        <5>1. PICK new \in Record :
                disk' = [disk EXCEPT ![r] = new] /\ new.status = "superseded"
          BY <4>1, SupersedeWrites
        <5>2. \A q \in RecordIds : disk'[q].status = "staged" <=> q # r /\ disk[q].status = "staged"
          BY <5>1 DEF TypeInv, TypeOK
        <5>3. DOMAIN call[c].seen = {q \in RecordIds : disk[q].status = "staged"}
          BY <1>1, <4>1 DEF SupersedeNext, AloneInv, ReadIsCurrent
        <5> QED BY <4>1, <5>2, <5>3
      <4>2. "supersede" \notin HasRecord
        BY DEF HasRecord
      <4> QED BY <1>3, <3>2, <4>1, <4>2, ReadByStep
    <3> QED BY <3>1, <3>2
  <2>3. OldAreDecided'
    <3> SUFFICES ASSUME NEW r \in RecordIds, NEW q \in RecordIds, r < q, disk'[q] # NoRecord
                 PROVE  disk'[r].status \in {"superseded", "accepted", "rejected"}
      BY DEF OldAreDecided, Decided
    <3>1. Decided(r)
      <4>1. CASE disk[q] # NoRecord
        BY <1>1, <4>1 DEF AloneInv, OldAreDecided
      <4>2. CASE disk[q] = NoRecord
        <5>1. ~Untouched(q)
          BY <4>2 DEF Untouched
        <5>2. ~Superseded(q) /\ ~Saved(q)
          <6>1. disk[q].status = "none"
            BY <4>2 DEF NoRecord
          <6>2. ASSUME NEW d \in Callers, SaveReview(d) \/ SaveDecision(d), call[d].r = q
                PROVE  FALSE
            <7>1. call[d].at \in HasRecord
              BY <6>2 DEF SaveReview, SaveDecision, HasRecord
            <7> QED BY <1>1, <6>1, <6>2, <7>1 DEF AloneInv, ReadIsCurrent
          <6> QED BY <1>1, <6>1, <6>2 DEF Superseded, Saved, SupersedeNext, AloneInv, ReadIsCurrent
        <5>3. PICK d \in Callers :
                SaveNewRecord(d) /\ \A p \in RecordIds : p < q => disk[p] # NoRecord
          BY <5>1, <5>2, RecordStep DEF Staged
        <5>4. disk[r].status # "staged"
          BY <1>1, <5>3 DEF SaveNewRecord, SupersededAll, AloneInv, ReadIsCurrent
        <5>5. disk[r] \in Record
          BY <5>3 DEF TypeInv, TypeOK
        <5> QED BY <5>4, <5>5 DEF Decided, Record
      <4> QED BY <4>1, <4>2
    <3> QED BY <1>1, <3>1, DecidedStays DEF Decided
  <2> QED BY <2>1, <2>2, <2>3
<1> QED BY <1>2, <1>3, OthersIdle

LEMMA AloneCalls == Spec => [](TypeInv /\ EvidenceInv /\ AloneInv)
<1>1. Init => TypeInv /\ EvidenceInv /\ AloneInv
  BY InitType, EvidenceInit, AloneInit
<1>2. TypeInv /\ EvidenceInv /\ AloneInv /\ [Next]_vars => (TypeInv /\ EvidenceInv /\ AloneInv)'
  BY NextType, EvidenceNext, AloneNext
<1> QED BY <1>1, <1>2, PTL DEF Spec

\* As long as calls come one at a time, any of which may die half-way, what is
\* decided or superseded stays so.
THEOREM DecisionsStick == Spec => AloneDecisionsStick
<1>1. ASSUME TypeInv, EvidenceInv, AloneInv, [Next]_vars, alone'
      PROVE  \A r \in RecordIds :
                disk[r].status \in {"superseded", "accepted", "rejected"}
                    => disk'[r].status = disk[r].status
  <2>1. alone
    BY <1>1, OthersIdle
  <2> QED BY <1>1, <2>1, DecidedStays DEF Decided
<1> QED BY <1>1, AloneCalls, PTL DEF Spec, AloneDecisionsStick

\* As long as calls come one at a time, a record is not accepted once a newer one
\* of the file is stored: it was superseded before that was.
THEOREM OldRecordIsShut == Spec => AloneOldRecordIsShut
<1>1. ASSUME TypeInv, EvidenceInv, AloneInv, [Next]_vars, alone'
      PROVE  ~AcceptsOldRecord
  <2>1. alone
    BY <1>1, OthersIdle
  <2>2. SUFFICES ASSUME NEW r \in RecordIds, NEW q \in RecordIds, r < q, disk[q] # NoRecord,
                        disk[r].status # "accepted", disk'[r].status = "accepted"
                 PROVE  FALSE
    BY DEF AcceptsOldRecord
  <2>3. Decided(r)
    BY <1>1, <2>1, <2>2 DEF AloneInv, OldAreDecided
  <2> QED BY <1>1, <2>1, <2>2, <2>3, DecidedStays
<1> QED BY <1>1, AloneCalls, PTL DEF Spec, AloneOldRecordIsShut
=============================================================================
