------------------------ MODULE PlannedSessionProofs ------------------------
(***************************************************************************)
(* Proofs about PlannedSession for any files, texts, trees that build,     *)
(* callers and number of records.  IInv relates what a decision has read   *)
(* to the records and the watched source that it finds when it is          *)
(* recorded, however long its build took and whatever went on meanwhile.   *)
(***************************************************************************)
EXTENDS PlannedSession, TLAPS, WellFoundedInduction

-----------------------------------------------------------------------------
(* Facts about the operators *)

LEMMA RecordIdsAreNat == RecordIds \subseteq Nat
BY SessionAssumption DEF RecordIds

\* Of the records of a file there is a newest one.
LEMMA NewestExists ==
    ASSUME NEW S \in SUBSET RecordIds, NEW f \in FilesOf(S)
    PROVE  \E r \in S : IsNewest(r, f, S)
<1> DEFINE Ages == {n \in Nat : \E r \in S : records[r].file = f /\ n = MaxRecords - r}
<1>1. PICK r \in S : records[r].file = f
  BY DEF FilesOf
<1>2. \A q \in S : q \in Nat /\ MaxRecords - q \in Nat
  BY SessionAssumption DEF RecordIds
<1>3. MaxRecords - r \in Ages
  BY <1>1, <1>2
<1>4. PICK n \in Ages : \A m \in Ages : ~(<<m, n>> \in OpToRel(<, Nat))
  <2> HIDE DEF Ages
  <2>1. Ages \subseteq Nat
    BY DEF Ages
  <2> QED
    BY <2>1, <1>3, NatLessThanWellFounded, WFMin
<1>5. \A m \in Ages : ~(m < n)
  BY <1>4 DEF OpToRel
<1>6. PICK q \in S : records[q].file = f /\ n = MaxRecords - q
  OBVIOUS
<1>7. \A p \in S : records[p].file = f => p <= q
  <2> SUFFICES ASSUME NEW p \in S, records[p].file = f PROVE p <= q
    OBVIOUS
  <2>1. MaxRecords - p \in Ages
    BY <1>2
  <2>2. ~(MaxRecords - p < MaxRecords - q)
    BY <2>1, <1>5, <1>6
  <2> QED
    BY <2>2, <1>2, SessionAssumption
<1> QED
  BY <1>6, <1>7 DEF IsNewest

LEMMA NewestIsUnique ==
    ASSUME NEW S \in SUBSET RecordIds, NEW f, NEW p, NEW q,
           IsNewest(p, f, S), IsNewest(q, f, S)
    PROVE  p = q
<1>1. p \in Nat /\ q \in Nat
  BY RecordIdsAreNat DEF IsNewest
<1>2. p <= q /\ q <= p
  BY DEF IsNewest
<1> QED BY <1>1, <1>2

LEMMA StoredRecord ==
    ASSUME TypeOK, NEW r \in RecordIds, Stored(r)
    PROVE  records[r] \in Record
BY DEF TypeOK, Stored, NoRecord

\* The newest record of a file is laid over it.
LEMMA OverlayOfNewest ==
    ASSUME NEW S \in SUBSET RecordIds, NEW f \in Files, NEW r, IsNewest(r, f, S)
    PROVE  Overlay(S)[f] = records[r].text
<1>1. f \in FilesOf(S)
  BY DEF IsNewest, FilesOf
<1>2. (CHOOSE q \in S : IsNewest(q, f, S)) = r
  <2>1. r \in S
    BY DEF IsNewest
  <2>2. IsNewest(CHOOSE q \in S : IsNewest(q, f, S), f, S)
    BY <2>1
  <2> QED BY <2>2, NewestIsUnique
<1> QED BY <1>1, <1>2 DEF Overlay

\* A file that no record in S is of keeps its watched text.
LEMMA OverlayOfWatched ==
    ASSUME NEW S \in SUBSET RecordIds, NEW f \in Files, f \notin FilesOf(S)
    PROVE  Overlay(S)[f] = watched[f]
BY DEF Overlay

LEMMA OverlayType ==
    ASSUME TypeOK, NEW S \in SUBSET RecordIds, \A q \in S : Stored(q)
    PROVE  Overlay(S) \in Tree
<1> SUFFICES ASSUME NEW f \in Files PROVE Overlay(S)[f] \in Texts
  BY DEF Overlay, Tree
<1>1. CASE f \in FilesOf(S)
  <2>1. PICK r \in S : IsNewest(r, f, S)
    BY <1>1, NewestExists
  <2>2. records[r] \in Record
    BY StoredRecord
  <2> QED BY <2>1, <2>2, OverlayOfNewest DEF Record
<1>2. CASE f \notin FilesOf(S)
  BY <1>2, OverlayOfWatched DEF TypeOK, Tree
<1> QED BY <1>1, <1>2

LEMMA OverlayWithType ==
    ASSUME TypeOK, NEW S \in SUBSET RecordIds, \A q \in S : Stored(q),
           NEW r \in RecordIds, Stored(r)
    PROVE  /\ OverlayWith(S, r) \in Tree
           /\ OverlayWith(S, r)[records[r].file] = records[r].text
           /\ \A f \in Files :
                f # records[r].file => OverlayWith(S, r)[f] = Overlay(S)[f]
<1>1. Overlay(S) \in Tree
  BY OverlayType
<1>2. records[r] \in Record
  BY StoredRecord
<1> QED
  BY <1>1, <1>2 DEF OverlayWith, Tree, Record

-----------------------------------------------------------------------------
(* Type correctness *)

CallType == LaunchCall \cup DecisionCall \cup {Idle}

LEMMA GoesType ==
    ASSUME TypeOK, NEW c \in Callers, NEW state \in CallType, Goes(c, state)
    PROVE  call' \in [Callers -> CallType]
BY DEF TypeOK, Goes, CallType

LEMMA TypeOfLaunch ==
    ASSUME TypeOK, NEW c \in Callers, call[c].at = "launch"
    PROVE  call[c] \in LaunchCall
BY DEF TypeOK, DecisionCall, Idle

LEMMA TypeOfDecision ==
    ASSUME TypeOK, NEW c \in Callers, call[c].at = "decision"
    PROVE  call[c] \in DecisionCall
BY DEF TypeOK, LaunchCall, Idle

\* The tree of the terminal build is laid out of stored records.
LEMMA TerminalTreeType ==
    ASSUME TypeOK, NEW r \in RecordIds, Stored(r), NEW word \in {"accepted", "rejected"}
    PROVE  TerminalTree(r, word) \in Tree
<1> DEFINE S == {q \in RecordIds : Stored(q) /\ records[q].file \in AcceptedFiles(r, word)}
<1>1. S \in SUBSET RecordIds /\ \A q \in S : Stored(q)
  OBVIOUS
<1>2. OverlayWith(S, r) \in Tree
  BY <1>1, OverlayWithType
<1> QED BY <1>2 DEF TerminalTree

LEMMA SupersededType ==
    ASSUME TypeOK, NEW f \in Files
    PROVE  Superseded(f) \in [RecordIds -> Record \cup {NoRecord}]
<1> SUFFICES ASSUME NEW q \in RecordIds
             PROVE  Superseded(f)[q] \in Record \cup {NoRecord}
  BY DEF Superseded
<1>1. CASE Active(q) /\ records[q].file = f
  <2>1. records[q] \in Record
    BY <1>1, StoredRecord DEF Active, Stored
  <2>2. Superseded(f)[q] = [records[q] EXCEPT !.status = "superseded"]
    BY <1>1 DEF Superseded
  <2> QED BY <2>1, <2>2 DEF Record
<1>2. CASE ~(Active(q) /\ records[q].file = f)
  <2>1. Superseded(f)[q] = records[q]
    BY <1>2 DEF Superseded
  <2> QED BY <2>1 DEF TypeOK
<1> QED BY <1>1, <1>2

LEMMA InitType == Init => TypeOK
BY DEF Init, TypeOK

LEMMA CandidateType ==
    ASSUME TypeOK, CandidateStep
    PROVE  TypeOK'
<1>1. CASE \E p \in SUBSET Files : SetMonitorSessionEditPlan(p)
  BY <1>1 DEF SetMonitorSessionEditPlan, TypeOK
<1>2. CASE \E f \in Files : RefreshFile(f)
  <2>1. PICK f \in Files : RefreshFile(f)
    BY <1>2
  <2>2. [open |-> TRUE, base |-> watched[f], shut |-> FALSE] \in Session
    BY DEF TypeOK, Tree, Session
  <2>3. session' \in [Files -> Session \cup {NoSession}]
    BY <2>1, <2>2 DEF RefreshFile, TypeOK
  <2> QED
    BY <2>1, <2>3 DEF RefreshFile, TypeOK
<1>3. CASE \E f \in Files, t \in Texts : StageCandidateForReview(f, t)
  <2>1. PICK f \in Files, t \in Texts : StageCandidateForReview(f, t)
    BY <1>3
  <2>2. PICK r \in RecordIds :
          records' = [Superseded(f) EXCEPT ![r] =
            [file |-> f, text |-> t, launched |-> FALSE,
             validation |-> "none", status |-> "staged"]]
    BY <2>1 DEF StageCandidateForReview
  <2>3. records' \in [RecordIds -> Record \cup {NoRecord}]
    BY <2>2, SupersededType DEF Record
  <2> QED
    BY <2>1, <2>3 DEF StageCandidateForReview, TypeOK
<1> QED
  BY <1>1, <1>2, <1>3 DEF CandidateStep

LEMMA LaunchType ==
    ASSUME TypeOK, NEW c \in Callers, LaunchStep(c)
    PROVE  TypeOK'
<1>1. ASSUME NEW r \in RecordIds, BeginLaunch(c, r)
      PROVE  TypeOK'
  <2>1. ActiveIds \in SUBSET RecordIds /\ (\A q \in ActiveIds : Stored(q)) /\ Stored(r)
    BY <1>1 DEF BeginLaunch, ActiveIds, Active, Stored
  <2>2. OverlayWith(ActiveIds, r) \in Tree
    BY <2>1, OverlayWithType
  <2>3. [at |-> "launch", r |-> r, tree |-> OverlayWith(ActiveIds, r)] \in CallType
    BY <2>2 DEF CallType, LaunchCall
  <2>4. call' \in [Callers -> CallType]
    BY <1>1, <2>3, GoesType DEF BeginLaunch
  <2> QED
    BY <1>1, <2>4 DEF BeginLaunch, TypeOK, CallType
<1>2. ASSUME NEW passed \in BOOLEAN, NEW forced \in BOOLEAN, NEW found \in BOOLEAN,
             EndLaunch(c, passed, forced, found)
      PROVE  TypeOK'
  <2>1. call[c].r \in RecordIds
    BY <1>2, TypeOfLaunch DEF EndLaunch, LaunchCall
  <2>2. records[call[c].r] \in Record
    BY <1>2, <2>1, StoredRecord DEF EndLaunch, Active, Stored
  <2>3. records' \in [RecordIds -> Record \cup {NoRecord}]
    BY <1>2, <2>1, <2>2 DEF EndLaunch, TypeOK, Record
  <2>4. call' \in [Callers -> CallType]
    BY <1>2, GoesType DEF EndLaunch, CallType
  <2> QED
    BY <1>2, <2>3, <2>4 DEF EndLaunch, TypeOK, CallType
<1>3. ASSUME RefuseLaunch(c)
      PROVE  TypeOK'
  BY <1>3, GoesType DEF RefuseLaunch, TypeOK, CallType
<1> QED
  BY <1>1, <1>2, <1>3 DEF LaunchStep

LEMMA DecisionType ==
    ASSUME TypeOK, NEW c \in Callers, DecisionStep(c)
    PROVE  TypeOK'
<1>1. ASSUME NEW r \in RecordIds, NEW word \in {"accepted", "rejected"},
             BeginDecision(c, r, word)
      PROVE  TypeOK'
  <2> DEFINE trees == IF IsTerminal(r, word) THEN {TerminalTree(r, word)} ELSE {}
             state == [at |-> "decision", r |-> r, word |-> word,
                       plan |-> plan, seen |-> DecidedBut(r),
                       overridden |-> records[r].validation = "overridden",
                       trees |-> trees]
  <2>1. Stored(r)
    BY <1>1 DEF BeginDecision, Active, Stored
  <2>2. trees \in {{}} \cup {{t} : t \in Tree}
    BY <2>1, TerminalTreeType
  <2>3. DecidedBut(r) \in SUBSET RecordIds /\ plan \in SUBSET Files
    BY DEF DecidedBut, DecidedIds, TypeOK
  <2>4. (records[r].validation = "overridden") \in BOOLEAN
    OBVIOUS
  <2>5. state \in CallType
    <3> HIDE DEF trees
    <3> QED BY <2>2, <2>3, <2>4 DEF CallType, DecisionCall
  <2>6. call' \in [Callers -> CallType]
    BY <1>1, <2>5, GoesType DEF BeginDecision
  <2> QED
    BY <1>1, <2>6 DEF BeginDecision, TypeOK, CallType
<1>2. ASSUME EndDecision(c)
      PROVE  TypeOK'
  <2>1. call[c].r \in RecordIds /\ call[c].word \in {"accepted", "rejected"}
    BY <1>2, TypeOfDecision DEF EndDecision, DecisionCall
  <2>2. records[call[c].r] \in Record
    BY <1>2, <2>1, StoredRecord DEF EndDecision, Active, Stored
  <2>3. records' \in [RecordIds -> Record \cup {NoRecord}]
    BY <1>2, <2>1, <2>2 DEF EndDecision, TypeOK, Record
  <2>4. call' \in [Callers -> CallType]
    BY <1>2, GoesType DEF EndDecision, CallType
  <2>5. session' \in [Files -> Session \cup {NoSession}]
    <3> DEFINE f == records[call[c].r].file
               shut == call[c].word = "accepted"
    <3>1. f \in Files
      BY <2>2 DEF Record
    <3>2. CASE session[f].open
      <4>1. session[f] \in Session
        BY <3>1, <3>2 DEF TypeOK, NoSession
      <4>2. session' = [session EXCEPT ![f].shut = shut]
        BY <1>2, <3>2 DEF EndDecision
      <4>3. shut \in BOOLEAN
        OBVIOUS
      <4>4. [session[f] EXCEPT !.shut = shut] \in Session
        BY <4>1, <4>3 DEF Session
      <4> QED BY <3>1, <4>2, <4>4 DEF TypeOK
    <3>3. CASE ~session[f].open
      BY <1>2, <3>3 DEF EndDecision, TypeOK
    <3> QED BY <3>2, <3>3
  <2> QED
    BY <1>2, <2>3, <2>4, <2>5 DEF EndDecision, TypeOK, CallType
<1>3. ASSUME RefuseDecision(c)
      PROVE  TypeOK'
  BY <1>3, GoesType DEF RefuseDecision, TypeOK, CallType
<1> QED
  BY <1>1, <1>2, <1>3 DEF DecisionStep

LEMMA NextType == TypeOK /\ [Next]_vars => TypeOK'
<1> SUFFICES ASSUME TypeOK, [Next]_vars PROVE TypeOK'
  OBVIOUS
<1>1. CASE \E r \in RecordIds, t \in Texts : OperatorSaves(r, t)
  BY <1>1 DEF OperatorSaves, TypeOK, Tree
<1>2. CASE UNCHANGED vars
  BY <1>2 DEF vars, TypeOK
<1> QED
  BY <1>1, <1>2, CandidateType, LaunchType, DecisionType DEF Next

\* Every variable has its type: a build is always of a whole tree, and no step
\* gives a record that is not stored yet a status.
THEOREM TypeCorrect == Spec => []TypeOK
BY InitType, NextType, PTL DEF Spec

-----------------------------------------------------------------------------
(* What a step does to the records *)

\* Ids are given out in order.
IdsInOrder ==
    \A p, q \in RecordIds : p < q /\ Stored(q) => Stored(p)

\* A stored record keeps its file and text; a decided one its status; one that
\* was superseded or decided is not active again.
Grows ==
    \A q \in RecordIds : Stored(q) =>
        /\ Stored(q)'
        /\ records'[q].file = records[q].file
        /\ records'[q].text = records[q].text
        /\ Decided(q) => records'[q].status = records[q].status
        /\ Active(q)' => Active(q)

\* A record that is added is the newest of all, and the only active one of its
\* file; nothing else changes in that step.
Newcomers ==
    \A q \in RecordIds : ~Stored(q) /\ Stored(q)' =>
        /\ Active(q)'
        /\ UNCHANGED <<watched, call>>
        /\ \A p \in RecordIds : p < q => Stored(p)
        /\ \A p \in RecordIds : Stored(p)' /\ p # q =>
             /\ Stored(p)
             /\ p < q
             /\ records'[p].file = records'[q].file => ~Active(p)'

\* Watched source changes only under an active record of the file.
Saves ==
    \A f \in Files : watched'[f] # watched[f] =>
        /\ \E q \in RecordIds : Active(q) /\ records[q].file = f
        /\ UNCHANGED <<records, call>>

\* A record that becomes accepted was active and has its text in its file.
Accepts ==
    \A q \in RecordIds : ~Accepted(q) /\ Accepted(q)' =>
        Active(q) /\ watched'[records[q].file] = records[q].text

\* A file with an active record gets a decision or keeps an active record.
Replaces ==
    \A q \in RecordIds : Active(q) =>
        \/ Decided(q)'
        \/ \E p \in RecordIds : Active(p)' /\ records'[p].file = records[q].file

StepFacts == Grows /\ Newcomers /\ Saves /\ Accepts /\ Replaces

LEMMA SameRecordsFacts ==
    ASSUME UNCHANGED <<records, watched>>
    PROVE  StepFacts
<1>1. Replaces
  BY DEF Replaces, Active
<1> QED
  BY <1>1 DEF StepFacts, Grows, Newcomers, Saves, Accepts,
     Stored, Active, Decided, Accepted

LEMMA StageFacts ==
    ASSUME TypeOK, IdsInOrder, NEW f \in Files, NEW t \in Texts,
           StageCandidateForReview(f, t)
    PROVE  StepFacts
<1>1. PICK r \in RecordIds :
        /\ IsNextId(r)
        /\ records' = [Superseded(f) EXCEPT ![r] =
             [file |-> f, text |-> t, launched |-> FALSE,
              validation |-> "none", status |-> "staged"]]
  BY DEF StageCandidateForReview
<1>2. UNCHANGED <<watched, call>>
  BY DEF StageCandidateForReview
<1>3. records'[r] = [file |-> f, text |-> t, launched |-> FALSE,
                     validation |-> "none", status |-> "staged"]
  BY <1>1 DEF Superseded
<1>4. ASSUME NEW q \in RecordIds, q # r
      PROVE  records'[q] = IF Active(q) /\ records[q].file = f
                           THEN [records[q] EXCEPT !.status = "superseded"]
                           ELSE records[q]
  BY <1>1, <1>4 DEF Superseded
<1>5. ASSUME NEW q \in RecordIds, Stored(q)
      PROVE  /\ q # r
             /\ q < r
             /\ Stored(q)'
             /\ records'[q].file = records[q].file
             /\ records'[q].text = records[q].text
             /\ Decided(q) => records'[q].status = records[q].status
             /\ Active(q)' => Active(q) /\ records'[q].file # f
             /\ Accepted(q)' => Accepted(q)
  <2>1. q # r
    BY <1>1, <1>5 DEF IsNextId
  <2>2. q < r
    <3>1. ~(r < q)
      BY <1>1, <1>5 DEF IsNextId, IdsInOrder
    <3> QED BY <2>1, <3>1, RecordIdsAreNat
  <2>3. records[q] \in Record
    BY <1>5, StoredRecord
  <2>4. CASE Active(q) /\ records[q].file = f
    <3>1. records'[q] = [records[q] EXCEPT !.status = "superseded"]
      BY <1>4, <2>1, <2>4
    <3>2. /\ records'[q].status = "superseded"
          /\ records'[q].file = records[q].file
          /\ records'[q].text = records[q].text
      BY <3>1, <2>3 DEF Record
    <3> QED
      BY <2>1, <2>2, <2>4, <3>2 DEF Active, Stored, Decided, Accepted
  <2>5. CASE ~(Active(q) /\ records[q].file = f)
    <3>1. records'[q] = records[q]
      BY <1>4, <2>1, <2>5
    <3> QED
      BY <1>5, <2>1, <2>2, <2>5, <3>1 DEF Active, Stored, Decided, Accepted
  <2> QED BY <2>4, <2>5
<1>6. ASSUME NEW q \in RecordIds, ~Stored(q), q # r
      PROVE  ~Stored(q)'
  BY <1>4, <1>6 DEF Stored, Active
<1>7. Stored(r)' /\ Active(r)' /\ ~Accepted(r)' /\ records'[r].file = f /\ ~Stored(r)
  BY <1>1, <1>3 DEF Stored, Active, Accepted, IsNextId
<1>8. Grows
  BY <1>5 DEF Grows
<1>9. Newcomers
  <2> SUFFICES ASSUME NEW q \in RecordIds, ~Stored(q), Stored(q)'
               PROVE  /\ Active(q)'
                      /\ UNCHANGED <<watched, call>>
                      /\ \A p \in RecordIds : p < q => Stored(p)
                      /\ \A p \in RecordIds : Stored(p)' /\ p # q =>
                           /\ Stored(p)
                           /\ p < q
                           /\ records'[p].file = records'[q].file => ~Active(p)'
    BY DEF Newcomers
  <2>1. q = r
    BY <1>6
  <2> QED
    BY <2>1, <1>1, <1>2, <1>5, <1>6, <1>7 DEF IsNextId
<1>10. Saves
  BY <1>2 DEF Saves
<1>11. Accepts
  <2> SUFFICES ASSUME NEW q \in RecordIds, ~Accepted(q), Accepted(q)'
               PROVE  FALSE
    BY DEF Accepts
  <2>1. Stored(q)'
    BY DEF Accepted, Stored
  <2> QED BY <2>1, <1>5, <1>6, <1>7
<1>12. Replaces
  <2> SUFFICES ASSUME NEW q \in RecordIds, Active(q)
               PROVE  \E p \in RecordIds : Active(p)' /\ records'[p].file = records[q].file
    BY DEF Replaces
  <2>1. CASE records[q].file = f
    BY <2>1, <1>7
  <2>2. CASE records[q].file # f
    <3>1. q # r
      BY <1>7 DEF Active, Stored
    <3>2. records'[q] = records[q]
      BY <1>4, <2>2, <3>1
    <3> QED BY <3>2 DEF Active
  <2> QED BY <2>1, <2>2
<1> QED
  BY <1>8, <1>9, <1>10, <1>11, <1>12 DEF StepFacts

LEMMA EndLaunchFacts ==
    ASSUME TypeOK, NEW c \in Callers,
           NEW passed \in BOOLEAN, NEW forced \in BOOLEAN, NEW found \in BOOLEAN,
           EndLaunch(c, passed, forced, found)
    PROVE  StepFacts
<1> DEFINE r == call[c].r
<1>1. r \in RecordIds
  BY TypeOfLaunch DEF EndLaunch, LaunchCall
<1>2. records[r] \in Record
  BY <1>1, StoredRecord DEF EndLaunch, Active, Stored
<1>3. \A q \in RecordIds : q # r => records'[q] = records[q]
  BY <1>1 DEF EndLaunch, TypeOK
<1>4. /\ records'[r].file = records[r].file
      /\ records'[r].text = records[r].text
      /\ records'[r].status = records[r].status
  BY <1>1, <1>2 DEF EndLaunch, TypeOK, Record
<1>5. ASSUME NEW q \in RecordIds
      PROVE  /\ records'[q].status = records[q].status
             /\ Stored(q) => /\ records'[q].file = records[q].file
                             /\ records'[q].text = records[q].text
  BY <1>3, <1>4
<1>6. UNCHANGED watched
  BY DEF EndLaunch
<1>7. Grows /\ Newcomers
  BY <1>5 DEF Grows, Newcomers, Stored, Active, Decided
<1>8. Saves /\ Accepts
  BY <1>5, <1>6 DEF Saves, Accepts, Accepted
<1>9. Replaces
  BY <1>5 DEF Replaces, Active, Stored
<1> QED
  BY <1>7, <1>8, <1>9 DEF StepFacts

LEMMA EndDecisionFacts ==
    ASSUME TypeOK, NEW c \in Callers, EndDecision(c)
    PROVE  StepFacts
<1> DEFINE r == call[c].r
<1>1. r \in RecordIds /\ call[c].word \in {"accepted", "rejected"}
  BY TypeOfDecision DEF EndDecision, DecisionCall
<1>2. records[r] \in Record /\ Active(r)
  BY <1>1, StoredRecord DEF EndDecision, Active, Stored
<1>3. \A q \in RecordIds : q # r => records'[q] = records[q]
  BY <1>1 DEF EndDecision, TypeOK
<1>4. /\ records'[r].file = records[r].file
      /\ records'[r].text = records[r].text
      /\ records'[r].status = call[c].word
  BY <1>1, <1>2 DEF EndDecision, TypeOK, Record
<1>5. call[c].word = "accepted" => watched[records[r].file] = records[r].text
  BY DEF EndDecision, CanAccept
<1>6. UNCHANGED watched
  BY DEF EndDecision
<1>7. Grows
  BY <1>1, <1>2, <1>3, <1>4 DEF Grows, Stored, Active, Decided
<1>8. Newcomers
  BY <1>1, <1>2, <1>3, <1>4 DEF Newcomers, Stored, Active
<1>9. Saves
  BY <1>6 DEF Saves
<1>10. Accepts
  <2> SUFFICES ASSUME NEW q \in RecordIds, ~Accepted(q), Accepted(q)'
               PROVE  Active(q) /\ watched'[records[q].file] = records[q].text
    BY DEF Accepts
  <2>1. q = r
    BY <1>3 DEF Accepted
  <2>2. call[c].word = "accepted"
    BY <1>4, <2>1 DEF Accepted
  <2> QED BY <1>2, <1>5, <1>6, <2>1, <2>2
<1>11. Replaces
  <2> SUFFICES ASSUME NEW q \in RecordIds, Active(q)
               PROVE  \/ Decided(q)'
                      \/ \E p \in RecordIds : Active(p)' /\ records'[p].file = records[q].file
    BY DEF Replaces
  <2>1. CASE q = r
    BY <2>1, <1>1, <1>4 DEF Decided
  <2>2. CASE q # r
    BY <2>2, <1>3 DEF Active
  <2> QED BY <2>1, <2>2
<1> QED
  BY <1>7, <1>8, <1>9, <1>10, <1>11 DEF StepFacts

LEMMA OperatorFacts ==
    ASSUME TypeOK, NEW r \in RecordIds, NEW t \in Texts, OperatorSaves(r, t)
    PROVE  StepFacts
<1>1. UNCHANGED <<records, call>> /\ Active(r)
  BY DEF OperatorSaves
<1>2. \A f \in Files : watched'[f] # watched[f] => f = records[r].file
  BY DEF OperatorSaves, TypeOK, Tree
<1>3. Replaces
  BY <1>1 DEF Replaces, Active
<1> QED
  BY <1>1, <1>2, <1>3 DEF StepFacts, Grows, Newcomers, Saves, Accepts,
     Stored, Active, Decided, Accepted

LEMMA NextFacts ==
    ASSUME TypeOK, IdsInOrder, [Next]_vars
    PROVE  StepFacts
<1>1. ASSUME CandidateStep PROVE StepFacts
  <2>1. CASE \E p \in SUBSET Files : SetMonitorSessionEditPlan(p)
    BY <2>1, SameRecordsFacts DEF SetMonitorSessionEditPlan
  <2>2. CASE \E f \in Files : RefreshFile(f)
    BY <2>2, SameRecordsFacts DEF RefreshFile
  <2>3. CASE \E f \in Files, t \in Texts : StageCandidateForReview(f, t)
    BY <2>3, StageFacts
  <2> QED BY <1>1, <2>1, <2>2, <2>3 DEF CandidateStep
<1>2. ASSUME NEW c \in Callers, LaunchStep(c) PROVE StepFacts
  <2>1. CASE \E r \in RecordIds : BeginLaunch(c, r)
    BY <2>1, SameRecordsFacts DEF BeginLaunch
  <2>2. CASE \E passed, forced, found \in BOOLEAN : EndLaunch(c, passed, forced, found)
    BY <2>2, EndLaunchFacts
  <2>3. CASE RefuseLaunch(c)
    BY <2>3, SameRecordsFacts DEF RefuseLaunch
  <2> QED BY <1>2, <2>1, <2>2, <2>3 DEF LaunchStep
<1>3. ASSUME NEW c \in Callers, DecisionStep(c) PROVE StepFacts
  <2>1. CASE \E r \in RecordIds, word \in {"accepted", "rejected"} : BeginDecision(c, r, word)
    BY <2>1, SameRecordsFacts DEF BeginDecision
  <2>2. CASE EndDecision(c)
    BY <2>2, EndDecisionFacts
  <2>3. CASE RefuseDecision(c)
    BY <2>3, SameRecordsFacts DEF RefuseDecision
  <2> QED BY <1>3, <2>1, <2>2, <2>3 DEF DecisionStep
<1>4. CASE \E r \in RecordIds, t \in Texts : OperatorSaves(r, t)
  BY <1>4, OperatorFacts
<1>5. CASE UNCHANGED vars
  BY <1>5, SameRecordsFacts DEF vars
<1> QED
  BY <1>1, <1>2, <1>3, <1>4, <1>5 DEF Next

-----------------------------------------------------------------------------
(* The inductive invariant *)

\* Only the newest record of a file can be active.
ActiveIsNewest ==
    \A r \in RecordIds : Active(r) => IsNewest(r, records[r].file, StoredIds)

\* A file that has no candidate after its accepted one holds that one.
AcceptedIsMerged ==
    \A r \in RecordIds :
        Accepted(r) /\ IsNewest(r, records[r].file, StoredIds) =>
            watched[records[r].file] = records[r].text

\* The files the decision of c takes for accepted.
AcceptedOf(c) ==
    FilesOf({q \in call[c].seen : Accepted(q)})
        \cup (IF call[c].word = "accepted" THEN {records[call[c].r].file} ELSE {})

\* The files the decision of c takes for decided.
DecidedOf(c) == {records[call[c].r].file} \cup FilesOf(call[c].seen)

\* What tree t of the decision of c holds of a file that record n decided and
\* that was not staged again: its accepted text, or what is on disk.
HoldsDecided(c, t, n) ==
    LET f == records[n].file
    IN  f # records[call[c].r].file /\ IsNewest(n, f, StoredIds) =>
            t[f] = IF f \in AcceptedOf(c) THEN records[n].text ELSE watched[f]

\* What a decision has read is still so for the files that nobody staged again.
DecisionHolds(c) ==
    call[c].at = "decision" =>
        /\ Stored(call[c].r)
        /\ call[c].r \notin call[c].seen
        /\ \A q \in call[c].seen : Decided(q)
        /\ call[c].plan \subseteq DecidedOf(c) /\ AcceptedOf(c) \cap call[c].plan # {} =>
             call[c].trees # {}
        /\ \A t \in call[c].trees :
             /\ t[records[call[c].r].file] = records[call[c].r].text
             /\ \A n \in call[c].seen : HoldsDecided(c, t, n)

IInv ==
    /\ TypeOK
    /\ IdsInOrder
    /\ ActiveIsNewest
    /\ AcceptedIsMerged
    /\ \A c \in Callers : DecisionHolds(c)

LEMMA InitIInv == Init => IInv
<1> SUFFICES ASSUME Init PROVE IInv
  OBVIOUS
<1>1. TypeOK
  BY InitType
<1>2. \A r \in RecordIds : ~Stored(r) /\ ~Active(r) /\ ~Accepted(r)
  BY DEF Init, Stored, Active, Accepted, NoRecord
<1>3. \A c \in Callers : call[c].at # "decision"
  BY DEF Init, Idle
<1> QED
  BY <1>1, <1>2, <1>3
     DEF IInv, IdsInOrder, ActiveIsNewest, AcceptedIsMerged, DecisionHolds

LEMMA OrderStep ==
    ASSUME IdsInOrder, StepFacts
    PROVE  IdsInOrder'
<1> SUFFICES ASSUME NEW p \in RecordIds, NEW q \in RecordIds, p < q, Stored(q)'
             PROVE  Stored(p)'
  BY DEF IdsInOrder
<1>1. Stored(p)
  BY DEF IdsInOrder, StepFacts, Newcomers
<1> QED
  BY <1>1 DEF StepFacts, Grows

\* The newest record of a file was the newest before, unless it is new.
LEMMA NewestBefore ==
    ASSUME StepFacts, NEW r \in RecordIds, Stored(r), NEW f,
           IsNewest(r, f, StoredIds)'
    PROVE  IsNewest(r, f, StoredIds)
<1>1. \A q \in RecordIds : Stored(q) => Stored(q)' /\ records'[q].file = records[q].file
  BY DEF StepFacts, Grows
<1> QED
  BY <1>1 DEF IsNewest, StoredIds

LEMMA ActiveStep ==
    ASSUME ActiveIsNewest, StepFacts
    PROVE  ActiveIsNewest'
<1> SUFFICES ASSUME NEW r \in RecordIds, Active(r)'
             PROVE  IsNewest(r, records[r].file, StoredIds)'
  BY DEF ActiveIsNewest
<1>1. Stored(r)'
  BY DEF Active, Stored
<1>2. ASSUME NEW q \in RecordIds, Stored(q)', records'[q].file = records'[r].file
      PROVE  q <= r
  <2>1. CASE ~Stored(r)
    <3>1. q # r => q < r
      BY <2>1, <1>1, <1>2 DEF StepFacts, Newcomers
    <3> QED BY <3>1, RecordIdsAreNat
  <2>2. CASE Stored(r) /\ ~Stored(q)
    <3>1. r # q
      BY <2>2
    <3>2. ~Active(r)'
      BY <2>2, <3>1, <1>1, <1>2 DEF StepFacts, Newcomers
    <3> QED BY <3>2
  <2>3. CASE Stored(r) /\ Stored(q)
    <3>1. Active(r) /\ records[q].file = records[r].file
      BY <2>3, <1>2 DEF StepFacts, Grows
    <3> QED
      BY <2>3, <3>1 DEF ActiveIsNewest, IsNewest, StoredIds
  <2> QED BY <2>1, <2>2, <2>3
<1> QED
  BY <1>1, <1>2 DEF IsNewest, StoredIds

\* Nobody can save a file whose newest record is not active.
LEMMA UnsavedFile ==
    ASSUME ActiveIsNewest, StepFacts, NEW f \in Files,
           NEW n \in RecordIds, IsNewest(n, f, StoredIds), ~Active(n)
    PROVE  watched'[f] = watched[f]
<1> SUFFICES ASSUME watched'[f] # watched[f] PROVE FALSE
  OBVIOUS
<1>1. PICK q \in RecordIds : Active(q) /\ records[q].file = f
  BY DEF StepFacts, Saves
<1>2. IsNewest(q, f, StoredIds)
  BY <1>1 DEF ActiveIsNewest
<1>3. q = n
  BY <1>2, NewestIsUnique DEF StoredIds
<1> QED BY <1>1, <1>3

LEMMA MergedStep ==
    ASSUME TypeOK, ActiveIsNewest, AcceptedIsMerged, StepFacts
    PROVE  AcceptedIsMerged'
<1> SUFFICES ASSUME NEW r \in RecordIds, Accepted(r)',
                    IsNewest(r, records[r].file, StoredIds)'
             PROVE  watched'[records'[r].file] = records'[r].text
  BY DEF AcceptedIsMerged
<1>1. Stored(r)
  BY DEF StepFacts, Newcomers, Stored, Accepted, Active
<1>2. /\ records'[r].file = records[r].file
      /\ records'[r].text = records[r].text
  BY <1>1 DEF StepFacts, Grows
<1>3. CASE ~Accepted(r)
  BY <1>2, <1>3 DEF StepFacts, Accepts
<1>4. CASE Accepted(r)
  <2>1. IsNewest(r, records[r].file, StoredIds)
    BY <1>1, <1>2, NewestBefore
  <2>2. records[r].file \in Files
    BY <1>1, StoredRecord DEF Record
  <2>3. ~Active(r)
    BY <1>4 DEF Active, Accepted
  <2>4. watched'[records[r].file] = watched[records[r].file]
    BY <2>1, <2>2, <2>3, UnsavedFile
  <2> QED
    BY <1>2, <1>4, <2>1, <2>4 DEF AcceptedIsMerged
<1> QED BY <1>3, <1>4

-----------------------------------------------------------------------------
(* The decision that is under way *)

\* The facts of a decision under way that no step changes.
LEMMA ReadIsKept ==
    ASSUME TypeOK, StepFacts, NEW c \in Callers, call'[c] = call[c],
           call[c].at = "decision", DecisionHolds(c)
    PROVE  /\ records'[call[c].r].file = records[call[c].r].file
           /\ records'[call[c].r].text = records[call[c].r].text
           /\ Stored(call[c].r)'
           /\ \A q \in call[c].seen :
                /\ Decided(q)'
                /\ records'[q].status = records[q].status
                /\ records'[q].file = records[q].file
                /\ records'[q].text = records[q].text
           /\ AcceptedOf(c)' = AcceptedOf(c)
           /\ DecidedOf(c)' = DecidedOf(c)
<1>1. call[c].r \in RecordIds /\ call[c].seen \subseteq RecordIds
  BY TypeOfDecision DEF DecisionCall
<1>2. /\ records'[call[c].r].file = records[call[c].r].file
      /\ records'[call[c].r].text = records[call[c].r].text
      /\ Stored(call[c].r)'
  BY <1>1 DEF StepFacts, Grows, DecisionHolds
<1>3. ASSUME NEW q \in call[c].seen
      PROVE  /\ Decided(q)'
             /\ records'[q].status = records[q].status
             /\ records'[q].file = records[q].file
             /\ records'[q].text = records[q].text
  <2>1. Decided(q) /\ Stored(q)
    BY DEF DecisionHolds, Decided, Stored
  <2> QED
    BY <1>1, <2>1 DEF StepFacts, Grows, Decided
<1>4. AcceptedOf(c)' = AcceptedOf(c)
  BY <1>2, <1>3 DEF AcceptedOf, FilesOf, Accepted
<1>5. DecidedOf(c)' = DecidedOf(c)
  BY <1>2, <1>3 DEF DecidedOf, FilesOf
<1> QED
  BY <1>2, <1>3, <1>4, <1>5

LEMMA WaitingDecision ==
    ASSUME TypeOK, ActiveIsNewest, StepFacts, NEW c \in Callers,
           call'[c] = call[c], DecisionHolds(c)
    PROVE  DecisionHolds(c)'
<1> SUFFICES ASSUME call[c].at = "decision" PROVE DecisionHolds(c)'
  BY DEF DecisionHolds
<1>1. call[c].r \in RecordIds /\ call[c].seen \subseteq RecordIds
  BY TypeOfDecision DEF DecisionCall
<1>2. ASSUME NEW t \in call[c].trees, NEW n \in call[c].seen
      PROVE  HoldsDecided(c, t, n)'
  <2> DEFINE f == records[n].file
  <2>1. Decided(n) /\ Stored(n) /\ ~Active(n)
    BY DEF DecisionHolds, Decided, Stored, Active
  <2>2. f \in Files
    BY <1>1, <2>1, StoredRecord DEF Record
  <2>3. /\ records'[n].file = f
        /\ records'[n].text = records[n].text
        /\ records'[call[c].r].file = records[call[c].r].file
        /\ AcceptedOf(c)' = AcceptedOf(c)
    BY ReadIsKept
  <2> SUFFICES ASSUME f # records[call[c].r].file, IsNewest(n, f, StoredIds)'
               PROVE  t[f] = IF f \in AcceptedOf(c) THEN records[n].text ELSE watched'[f]
    BY <2>3 DEF HoldsDecided
  <2>4. IsNewest(n, f, StoredIds)
    <3>1. \A g : IsNewest(n, g, StoredIds)' => IsNewest(n, g, StoredIds)
      BY <1>1, <2>1, NewestBefore
    <3>2. IsNewest(n, f, StoredIds)' => IsNewest(n, records'[n].file, StoredIds)
      BY <3>1 DEF IsNewest
    <3> QED BY <2>3, <3>2
  <2>5. watched'[f] = watched[f]
    BY <1>1, <2>1, <2>2, <2>4, UnsavedFile
  <2>6. HoldsDecided(c, t, n)
    BY DEF DecisionHolds
  <2> QED
    BY <2>4, <2>5, <2>6 DEF HoldsDecided
<1>3. ASSUME NEW t \in call[c].trees
      PROVE  t[records'[call[c].r].file] = records'[call[c].r].text
  BY ReadIsKept DEF DecisionHolds
<1>4. call[c].r \notin call[c].seen
  BY DEF DecisionHolds
<1>5. call[c].plan \subseteq DecidedOf(c) /\ AcceptedOf(c) \cap call[c].plan # {} =>
        call[c].trees # {}
  BY DEF DecisionHolds
<1> QED
  BY <1>2, <1>3, <1>4, <1>5, ReadIsKept DEF DecisionHolds

LEMMA NewDecision ==
    ASSUME TypeOK, NEW c \in Callers, NEW r \in RecordIds,
           NEW word \in {"accepted", "rejected"}, BeginDecision(c, r, word)
    PROVE  DecisionHolds(c)'
<1> DEFINE S == {q \in RecordIds : Stored(q) /\ records[q].file \in AcceptedFiles(r, word)}
           own == records[r].file
<1>1. /\ call'[c].at = "decision"
      /\ call'[c].r = r
      /\ call'[c].word = word
      /\ call'[c].plan = plan
      /\ call'[c].seen = DecidedBut(r)
      /\ call'[c].trees = IF IsTerminal(r, word) THEN {TerminalTree(r, word)} ELSE {}
  BY DEF BeginDecision, Goes, TypeOK
<1>2. UNCHANGED <<watched, records>>
  BY DEF BeginDecision
<1>3. Stored(r)
  BY DEF BeginDecision, Active, Stored
<1>4. r \notin DecidedBut(r) /\ \A q \in DecidedBut(r) : q \in RecordIds /\ Decided(q)
  BY DEF DecidedBut, DecidedIds
<1>5. AcceptedOf(c)' = AcceptedFiles(r, word)
  BY <1>1, <1>2 DEF AcceptedOf, AcceptedFiles, FilesOf, Accepted
<1>6. DecidedOf(c)' = {own} \cup FilesOf(DecidedBut(r))
  BY <1>1, <1>2 DEF DecidedOf, FilesOf
<1>7. call'[c].plan \subseteq DecidedOf(c)' /\ AcceptedOf(c)' \cap call'[c].plan # {} =>
        call'[c].trees # {}
  BY <1>1, <1>5, <1>6 DEF IsTerminal, ClosesPlan
<1>8. S \in SUBSET RecordIds /\ \A q \in S : Stored(q)
  OBVIOUS
<1>9. TerminalTree(r, word) = OverlayWith(S, r)
  BY DEF TerminalTree
<1>10. /\ TerminalTree(r, word)[own] = records[r].text
       /\ \A f \in Files : f # own => TerminalTree(r, word)[f] = Overlay(S)[f]
  <2> HIDE DEF S
  <2> QED BY <1>3, <1>8, <1>9, OverlayWithType
<1>11. ASSUME NEW n \in DecidedBut(r), records[n].file # own,
              IsNewest(n, records[n].file, StoredIds)
       PROVE  TerminalTree(r, word)[records[n].file] =
                IF records[n].file \in AcceptedFiles(r, word)
                THEN records[n].text ELSE watched[records[n].file]
  <2> DEFINE f == records[n].file
  <2>1. n \in RecordIds /\ Stored(n)
    BY <1>4 DEF Decided, Stored
  <2>2. f \in Files
    BY <2>1, StoredRecord DEF Record
  <2>3. CASE f \in AcceptedFiles(r, word)
    <3>1. IsNewest(n, f, S)
      BY <1>11, <2>1, <2>3 DEF IsNewest, StoredIds
    <3>2. Overlay(S)[f] = records[n].text
      <4> HIDE DEF S
      <4> QED BY <1>8, <2>2, <3>1, OverlayOfNewest
    <3> QED BY <1>10, <1>11, <2>2, <2>3, <3>2
  <2>4. CASE f \notin AcceptedFiles(r, word)
    <3>1. f \notin FilesOf(S)
      BY <2>4 DEF FilesOf
    <3>2. Overlay(S)[f] = watched[f]
      <4> HIDE DEF S
      <4> QED BY <1>8, <2>2, <3>1, OverlayOfWatched
    <3> QED BY <1>10, <1>11, <2>2, <2>4, <3>2
  <2> QED BY <2>3, <2>4
<1>12. ASSUME NEW t \in call'[c].trees, NEW n \in call'[c].seen
       PROVE  HoldsDecided(c, t, n)'
  <2>1. t = TerminalTree(r, word) /\ n \in DecidedBut(r)
    BY <1>1
  <2>2. IsNewest(n, records[n].file, StoredIds)' => IsNewest(n, records[n].file, StoredIds)
    BY <1>2 DEF IsNewest, StoredIds, Stored
  <2> QED
    BY <1>1, <1>2, <1>5, <1>11, <2>1, <2>2 DEF HoldsDecided
<1>13. ASSUME NEW t \in call'[c].trees
       PROVE  t[records'[r].file] = records'[r].text
  BY <1>1, <1>2, <1>10
<1>14. Stored(r)' /\ \A q \in DecidedBut(r) : Decided(q)'
  BY <1>2, <1>3, <1>4 DEF Stored, Decided
<1> QED
  BY <1>1, <1>4, <1>7, <1>12, <1>13, <1>14 DEF DecisionHolds

\* A call goes on, begins a decision or is not a decision any more.
LEMMA CallCases ==
    ASSUME TypeOK, [Next]_vars, NEW c \in Callers
    PROVE  \/ call'[c] = call[c]
           \/ call'[c].at # "decision"
           \/ \E r \in RecordIds, word \in {"accepted", "rejected"} : BeginDecision(c, r, word)
<1>1. ASSUME NEW d \in Callers, NEW state, Goes(d, state), d # c
      PROVE  call'[c] = call[c]
  BY <1>1 DEF Goes, TypeOK
<1>2. ASSUME NEW state, Goes(c, state)
      PROVE  call'[c] = state
  BY <1>2 DEF Goes, TypeOK
<1>3. ASSUME NEW d \in Callers, LaunchStep(d)
      PROVE  call'[c] = call[c] \/ call'[c].at # "decision"
  <2>1. \E state : Goes(d, state) /\ state.at # "decision"
    <3>1. CASE \E r \in RecordIds : BeginLaunch(d, r)
      <4>1. PICK r \in RecordIds :
              Goes(d, [at |-> "launch", r |-> r, tree |-> OverlayWith(ActiveIds, r)])
        BY <3>1 DEF BeginLaunch
      <4>2. [at |-> "launch", r |-> r, tree |-> OverlayWith(ActiveIds, r)].at # "decision"
        OBVIOUS
      <4> QED BY <4>1, <4>2
    <3>2. CASE ~(\E r \in RecordIds : BeginLaunch(d, r))
      <4>1. Goes(d, Idle)
        BY <1>3, <3>2 DEF LaunchStep, EndLaunch, RefuseLaunch
      <4>2. Idle.at # "decision"
        BY DEF Idle
      <4> QED BY <4>1, <4>2
    <3> QED BY <3>1, <3>2
  <2> QED BY <1>1, <1>2, <2>1
<1>4. ASSUME NEW d \in Callers, DecisionStep(d)
      PROVE  \/ call'[c] = call[c]
             \/ call'[c].at # "decision"
             \/ \E r \in RecordIds, word \in {"accepted", "rejected"} : BeginDecision(c, r, word)
  <2>1. CASE d # c
    <3>1. \E state : Goes(d, state)
      BY <1>4 DEF DecisionStep, BeginDecision, EndDecision, RefuseDecision
    <3> QED BY <1>1, <2>1, <3>1
  <2>2. CASE d = c
    <3>1. \/ Goes(c, Idle)
          \/ \E r \in RecordIds, word \in {"accepted", "rejected"} : BeginDecision(c, r, word)
      BY <1>4, <2>2 DEF DecisionStep, EndDecision, RefuseDecision
    <3> QED BY <1>2, <3>1 DEF Idle
  <2> QED BY <2>1, <2>2
<1>5. CASE CandidateStep
  BY <1>5 DEF CandidateStep, SetMonitorSessionEditPlan, RefreshFile, StageCandidateForReview
<1>6. CASE \E r \in RecordIds, t \in Texts : OperatorSaves(r, t)
  BY <1>6 DEF OperatorSaves
<1>7. CASE UNCHANGED vars
  BY <1>7 DEF vars
<1> QED
  BY <1>3, <1>4, <1>5, <1>6, <1>7 DEF Next

LEMMA NextIInv == IInv /\ [Next]_vars => IInv'
<1> SUFFICES ASSUME IInv, [Next]_vars PROVE IInv'
  OBVIOUS
<1>1. TypeOK /\ TypeOK'
  BY NextType DEF IInv
<1>2. IdsInOrder /\ ActiveIsNewest /\ AcceptedIsMerged
  BY DEF IInv
<1>3. StepFacts
  BY <1>1, <1>2, NextFacts
<1>4. IdsInOrder' /\ ActiveIsNewest' /\ AcceptedIsMerged'
  BY <1>1, <1>2, <1>3, OrderStep, ActiveStep, MergedStep
<1>5. ASSUME NEW c \in Callers PROVE DecisionHolds(c)'
  <2>1. CASE call'[c] = call[c]
    BY <1>1, <1>2, <1>3, <2>1, WaitingDecision DEF IInv
  <2>2. CASE call'[c].at # "decision"
    BY <2>2 DEF DecisionHolds
  <2>3. CASE \E r \in RecordIds, word \in {"accepted", "rejected"} : BeginDecision(c, r, word)
    BY <1>1, <2>3, NewDecision
  <2> QED BY <1>1, <2>1, <2>2, <2>3, CallCases
<1> QED
  BY <1>1, <1>4, <1>5 DEF IInv

LEMMA SpecIInv == Spec => []IInv
BY InitIInv, NextIInv, PTL DEF Spec

-----------------------------------------------------------------------------
(* The batch *)

\* Every step keeps a decision and replaces an active record of a file by a
\* decision or by another active record of it, so that
\* ShouldDeferBuildValidationUntilAccept goes on letting launches through.
THEOREM BatchNeverCloses == Spec => BatchStaysOpen
<1>1. IInv /\ [Next]_vars => [BatchIsStaged /\ plan' = plan => BatchIsStaged']_vars
  <2> SUFFICES ASSUME IInv, [Next]_vars, BatchIsStaged, plan' = plan, NEW f \in plan
               PROVE  \E r \in RecordIds : (Active(r)' \/ Decided(r)') /\ records'[r].file = f
    BY DEF BatchIsStaged
  <2>1. StepFacts
    BY NextFacts DEF IInv
  <2>2. PICK r \in RecordIds : (Active(r) \/ Decided(r)) /\ records[r].file = f
    BY DEF BatchIsStaged
  <2>3. Stored(r)
    BY <2>2 DEF Active, Decided, Stored
  <2>4. records'[r].file = f
    BY <2>1, <2>2, <2>3 DEF StepFacts, Grows
  <2>5. CASE Decided(r)
    <3>1. Decided(r)'
      BY <2>1, <2>3, <2>5 DEF StepFacts, Grows, Decided
    <3> QED BY <2>4, <3>1
  <2>6. CASE Active(r)
    BY <2>1, <2>2, <2>4, <2>6 DEF StepFacts, Replaces
  <2> QED BY <2>2, <2>5, <2>6
<1> QED
  BY <1>1, SpecIInv, PTL DEF Spec, BatchStaysOpen

-----------------------------------------------------------------------------
(* The last accept *)

\* Only EndDecision records a decision.
LEMMA EndOfDecision ==
    ASSUME TypeOK, [Next]_vars, NEW c \in Callers, NEW r \in RecordIds, EndsDecision(c, r)
    PROVE  EndDecision(c)
<1>1. call[c].at = "decision" /\ call[c].r = r /\ call'[c] = Idle /\ Active(r) /\ Decided(r)'
  BY DEF EndsDecision
<1>2. call'[c] # call[c]
  BY <1>1 DEF Idle
<1>3. records'[r] # records[r]
  BY <1>1 DEF Active, Decided
<1>4. ASSUME NEW d \in Callers, NEW state, Goes(d, state)
      PROVE  d = c
  BY <1>2, <1>4 DEF Goes, TypeOK
<1>5. ASSUME NEW d \in Callers, LaunchStep(d) PROVE FALSE
  <2>1. CASE \E q \in RecordIds : BeginLaunch(d, q)
    BY <1>3, <2>1 DEF BeginLaunch
  <2>2. CASE \E passed, forced, found \in BOOLEAN : EndLaunch(d, passed, forced, found)
    BY <1>1, <1>4, <2>2 DEF EndLaunch
  <2>3. CASE RefuseLaunch(d)
    BY <1>3, <2>3 DEF RefuseLaunch
  <2> QED BY <1>5, <2>1, <2>2, <2>3 DEF LaunchStep
<1>6. ASSUME NEW d \in Callers, DecisionStep(d) PROVE EndDecision(c)
  <2>1. CASE \E q \in RecordIds, word \in {"accepted", "rejected"} : BeginDecision(d, q, word)
    BY <1>3, <2>1 DEF BeginDecision
  <2>2. CASE EndDecision(d)
    BY <1>4, <2>2 DEF EndDecision
  <2>3. CASE RefuseDecision(d)
    BY <1>3, <2>3 DEF RefuseDecision
  <2> QED BY <1>6, <2>1, <2>2, <2>3 DEF DecisionStep
<1>7. CASE CandidateStep
  BY <1>2, <1>7 DEF CandidateStep, SetMonitorSessionEditPlan, RefreshFile,
     StageCandidateForReview
<1>8. CASE \E q \in RecordIds, t \in Texts : OperatorSaves(q, t)
  BY <1>2, <1>8 DEF OperatorSaves
<1>9. CASE UNCHANGED vars
  BY <1>2, <1>9 DEF vars
<1> QED
  BY <1>5, <1>6, <1>7, <1>8, <1>9 DEF Next

\* What the last accept of a plan has built is what is on disk.
LEMMA LastAccept ==
    ASSUME IInv, [Next]_vars, NEW c \in Callers, NEW r \in RecordIds,
           EndsDecision(c, r), call[c].word = "accepted", records[r].file \in plan,
           ReadsHold(c), PlanIsDecided', DecisionsAreFinal'
    PROVE  \E t \in call[c].trees :
             /\ t \in GoodTrees \/ call[c].overridden
             /\ \A f \in plan : t[f] = watched'[f]
<1> DEFINE own == records[r].file
<1>1. TypeOK /\ TypeOK' /\ StepFacts
  BY NextType, NextFacts DEF IInv
<1>2. EndDecision(c)
  BY <1>1, EndOfDecision
<1>3. /\ call[c].at = "decision"
      /\ call[c].r = r
      /\ Active(r)
      /\ plan' = plan
      /\ watched' = watched
  BY <1>2 DEF EndsDecision, EndDecision
<1>4. DecisionHolds(c) /\ call[c].plan = plan /\ call[c].seen = DecidedBut(r)
  BY <1>3 DEF IInv, ReadsHold
<1>5. ASSUME NEW q \in RecordIds, q # r
      PROVE  records'[q] = records[q]
  BY <1>1, <1>2, <1>3, <1>5 DEF EndDecision, TypeOK
<1>6. records'[r].file = own /\ Stored(r)
  BY <1>1, <1>3 DEF StepFacts, Grows, Active, Stored
<1>7. plan \subseteq DecidedOf(c)
  <2> SUFFICES ASSUME NEW f \in plan, f # own PROVE f \in FilesOf(DecidedBut(r))
    BY <1>3, <1>4 DEF DecidedOf
  <2>1. PICK q \in RecordIds : Decided(q)' /\ records'[q].file = f
    BY <1>3 DEF PlanIsDecided, FilesOf, DecidedIds
  <2>2. q # r
    BY <2>1, <1>6
  <2>3. Decided(q) /\ records[q].file = f
    BY <2>1, <2>2, <1>5 DEF Decided
  <2> QED
    BY <2>2, <2>3 DEF FilesOf, DecidedBut, DecidedIds
<1>8. own \in AcceptedOf(c) \cap plan
  BY <1>3 DEF AcceptedOf
<1>9. PICK t \in call[c].trees : TRUE
  BY <1>3, <1>4, <1>7, <1>8 DEF DecisionHolds
<1>10. t \in GoodTrees \/ call[c].overridden
  BY <1>2 DEF EndDecision, TerminalBuildPasses, Builds
<1>11. t[own] = watched'[own]
  <2>1. t[own] = records[r].text
    BY <1>3, <1>4 DEF DecisionHolds
  <2>2. watched[own] = records[r].text
    BY <1>2, <1>3 DEF EndDecision, CanAccept
  <2> QED BY <2>1, <2>2, <1>3
<1>12. ASSUME NEW f \in plan, f # own
       PROVE  t[f] = watched'[f]
  <2>1. f \in FilesOf(StoredIds)
    <3>1. f \in FilesOf(DecidedBut(r))
      BY <1>3, <1>4, <1>7, <1>12 DEF DecidedOf
    <3> QED BY <3>1 DEF FilesOf, DecidedBut, DecidedIds, StoredIds, Decided, Stored
  <2>2. PICK n \in StoredIds : IsNewest(n, f, StoredIds)
    BY <2>1, NewestExists DEF StoredIds
  <2>3. n \in RecordIds /\ Stored(n) /\ records[n].file = f /\ n # r
    BY <2>2, <1>12 DEF StoredIds, IsNewest
  <2>4. ASSUME NEW q \in RecordIds
        PROVE  /\ Stored(q)' <=> Stored(q)
               /\ Stored(q) => records'[q].file = records[q].file
    BY <1>1, <1>5, <1>6 DEF Stored, StepFacts, Grows
  <2>5. IsNewest(n, f, StoredIds)'
    BY <2>2, <2>4 DEF IsNewest, StoredIds
  <2>6. Decided(n)' /\ (Accepted(n)' \/ \A q \in StoredIds' : records'[q].file = f => ~Accepted(q)')
    BY <1>3, <2>3, <2>5 DEF DecisionsAreFinal
  <2>7. n \in call[c].seen
    BY <1>4, <1>5, <2>3, <2>6 DEF Decided, DecidedBut, DecidedIds
  <2>8. HoldsDecided(c, t, n)
    BY <1>3, <1>4, <2>7 DEF DecisionHolds
  <2>9. CASE f \in AcceptedOf(c)
    <3>1. PICK q \in DecidedBut(r) : Accepted(q) /\ records[q].file = f
      BY <1>3, <1>4, <1>12, <2>9 DEF AcceptedOf, FilesOf
    <3>2. q \in StoredIds' /\ records'[q].file = f /\ Accepted(q)'
      BY <1>5, <3>1, <2>4 DEF DecidedBut, DecidedIds, StoredIds, Accepted, Stored
    <3>3. Accepted(n)
      BY <1>5, <2>3, <2>6, <3>2 DEF Accepted
    <3>4. watched[f] = records[n].text
      BY <2>2, <2>3, <3>3 DEF IInv, AcceptedIsMerged
    <3> QED
      BY <1>3, <1>12, <2>2, <2>3, <2>8, <2>9, <3>4 DEF HoldsDecided
  <2>10. CASE f \notin AcceptedOf(c)
    BY <1>3, <1>12, <2>2, <2>3, <2>8, <2>10 DEF HoldsDecided
  <2> QED BY <2>9, <2>10
<1> QED
  BY <1>10, <1>11, <1>12

\* The terminal build vouches for the planned files as the last accept leaves
\* them, however long it ran, when no decision and no change of the plan came in
\* between and no file was staged again after it was decided.
THEOREM LastAcceptIsBuilt == Spec => LastAcceptWasBuilt
<1>1. IInv /\ [Next]_vars =>
        [\A c \in Callers, r \in RecordIds :
           /\ EndsDecision(c, r)
           /\ call[c].word = "accepted"
           /\ records[r].file \in plan
           /\ ReadsHold(c)
           /\ PlanIsDecided'
           /\ DecisionsAreFinal'
           => \E t \in call[c].trees :
                /\ t \in GoodTrees \/ call[c].overridden
                /\ \A f \in plan : t[f] = watched'[f]]_vars
  BY LastAccept
<1> QED
  BY <1>1, SpecIInv, PTL DEF Spec, LastAcceptWasBuilt
=============================================================================
