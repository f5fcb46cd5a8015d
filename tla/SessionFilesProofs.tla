------------------------- MODULE SessionFilesProofs -------------------------
(***************************************************************************)
(* The session file: type correctness, and the three invariants of the     *)
(* run, for all plans, texts and callers and any number of calls.          *)
(***************************************************************************)
EXTENDS SessionFiles, TLAPS

USE SessionFileAssumption

-----------------------------------------------------------------------------
(* Calls and their changes *)

EventSet == [sets : {"event"}, id : EventIds]

LEMMA TodoShape ==
    ASSUME NEW t \in Todo
    PROVE  /\ Head(t) \in Change
           /\ Tail(t) \in Todo \cup {<<>>}
           /\ Tail(t) # <<>> => \E e \in EventSet : Tail(t) = <<e>>
           /\ Len(t) \in {1, 2}
           /\ Len(t) = 1 => Tail(t) = <<>> /\ Head(t).sets = "event"
           /\ Len(t) = 2 => Tail(t) # <<>> /\ Len(Tail(t)) = 1
<1>1. CASE \E e \in EventSet : t = <<e>>
  <2>1. PICK e \in EventSet : t = <<e>>  BY <1>1
  <2>2. Len(t) = 1 /\ Head(t) = e /\ Tail(t) = <<>>  BY <2>1
  <2>3. e \in Change /\ e.sets = "event"  BY DEF EventSet, Change
  <2> QED  BY <2>2, <2>3
<1>2. CASE \E d \in Change, e \in EventSet : t = <<d, e>>
  <2>1. PICK d \in Change, e \in EventSet : t = <<d, e>>  BY <1>2
  <2>2. Len(t) = 2 /\ Head(t) = d /\ Tail(t) = <<e>>  BY <2>1
  <2> DEFINE rest == <<e>>
  <2>3. rest \in Todo /\ rest # <<>> /\ Len(rest) = 1  BY DEF Todo, EventSet
  <2>4. Len(t) = 2 /\ Head(t) = d /\ Tail(t) = rest  BY <2>2
  <2> HIDE DEF rest
  <2>5. \E x \in EventSet : Tail(t) = <<x>>  BY <2>2
  <2>6. Head(t) \in Change  BY <2>4
  <2>7. Tail(t) \in Todo /\ Tail(t) # <<>> /\ Len(Tail(t)) = 1  BY <2>3, <2>4
  <2>8. Len(t) = 2 /\ ~(Len(t) = 1)  BY <2>4
  <2> QED  BY <2>5, <2>6, <2>7, <2>8
<1> QED  BY <1>1, <1>2 DEF Todo, EventSet

Saving == [at : {"open", "close"}, change : Change, new : Session,
           todo : Todo \cup {<<>>}, text : Held]

LEMMA CallShape ==
    ASSUME NEW k \in Call
    PROVE  /\ k.at = "hash" => k.text \in Texts
           /\ k.at = "load" => k.todo \in Todo /\ k.text \in Held
           /\ k.at \in {"open", "close"} => k \in Saving
           /\ k.at = "check" => k.hash \in Held
<1>1. CASE k = Idle  BY <1>1 DEF Idle
<1>2. CASE k \in [at : {"hash"}, text : Texts]  BY <1>2
<1>3. CASE k \in [at : {"load"}, todo : Todo, text : Held]  BY <1>3
<1>4. CASE k \in Saving  BY <1>4 DEF Saving
<1>5. CASE k \in [at : {"check"}, hash : Held]  BY <1>5
<1> QED  BY <1>1, <1>2, <1>3, <1>4, <1>5 DEF Call, Saving
-----------------------------------------------------------------------------
(* Types *)

LEMMA InitType == Init => TypeOK
<1> SUFFICES ASSUME Init PROVE TypeOK
  OBVIOUS
<1>1. file \in Session \cup {NoFile, Torn} /\ writing \in Callers \cup {Nobody}
  BY DEF Init
<1>2. call \in [Callers -> Call]
  BY DEF Init, Call
<1>3. begun \in 0..MaxCalls /\ got \in Held /\ recorded \subseteq EventIds
  BY DEF Init, Held
<1> QED BY <1>1, <1>2, <1>3 DEF Init, TypeOK

\* What the calls are after one of them has gone on.
LEMMA GoesType ==
    ASSUME TypeOK, NEW c \in Callers, NEW k \in Call, Goes(c, k)
    PROVE  /\ call' \in [Callers -> Call]
           /\ alone' \in BOOLEAN
           /\ call'[c] = k
           /\ \A d \in Callers \ {c} : call'[d] = call[d]
BY DEF TypeOK, Goes

\* The number of the next event.
LEMMA NumberedType ==
    ASSUME TypeOK, Numbered
    PROVE  /\ begun' \in 0..MaxCalls
           /\ begun + 1 \in EventIds
           /\ Event(begun + 1) \in EventSet
           /\ <<Event(begun + 1)>> \in Todo
           /\ \A d \in Change : <<d, Event(begun + 1)>> \in Todo
<1>1. begun' \in 0..MaxCalls /\ begun + 1 \in EventIds
  BY DEF TypeOK, Numbered, EventIds
<1>2. Event(begun + 1) \in EventSet
  BY <1>1 DEF Event, EventSet
<1> HIDE DEF Event
<1> QED BY <1>1, <1>2 DEF Todo, EventSet

LEMMA AppliedType ==
    ASSUME NEW s \in Session, NEW change \in Change
    PROVE  Applied(s, change) \in Session
<1>1. CASE change \in [sets : {"plan"}, plan : Plans]
  BY <1>1 DEF Applied, Session
<1>2. CASE change \in [sets : {"access"}, hash : Texts]
  BY <1>2 DEF Applied, Session, Held
<1>3. CASE change \in [sets : {"event"}, id : EventIds]
  BY <1>3 DEF Applied, Session
<1> QED BY <1>1, <1>2, <1>3 DEF Change

\* A session is not one of the two values that stand for no session.
LEMMA LoadsSession ==
    ASSUME TypeOK, Loads
    PROVE  file \in Session
BY DEF TypeOK, Loads

LEMMA ToolType ==
    ASSUME TypeOK, NEW c \in Callers, Tool(c)
    PROVE  TypeOK'
<1>1. ASSUME NEW p \in Plans, StartMonitorSession(c, p)
      PROVE  TypeOK'
  <2> DEFINE new == [plan |-> p, events |-> {}, hash |-> NoText]
             change == [sets |-> "plan", plan |-> p]
  <2>1. new \in Session /\ change \in Change
    BY DEF Session, Change, Held
  <2>2. begun = 0 /\ <<Event(1)>> \in Todo /\ begun' \in 0..MaxCalls
    <3>1. begun = 0 /\ Numbered  BY <1>1 DEF StartMonitorSession
    <3>2. begun + 1 = 1  BY <3>1
    <3> QED  BY <3>1, <3>2, NumberedType
  <2> HIDE DEF new, change
  <2>3. [at |-> "open", change |-> change, new |-> new, todo |-> <<Event(1)>>,
         text |-> NoText] \in Call
    BY <2>1, <2>2 DEF Call, Held
  <2>4. Goes(c, [at |-> "open", change |-> change, new |-> new, todo |-> <<Event(1)>>,
                 text |-> NoText])
    BY <1>1 DEF StartMonitorSession, new, change
  <2>5. call' \in [Callers -> Call] /\ alone' \in BOOLEAN
    BY <2>3, <2>4, GoesType
  <2> QED BY <1>1, <2>2, <2>5 DEF StartMonitorSession, TypeOK, saved, faults
<1>2. ASSUME NEW p \in Plans, SetMonitorSessionEditPlan(c, p)
      PROVE  TypeOK'
  <2> DEFINE todo == <<[sets |-> "plan", plan |-> p], Event(begun + 1)>>
  <2>1. Numbered
    BY <1>2 DEF SetMonitorSessionEditPlan
  <2>2. [sets |-> "plan", plan |-> p] \in Change
    BY DEF Change
  <2>3. todo \in Todo /\ begun' \in 0..MaxCalls
    BY <2>1, <2>2, NumberedType
  <2>4. Goes(c, [at |-> "load", text |-> NoText, todo |-> todo])
    BY <1>2 DEF SetMonitorSessionEditPlan
  <2> HIDE DEF todo
  <2>5. [at |-> "load", text |-> NoText, todo |-> todo] \in Call
    BY <2>3 DEF Call, Held
  <2>6. call' \in [Callers -> Call] /\ alone' \in BOOLEAN
    BY <2>4, <2>5, GoesType
  <2> QED BY <1>2, <2>3, <2>6 DEF SetMonitorSessionEditPlan, TypeOK, saved, faults
<1>3. ASSUME RecordMonitorSessionEvent(c) \/ PlannedMutation(c)
      PROVE  TypeOK'
  <2> DEFINE todo == <<Event(begun + 1)>>
  <2>1. Numbered
    BY <1>3 DEF RecordMonitorSessionEvent, PlannedMutation
  <2>2. todo \in Todo /\ begun' \in 0..MaxCalls
    BY <2>1, NumberedType
  <2>3. Goes(c, [at |-> "load", todo |-> todo, text |-> NoText])
    BY <1>3 DEF RecordMonitorSessionEvent, PlannedMutation
  <2> HIDE DEF todo
  <2>4. [at |-> "load", todo |-> todo, text |-> NoText] \in Call
    BY <2>2 DEF Call, Held
  <2>5. call' \in [Callers -> Call] /\ alone' \in BOOLEAN
    BY <2>3, <2>4, GoesType
  <2> QED BY <1>3, <2>2, <2>5 DEF RecordMonitorSessionEvent, PlannedMutation, TypeOK, saved, faults
<1>4. ASSUME GetFile(c)
      PROVE  TypeOK'
  <2>1. [at |-> "hash", text |-> watched] \in Call
    BY DEF TypeOK, Call
  <2>2. call' \in [Callers -> Call] /\ alone' \in BOOLEAN
    BY <1>4, <2>1, GoesType DEF GetFile
  <2> QED BY <1>4, <2>2 DEF GetFile, TypeOK, saved, faults
<1>5. ASSUME CheckFileHash(c)
      PROVE  TypeOK'
  <2>1. file \in Session
    BY <1>5, LoadsSession DEF CheckFileHash
  <2>2. [at |-> "check", hash |-> file.hash] \in Call
    BY <2>1 DEF Session, Call
  <2>3. call' \in [Callers -> Call] /\ alone' \in BOOLEAN
    BY <1>5, <2>2, GoesType DEF CheckFileHash
  <2> QED BY <1>5, <2>3 DEF CheckFileHash, TypeOK, saved, faults
<1> QED BY <1>1, <1>2, <1>3, <1>4, <1>5 DEF Tool
LEMMA ProceedType ==
    ASSUME TypeOK, NEW c \in Callers, Proceed(c)
    PROVE  TypeOK'
<1>0. call[c] \in Call
  BY DEF TypeOK
<1>1. ASSUME GetFileHashInfo(c)
      PROVE  TypeOK'
  <2> DEFINE todo == <<[sets |-> "access", hash |-> watched], Event(begun + 1)>>
  <2>1. Numbered /\ call[c].text \in Texts
    BY <1>0, <1>1, CallShape DEF GetFileHashInfo
  <2>2. [sets |-> "access", hash |-> watched] \in Change
    BY DEF Change, TypeOK
  <2>3. todo \in Todo /\ begun' \in 0..MaxCalls
    BY <2>1, <2>2, NumberedType
  <2>4. Goes(c, [at |-> "load", text |-> call[c].text, todo |-> todo])
    BY <1>1 DEF GetFileHashInfo
  <2> HIDE DEF todo
  <2>5. [at |-> "load", text |-> call[c].text, todo |-> todo] \in Call
    BY <2>1, <2>3 DEF Call, Held
  <2>6. call' \in [Callers -> Call] /\ alone' \in BOOLEAN
    BY <2>4, <2>5, GoesType
  <2>7. slipped' \in BOOLEAN
    BY <1>1 DEF GetFileHashInfo, TypeOK
  <2> QED BY <1>1, <2>3, <2>6, <2>7 DEF GetFileHashInfo, TypeOK, saved
<1>2. ASSUME AnswerCheck(c)
      PROVE  TypeOK'
  <2>1. call' \in [Callers -> Call] /\ alone' \in BOOLEAN
    BY <1>2, GoesType DEF AnswerCheck, Call
  <2> QED BY <1>2, <2>1 DEF AnswerCheck, TypeOK, saved, faults
<1>3. ASSUME LoadSession(c)
      PROVE  TypeOK'
  <2> DEFINE todo == call[c].todo
             k == [at |-> "open", change |-> Head(todo), new |-> Applied(file, Head(todo)),
                   todo |-> Tail(todo), text |-> call[c].text]
  <2>1. todo \in Todo /\ call[c].text \in Held
    BY <1>0, <1>3, CallShape DEF LoadSession
  <2>2. Head(todo) \in Change /\ Tail(todo) \in Todo \cup {<<>>}
    BY <2>1, TodoShape
  <2>3. Applied(file, Head(todo)) \in Session
    BY <1>3, <2>2, LoadsSession, AppliedType DEF LoadSession
  <2>4. k \in Call
    BY <2>1, <2>2, <2>3 DEF Call
  <2>5. Goes(c, k)
    BY <1>3 DEF LoadSession
  <2> HIDE DEF k
  <2>6. call' \in [Callers -> Call] /\ alone' \in BOOLEAN
    BY <2>4, <2>5, GoesType
  <2> QED BY <1>3, <2>6 DEF LoadSession, TypeOK, saved, faults
<1>4. ASSUME OpenSession(c)
      PROVE  TypeOK'
  <2>1. call[c] \in Saving
    BY <1>0, <1>4, CallShape DEF OpenSession
  <2>2. [call[c] EXCEPT !.at = "close"] \in Call
    BY <2>1 DEF Saving, Call
  <2>3. call' \in [Callers -> Call] /\ alone' \in BOOLEAN
    BY <1>4, <2>2, GoesType DEF OpenSession
  <2> QED BY <1>4, <2>3 DEF OpenSession, TypeOK, saved, faults
<1>5. ASSUME SaveSession(c)
      PROVE  TypeOK'
  <2>1. /\ call[c].new \in Session /\ call[c].change \in Change
        /\ call[c].todo \in Todo \cup {<<>>} /\ call[c].text \in Held
    BY <1>0, <1>5, CallShape DEF SaveSession, Saving
  <2> DEFINE k == IF call[c].todo = <<>> THEN Idle
                  ELSE [at |-> "load", todo |-> call[c].todo, text |-> call[c].text]
  <2>2. k \in Call /\ Goes(c, k)
    BY <1>5, <2>1 DEF SaveSession, Call
  <2> HIDE DEF k
  <2>3. call' \in [Callers -> Call] /\ alone' \in BOOLEAN
    BY <2>2, GoesType
  <2>4. got' \in Held
    BY <1>5, <2>1 DEF SaveSession, TypeOK
  <2>5. lastPlan' \in Plans
    BY <1>5, <2>1 DEF SaveSession, TypeOK, Change
  <2>6. recorded' \subseteq EventIds
    <3>1. call[c].change.sets = "event" => call[c].change.id \in EventIds
      BY <2>1 DEF Change
    <3> QED BY <1>5, <3>1 DEF SaveSession, TypeOK
  <2>7. file' \in Session /\ writing' = Nobody
    BY <1>5, <2>1 DEF SaveSession
  <2> QED BY <1>5, <2>3, <2>4, <2>5, <2>6, <2>7 DEF SaveSession, TypeOK, faults
<1> QED BY <1>1, <1>2, <1>3, <1>4, <1>5 DEF Proceed

LEMMA OtherType ==
    ASSUME TypeOK,
           (\E c \in Callers : Fail(c)) \/ DecideWithoutPlan \/ (\E t \in Texts : OperatorSaves(t))
    PROVE  TypeOK'
<1>1. ASSUME NEW c \in Callers, Fail(c)
      PROVE  TypeOK'
  <2>1. call' \in [Callers -> Call] /\ alone' \in BOOLEAN
    BY <1>1, GoesType DEF Fail, Call
  <2>2. {cut', halfway'} \subseteq BOOLEAN
    BY <1>1 DEF Fail, TypeOK
  <2> QED BY <1>1, <2>1, <2>2 DEF Fail, TypeOK, saved
<1>2. ASSUME DecideWithoutPlan
      PROVE  TypeOK'
  BY <1>2 DEF DecideWithoutPlan, TypeOK, saved, faults
<1>3. ASSUME NEW t \in Texts, OperatorSaves(t)
      PROVE  TypeOK'
  BY <1>3 DEF OperatorSaves, TypeOK, saved, faults
<1> QED BY <1>1, <1>2, <1>3

LEMMA NextType == TypeOK /\ [Next]_vars => TypeOK'
<1> SUFFICES ASSUME TypeOK, [Next]_vars PROVE TypeOK'
  OBVIOUS
<1>1. CASE Next
  BY <1>1, ToolType, ProceedType, OtherType DEF Next
<1>2. CASE UNCHANGED vars
  BY <1>2 DEF vars, saved, faults, TypeOK
<1> QED BY <1>1, <1>2

\* The session file is always a session, missing or torn, and calls hold what
\* they can have read: the types of SessionFiles, whatever plans and texts are.
THEOREM Typed == Spec => []TypeOK
<1>1. Init => TypeOK
  BY InitType
<1>2. TypeOK /\ [Next]_vars => TypeOK'
  BY NextType
<1> QED BY <1>1, <1>2, PTL DEF Spec
-----------------------------------------------------------------------------
(* Decisions *)

\* A torn file is being written, or a save was cut off; and a session that has a
\* staged record has a file.
CutInv ==
    /\ \A c \in Callers : call[c].at = "close" <=> writing = c
    /\ file = Torn => writing \in Callers \/ cut
    /\ staged => file # NoFile
    /\ unplanned => cut

LEMMA FileKinds == Torn # NoFile /\ Torn \notin Session /\ NoFile \notin Session
<1>1. \A s \in Session : DOMAIN s = {"plan", "events", "hash"}
  BY DEF Session
<1>2. DOMAIN Torn = {"is"} /\ DOMAIN NoFile = {"is"} /\ Torn.is # NoFile.is
  BY DEF Torn, NoFile
<1>3. "plan" # "is" /\ "plan" \in {"plan", "events", "hash"} /\ "plan" \notin {"is"}
  OBVIOUS
<1> HIDE DEF Torn, NoFile, Session
<1> QED BY <1>1, <1>2, <1>3

\* A tool begins on an idle caller; only StartMonitorSession begins with a save.
LEMMA ToolMoves ==
    ASSUME TypeOK, NEW c \in Callers, Tool(c)
    PROVE  /\ call[c] = Idle /\ call[c].at = "idle"
           /\ call'[c].at \in {"open", "load", "hash", "check"}
           /\ \A d \in Callers \ {c} : call'[d] = call[d]
<1>0. call[c] = Idle
  BY DEF Tool, StartMonitorSession, SetMonitorSessionEditPlan, RecordMonitorSessionEvent,
         PlannedMutation, GetFile, CheckFileHash
<1>1. call[c] = Idle /\ call[c].at = "idle"
  BY <1>0 DEF Idle
<1>2. ASSUME NEW k, k.at \in {"open", "load", "hash", "check"}, Goes(c, k)
      PROVE  /\ call'[c].at \in {"open", "load", "hash", "check"}
             /\ \A d \in Callers \ {c} : call'[d] = call[d]
  BY <1>2 DEF Goes, TypeOK
<1>3. CASE \E p \in Plans : StartMonitorSession(c, p)
  BY <1>1, <1>2, <1>3 DEF StartMonitorSession
<1>4. CASE \E p \in Plans : SetMonitorSessionEditPlan(c, p)
  BY <1>1, <1>2, <1>4 DEF SetMonitorSessionEditPlan
<1>5. CASE RecordMonitorSessionEvent(c) \/ PlannedMutation(c)
  BY <1>1, <1>2, <1>5 DEF RecordMonitorSessionEvent, PlannedMutation
<1>6. CASE GetFile(c) \/ CheckFileHash(c)
  BY <1>1, <1>2, <1>6 DEF GetFile, CheckFileHash
<1> QED BY <1>3, <1>4, <1>5, <1>6 DEF Tool

LEMMA ToolCut ==
    ASSUME TypeOK, CutInv, NEW c \in Callers, Tool(c)
    PROVE  CutInv'
<1>1. UNCHANGED <<file, writing, unplanned, cut>>
  BY DEF Tool, StartMonitorSession, SetMonitorSessionEditPlan, RecordMonitorSessionEvent,
         PlannedMutation, GetFile, CheckFileHash, faults
<1>2. call[c].at = "idle" /\ call'[c].at # "close" /\ \A d \in Callers \ {c} : call'[d] = call[d]
  BY ToolMoves
<1>3. staged' => file # NoFile
  BY DEF Tool, StartMonitorSession, SetMonitorSessionEditPlan, RecordMonitorSessionEvent,
         PlannedMutation, GetFile, CheckFileHash, CutInv, Loads
<1> QED BY <1>1, <1>2, <1>3 DEF CutInv

LEMMA ProceedCut ==
    ASSUME TypeOK, CutInv, NEW c \in Callers, Proceed(c)
    PROVE  CutInv'
<1>0. UNCHANGED <<staged, unplanned, cut>>
  BY DEF Proceed, GetFileHashInfo, AnswerCheck, LoadSession, OpenSession, SaveSession, faults
<1>1. CASE GetFileHashInfo(c) \/ AnswerCheck(c) \/ LoadSession(c)
  <2>1. UNCHANGED <<file, writing>>
    BY <1>1 DEF GetFileHashInfo, AnswerCheck, LoadSession
  <2>2. call[c].at # "close" /\ call'[c].at # "close"
        /\ \A d \in Callers \ {c} : call'[d] = call[d]
    BY <1>1 DEF GetFileHashInfo, AnswerCheck, LoadSession, Goes, TypeOK, Idle
  <2> QED BY <1>0, <2>1, <2>2 DEF CutInv
<1>2. CASE OpenSession(c)
  <2>1. call[c] \in Saving
    BY <1>2, CallShape DEF OpenSession, TypeOK
  <2>2. call'[c].at = "close" /\ \A d \in Callers \ {c} : call'[d] = call[d]
    BY <1>2, <2>1 DEF OpenSession, Goes, TypeOK, Saving
  <2>3. writing = Nobody /\ writing' = c /\ file' = Torn
    BY <1>2 DEF OpenSession
  <2> QED BY <1>0, <2>2, <2>3, FileKinds DEF CutInv
<1>3. CASE SaveSession(c)
  <2>1. call[c].at = "close" /\ writing = c
    BY <1>3 DEF SaveSession, CutInv
  <2>2. call'[c].at # "close" /\ \A d \in Callers \ {c} : call'[d] = call[d]
    BY <1>3 DEF SaveSession, Goes, TypeOK, Idle
  <2>3. file' \in Session /\ writing' = Nobody
    BY <1>3, <2>1, CallShape DEF SaveSession, TypeOK, Saving
  <2>4. file' # Torn /\ file' # NoFile
    BY <2>3, FileKinds
  <2> QED BY <1>0, <2>1, <2>2, <2>3, <2>4 DEF CutInv
<1> QED BY <1>1, <1>2, <1>3 DEF Proceed

LEMMA OtherCut ==
    ASSUME TypeOK, CutInv,
           (\E c \in Callers : Fail(c)) \/ DecideWithoutPlan \/ (\E t \in Texts : OperatorSaves(t))
    PROVE  CutInv'
<1>1. ASSUME NEW c \in Callers, Fail(c)
      PROVE  CutInv'
  <2>1. call'[c].at = "idle" /\ \A d \in Callers \ {c} : call'[d] = call[d]
    BY <1>1 DEF Fail, Goes, TypeOK, Idle
  <2>2. UNCHANGED <<file, staged, unplanned>>
    BY <1>1 DEF Fail
  <2>3. CASE writing = c
    <3>1. writing' = Nobody /\ cut'
      BY <1>1, <2>3 DEF Fail
    <3> QED BY <2>1, <2>2, <2>3, <3>1 DEF CutInv
  <2>4. CASE writing # c
    <3>1. writing' = writing /\ (cut' <=> cut)
      BY <1>1, <2>4 DEF Fail, TypeOK
    <3> QED BY <2>1, <2>2, <2>4, <3>1 DEF CutInv
  <2> QED BY <2>3, <2>4
<1>2. CASE DecideWithoutPlan
  BY <1>2 DEF DecideWithoutPlan, CanRead, CutInv, faults
<1>3. CASE \E t \in Texts : OperatorSaves(t)
  BY <1>3 DEF OperatorSaves, CutInv, faults
<1> QED BY <1>1, <1>2, <1>3

\* A decision is taken without the plan of its session only if a save of the
\* session was cut off, however calls overlap.
THEOREM DecisionsReadPlan == Spec => []DecisionsHavePlan
<1>1. Init => TypeOK /\ CutInv
  BY InitType, FileKinds DEF Init, CutInv, Idle
<1>2. TypeOK /\ CutInv /\ [Next]_vars => TypeOK' /\ CutInv'
  <2> SUFFICES ASSUME TypeOK, CutInv, [Next]_vars PROVE CutInv'
    BY NextType
  <2>1. CASE Next
    BY <2>1, ToolCut, ProceedCut, OtherCut DEF Next
  <2>2. CASE UNCHANGED vars
    BY <2>2 DEF vars, saved, faults, CutInv
  <2> QED BY <2>1, <2>2
<1>3. CutInv => DecisionsHavePlan
  BY DEF CutInv, DecisionsHavePlan
<1> QED BY <1>1, <1>2, <1>3, PTL DEF Spec
-----------------------------------------------------------------------------
(* Calls that come one at a time *)

\* Before the first call, nothing was saved or returned.
FreshInv ==
    /\ begun = 0 => recorded = {} /\ got = NoText
    /\ \A c \in Callers : call[c].at \in {"load", "open", "close"} => begun > 0

\* No get_file read a file that changed, and none failed half-way.
Clean == ~slipped /\ ~halfway

OneCall == \A c, d \in Callers : call[c] # Idle /\ call[d] # Idle => c = d

\* The hash in the file is that of the text the last get_file returned, or of the
\* text that the one under way has recorded and will return.
HashFits ==
    /\ \A c \in Callers : RecordedAccess(call[c]) => file.hash = call[c].text
    /\ (\A c \in Callers : ~RecordedAccess(call[c])) => file.hash = got

FileFits ==
    file \in Session =>
        /\ file.plan = lastPlan
        /\ recorded \subseteq file.events
        /\ Clean => HashFits

\* A first round sets a plan, or the hash of the text that will be returned.
LoadFits(k) ==
    Len(k.todo) = 2 =>
        \/ Head(k.todo).sets = "plan" /\ k.text = NoText
        \/ /\ Head(k.todo).sets = "access" /\ k.text # NoText
           /\ Clean => Head(k.todo).hash = k.text

\* What is about to be saved.
SaveFits(k) ==
    /\ k.change.sets = "plan" => k.text = NoText /\ k.new.plan = k.change.plan
    /\ k.change.sets # "plan" => k.new.plan = lastPlan
    /\ recorded \subseteq k.new.events
    /\ k.change.sets = "event" => k.change.id \in k.new.events /\ k.todo = <<>>
    /\ k.change.sets # "event" => k.todo # <<>> /\ Len(k.todo) = 1
    /\ Clean => k.new.hash = IF k.text = NoText THEN got ELSE k.text

CallFits(k) ==
    /\ k.at = "load" => LoadFits(k)
    /\ k.at \in {"open", "close"} => SaveFits(k)
    /\ k.at = "check" /\ Clean => k.hash = got

AloneInv == alone => OneCall /\ FileFits /\ \A c \in Callers : CallFits(call[c])

LEMMA IdleFacts == Idle.at = "idle" /\ ~RecordedAccess(Idle) /\ CallFits(Idle)
BY DEF Idle, RecordedAccess, CallFits

\* A call goes on while calls are alone: there is no other, before or after.
LEMMA AloneGoes ==
    ASSUME TypeOK, AloneInv, NEW c \in Callers, NEW k, Goes(c, k),
           call[c] # Idle \/ k # Idle, alone'
    PROVE  /\ alone
           /\ OneCall'
           /\ call'[c] = k
           /\ \A d \in Callers \ {c} : call[d] = Idle /\ call'[d] = Idle
<1>1. alone /\ OneCall
  BY DEF Goes, AloneInv, TypeOK
<1>2. \A d \in Callers \ {c} : call[d] = Idle
  BY <1>1 DEF Goes, OneCall
<1>3. call'[c] = k /\ \A d \in Callers \ {c} : call'[d] = call[d]
  BY DEF Goes, TypeOK
<1> QED BY <1>1, <1>2, <1>3 DEF OneCall

\* Put together: the file and the one call fit after the step.
LEMMA AloneStep ==
    ASSUME TypeOK, AloneInv, NEW c \in Callers, NEW k, Goes(c, k),
           call[c] # Idle \/ k # Idle, alone' => FileFits' /\ CallFits(k)'
    PROVE  AloneInv'
<1> SUFFICES ASSUME alone' PROVE (OneCall /\ FileFits /\ \A d \in Callers : CallFits(call[d]))'
  BY DEF AloneInv
<1>1. OneCall' /\ call'[c] = k /\ \A d \in Callers \ {c} : call'[d] = Idle
  BY AloneGoes
<1>2. CallFits(Idle)'
  BY DEF Idle, CallFits
<1>3. ASSUME NEW d \in Callers PROVE CallFits(call[d])'
  <2>1. CASE d = c
    <3>1. CallFits(k)'  OBVIOUS
    <3> QED BY <1>1, <2>1, <3>1 DEF CallFits, LoadFits, SaveFits
  <2>2. CASE d # c  BY <1>1, <1>2, <2>2 DEF CallFits, LoadFits, SaveFits
  <2> QED BY <2>1, <2>2
<1> QED BY <1>1, <1>3
\* The file stays, and the call has an access recorded as before.
LEMMA FileKept ==
    ASSUME TypeOK, AloneInv, NEW c \in Callers, NEW k, Goes(c, k),
           call[c] # Idle \/ k # Idle, alone',
           UNCHANGED <<file, got, lastPlan, recorded>>, Clean' => Clean,
           RecordedAccess(call[c]) <=> RecordedAccess(k),
           RecordedAccess(k) => k.text = call[c].text
    PROVE  FileFits'
<1>1. /\ alone /\ call'[c] = k
      /\ \A d \in Callers \ {c} : call[d] = Idle /\ call'[d] = Idle
  BY AloneGoes
<1>2. \A d \in Callers :
        /\ RecordedAccess(call[d]) <=> RecordedAccess(call'[d])
        /\ RecordedAccess(call'[d]) => call'[d].text = call[d].text
  BY <1>1, IdleFacts
<1>3. FileFits
  BY <1>1 DEF AloneInv
<1> QED BY <1>2, <1>3 DEF FileFits, HashFits

\* A call that is at a load, with one event left and nothing to return.
LEMMA EventLoad ==
    ASSUME NEW e
    PROVE  LET k == [at |-> "load", todo |-> <<e>>, text |-> NoText]
           IN  k # Idle /\ ~RecordedAccess(k) /\ CallFits(k)
<1> DEFINE t == <<e>>
<1>1. Len(t) = 1
  OBVIOUS
<1> HIDE DEF t
<1> DEFINE k == [at |-> "load", todo |-> t, text |-> NoText]
<1>2. k # Idle
  BY DEF Idle
<1> QED BY <1>1, <1>2 DEF RecordedAccess, CallFits, LoadFits, t

\* A call that is at the first of two loads.
LEMMA FirstLoad ==
    ASSUME NEW d, NEW e, NEW x,
           \/ d.sets = "plan" /\ x = NoText
           \/ d.sets = "access" /\ x # NoText /\ (Clean => d.hash = x)
    PROVE  LET k == [at |-> "load", todo |-> <<d, e>>, text |-> x]
           IN  k # Idle /\ ~RecordedAccess(k) /\ CallFits(k)
<1> DEFINE t == <<d, e>>
<1>1. Len(t) = 2 /\ Head(t) = d
  OBVIOUS
<1> HIDE DEF t
<1> DEFINE k == [at |-> "load", todo |-> t, text |-> x]
<1>2. k # Idle
  BY DEF Idle
<1> QED BY <1>1, <1>2 DEF RecordedAccess, CallFits, LoadFits, t

LEMMA ToolAlone ==
    ASSUME TypeOK, FreshInv, AloneInv, NEW c \in Callers, Tool(c)
    PROVE  AloneInv'
<1>0. /\ UNCHANGED <<file, got, lastPlan, recorded, slipped, halfway>>
      /\ call[c] = Idle /\ ~RecordedAccess(call[c])
      /\ Clean' <=> Clean
  <2>1. UNCHANGED <<file, got, lastPlan, recorded, slipped, halfway>>
    BY DEF Tool, StartMonitorSession, SetMonitorSessionEditPlan, RecordMonitorSessionEvent,
           PlannedMutation, GetFile, CheckFileHash, saved, faults
  <2> QED BY <2>1, ToolMoves, IdleFacts DEF Clean
<1>1. ASSUME NEW p \in Plans, StartMonitorSession(c, p)
      PROVE  AloneInv'
  <2> DEFINE t == <<Event(1)>>
             k == [at |-> "open", change |-> [sets |-> "plan", plan |-> p],
                   new |-> [plan |-> p, events |-> {}, hash |-> NoText],
                   todo |-> t, text |-> NoText]
  <2>1. t # <<>> /\ Len(t) = 1
    OBVIOUS
  <2>2. Goes(c, k) /\ recorded = {} /\ got = NoText
    BY <1>1 DEF StartMonitorSession, FreshInv
  <2> HIDE DEF t
  <2>3. k # Idle /\ ~RecordedAccess(k)
    BY DEF Idle, RecordedAccess
  <2>4. CallFits(k)'
    BY <1>0, <2>1, <2>2 DEF CallFits, SaveFits
  <2> HIDE DEF k
  <2>5. alone' => FileFits'
    BY <1>0, <2>2, <2>3, FileKept
  <2> QED BY <2>2, <2>3, <2>4, <2>5, AloneStep
<1>2. ASSUME NEW p \in Plans, SetMonitorSessionEditPlan(c, p)
      PROVE  AloneInv'
  <2>0. PICK k : k = [at |-> "load", text |-> NoText,
                      todo |-> <<[sets |-> "plan", plan |-> p], Event(begun + 1)>>]
    OBVIOUS
  <2>1. k # Idle /\ ~RecordedAccess(k) /\ CallFits(k)
    BY <2>0, FirstLoad
  <2>2. Goes(c, k)
    BY <1>2, <2>0 DEF SetMonitorSessionEditPlan
  <2>3. CallFits(k)'
    BY <1>0, <2>1 DEF CallFits, LoadFits, SaveFits
  <2>4. alone' => FileFits'
    BY <1>0, <2>1, <2>2, FileKept
  <2> QED BY <2>1, <2>2, <2>3, <2>4, AloneStep
<1>3. ASSUME RecordMonitorSessionEvent(c) \/ PlannedMutation(c)
      PROVE  AloneInv'
  <2>0. PICK k : k = [at |-> "load", todo |-> <<Event(begun + 1)>>, text |-> NoText]
    OBVIOUS
  <2>1. k # Idle /\ ~RecordedAccess(k) /\ CallFits(k)
    BY <2>0, EventLoad
  <2>2. Goes(c, k)
    BY <1>3, <2>0 DEF RecordMonitorSessionEvent, PlannedMutation
  <2>3. CallFits(k)'
    BY <1>0, <2>1 DEF CallFits, LoadFits, SaveFits
  <2>4. alone' => FileFits'
    BY <1>0, <2>1, <2>2, FileKept
  <2> QED BY <2>1, <2>2, <2>3, <2>4, AloneStep
<1>4. ASSUME GetFile(c)
      PROVE  AloneInv'
  <2>0. PICK k : k = [at |-> "hash", text |-> watched]
    OBVIOUS
  <2>1. k # Idle /\ ~RecordedAccess(k) /\ CallFits(k)' /\ Goes(c, k)
    BY <1>4, <2>0 DEF Idle, RecordedAccess, CallFits, GetFile
  <2>2. alone' => FileFits'
    BY <1>0, <2>1, FileKept
  <2> QED BY <2>1, <2>2, AloneStep
<1>5. ASSUME CheckFileHash(c)
      PROVE  AloneInv'
  <2>0. PICK k : k = [at |-> "check", hash |-> file.hash]
    OBVIOUS
  <2>1. k # Idle /\ ~RecordedAccess(k) /\ Goes(c, k)
    BY <1>5, <2>0 DEF Idle, RecordedAccess, CheckFileHash
  <2>2. ASSUME alone' PROVE CallFits(k)'
    <3>1. alone /\ \A e \in Callers : call[e] = Idle
      BY <1>0, <2>1, <2>2, AloneGoes
    <3>2. file \in Session
      BY <1>5, LoadsSession DEF CheckFileHash
    <3>3. Clean => file.hash = got
      BY <3>1, <3>2, IdleFacts DEF AloneInv, FileFits, HashFits
    <3> QED BY <1>0, <2>0, <3>3 DEF CallFits
  <2>3. alone' => FileFits'
    BY <1>0, <2>1, FileKept
  <2> QED BY <2>1, <2>2, <2>3, AloneStep
<1> QED BY <1>1, <1>2, <1>3, <1>4, <1>5 DEF Tool
\* The session with a change in it.
LEMMA AppliedIs ==
    ASSUME NEW s \in Session, NEW change \in Change
    PROVE  LET new == Applied(s, change)
           IN  /\ new.plan = IF change.sets = "plan" THEN change.plan ELSE s.plan
               /\ new.hash = IF change.sets = "access" THEN change.hash ELSE s.hash
               /\ s.events \subseteq new.events
               /\ change.sets = "event" => change.id \in new.events
               /\ change.sets \in {"plan", "access", "event"}
<1>1. CASE change.sets = "plan"
  BY <1>1 DEF Applied, Session
<1>2. CASE change.sets = "access"
  BY <1>2 DEF Applied, Session
<1>3. CASE change.sets = "event"
  BY <1>3 DEF Applied, Session
<1>4. change.sets \in {"plan", "access", "event"}
  BY DEF Change
<1> QED BY <1>1, <1>2, <1>3, <1>4

LEMMA LoadAlone ==
    ASSUME TypeOK, AloneInv, NEW c \in Callers, LoadSession(c)
    PROVE  AloneInv'
<1> DEFINE todo == call[c].todo
           new == Applied(file, Head(todo))
<1>1. PICK k : k = [at |-> "open", change |-> Head(todo), new |-> new,
                    todo |-> Tail(todo), text |-> call[c].text]
  OBVIOUS
<1>2. /\ Goes(c, k) /\ k # Idle /\ call[c].at = "load" /\ file \in Session
      /\ UNCHANGED <<file, got, lastPlan, recorded, slipped, halfway>>
      /\ Clean' <=> Clean
  BY <1>1, LoadsSession DEF LoadSession, Idle, saved, faults, Clean
<1>3. call[c] \in Call /\ todo \in Todo
  BY <1>2, CallShape DEF TypeOK
<1>4. /\ Head(todo) \in Change
      /\ Len(todo) \in {1, 2}
      /\ Len(todo) = 1 => Tail(todo) = <<>> /\ Head(todo).sets = "event"
      /\ Len(todo) = 2 => Tail(todo) # <<>> /\ Len(Tail(todo)) = 1
  BY <1>3, TodoShape
<1> HIDE DEF todo, new
<1>5. ASSUME alone'
      PROVE  /\ RecordedAccess(call[c]) <=> RecordedAccess(k)
             /\ CallFits(k)'
  <2>1. /\ alone /\ FileFits /\ LoadFits(call[c])
        /\ \A d \in Callers \ {c} : call[d] = Idle
    BY <1>2, <1>5, AloneGoes DEF AloneInv, CallFits
  <2>2. Len(todo) = 2 =>
          \/ Head(todo).sets = "plan" /\ k.text = NoText
          \/ /\ Head(todo).sets = "access" /\ k.text # NoText
             /\ Clean => Head(todo).hash = k.text
    BY <1>1, <2>1 DEF LoadFits, todo
  <2>3. RecordedAccess(call[c]) <=> k.text # NoText /\ Len(todo) = 1
    BY <1>1, <1>2 DEF RecordedAccess, todo
  <2>4. RecordedAccess(k) <=> k.text # NoText /\ Head(todo).sets = "event"
    BY <1>1 DEF RecordedAccess
  <2>5. RecordedAccess(call[c]) <=> RecordedAccess(k)
    BY <1>4, <2>2, <2>3, <2>4
  <2>6. Clean => file.hash = IF RecordedAccess(call[c]) THEN k.text ELSE got
    BY <1>1, <1>2, <2>1, IdleFacts DEF FileFits, HashFits
  <2>7. /\ new.plan = IF Head(todo).sets = "plan" THEN Head(todo).plan ELSE file.plan
        /\ new.hash = IF Head(todo).sets = "access" THEN Head(todo).hash ELSE file.hash
        /\ file.events \subseteq new.events
        /\ Head(todo).sets = "event" => Head(todo).id \in new.events
    BY <1>2, <1>4, AppliedIs DEF new
  <2>8. file.plan = lastPlan /\ recorded \subseteq file.events
    BY <1>2, <2>1 DEF FileFits
  <2>9. Clean => new.hash = IF k.text = NoText THEN got ELSE k.text
    BY <1>4, <2>2, <2>3, <2>6, <2>7
  <2>10. /\ k.change.sets = "plan" => k.text = NoText /\ k.new.plan = k.change.plan
         /\ k.change.sets # "plan" => k.new.plan = lastPlan
         /\ recorded \subseteq k.new.events
         /\ k.change.sets = "event" => k.change.id \in k.new.events /\ k.todo = <<>>
         /\ k.change.sets # "event" => k.todo # <<>> /\ Len(k.todo) = 1
    BY <1>1, <1>4, <2>2, <2>7, <2>8
  <2>11. SaveFits(k)
    BY <1>1, <2>9, <2>10 DEF SaveFits
  <2> QED BY <1>1, <1>2, <2>5, <2>11 DEF CallFits, SaveFits
<1>6. alone' => FileFits'
  <2>1. k.text = call[c].text  BY <1>1
  <2> QED BY <1>2, <1>5, <2>1, FileKept
<1> QED BY <1>2, <1>5, <1>6, AloneStep
LEMMA OpenAlone ==
    ASSUME TypeOK, AloneInv, NEW c \in Callers, OpenSession(c)
    PROVE  AloneInv'
<1>1. PICK k : k = [call[c] EXCEPT !.at = "close"]
  OBVIOUS
<1>2. call[c] \in Saving
  BY CallShape DEF TypeOK, OpenSession
<1>3. /\ k.at = "close" /\ k.change = call[c].change /\ k.new = call[c].new
      /\ k.todo = call[c].todo /\ k.text = call[c].text
  BY <1>1, <1>2 DEF Saving
<1>4. Goes(c, k) /\ k # Idle /\ call[c].at = "open" /\ file' = Torn
  BY <1>1, <1>3 DEF OpenSession, Idle
<1>5. UNCHANGED <<got, lastPlan, recorded>> /\ (Clean' <=> Clean)
  BY DEF OpenSession, saved, faults, Clean
<1>6. FileFits'
  BY <1>4, FileKinds DEF FileFits
<1>7. ASSUME alone' PROVE CallFits(k)'
  <2>1. SaveFits(call[c])
    BY <1>4, <1>7, AloneGoes DEF AloneInv, CallFits
  <2> QED BY <1>3, <1>5, <2>1 DEF CallFits, SaveFits
<1> QED BY <1>4, <1>6, <1>7, AloneStep

LEMMA SaveAlone ==
    ASSUME TypeOK, AloneInv, NEW c \in Callers, SaveSession(c)
    PROVE  AloneInv'
<1>1. PICK k : k = IF call[c].todo = <<>> THEN Idle
                   ELSE [at |-> "load", todo |-> call[c].todo, text |-> call[c].text]
  OBVIOUS
<1>2. /\ Goes(c, k) /\ call[c] # Idle /\ call[c].at = "close" /\ file' = call[c].new
      /\ Clean' <=> Clean
  BY <1>1 DEF SaveSession, Idle, faults, Clean
<1>3. call[c] \in Saving
  BY <1>2, CallShape DEF TypeOK
<1>4. /\ call[c].change.sets \in {"plan", "access", "event"}
      /\ lastPlan' = IF call[c].change.sets = "plan" THEN call[c].change.plan ELSE lastPlan
      /\ recorded' = recorded \cup IF call[c].change.sets = "event"
                                   THEN {call[c].change.id} ELSE {}
      /\ got' = IF call[c].todo = <<>> /\ call[c].text # NoText THEN call[c].text ELSE got
  BY <1>3 DEF SaveSession, Saving, Change
<1>5. ASSUME alone' PROVE FileFits' /\ CallFits(k)'
  <2>1. /\ SaveFits(call[c]) /\ call'[c] = k
        /\ \A d \in Callers \ {c} : call'[d] = Idle
    BY <1>2, <1>5, AloneGoes DEF AloneInv, CallFits
  <2>2. file'.plan = lastPlan' /\ recorded' \subseteq file'.events
    BY <1>2, <1>4, <2>1 DEF SaveFits
  <2>3. Clean => file'.hash = IF call[c].text = NoText THEN got ELSE call[c].text
    BY <1>2, <2>1 DEF SaveFits
  <2>4. CASE call[c].todo = <<>>
    <3>1. k = Idle /\ \A d \in Callers : ~RecordedAccess(call'[d])
      BY <1>1, <2>1, <2>4, IdleFacts
    <3>2. CallFits(k)'
      BY <3>1 DEF CallFits, Idle
    <3> QED BY <1>2, <1>4, <2>2, <2>3, <2>4, <3>1, <3>2 DEF FileFits, HashFits
  <2>5. CASE call[c].todo # <<>>
    <3>1. k = [at |-> "load", todo |-> call[c].todo, text |-> call[c].text]
      BY <1>1, <2>5
    <3>2. Len(k.todo) = 1 /\ got' = got
      BY <1>4, <2>1, <2>5, <3>1 DEF SaveFits
    <3>3. k.text # NoText <=> RecordedAccess(k)
      BY <3>1, <3>2 DEF RecordedAccess
    <3>4. \A d \in Callers : RecordedAccess(call'[d]) => d = c
      BY <2>1, IdleFacts
    <3>5. CallFits(k)'
      BY <3>1, <3>2 DEF CallFits, LoadFits
    <3>6. k.text = call[c].text
      BY <3>1
    <3>7. Clean => HashFits'
      BY <2>1, <2>3, <3>2, <3>3, <3>4, <3>6 DEF HashFits
    <3> QED BY <1>2, <2>2, <3>5, <3>7 DEF FileFits
  <2> QED BY <2>4, <2>5
<1> QED BY <1>2, <1>5, AloneStep

LEMMA HashAlone ==
    ASSUME TypeOK, AloneInv, NEW c \in Callers, GetFileHashInfo(c)
    PROVE  AloneInv'
<1>1. PICK k : k = [at |-> "load", text |-> call[c].text,
                    todo |-> <<[sets |-> "access", hash |-> watched], Event(begun + 1)>>]
  OBVIOUS
<1>2. /\ Goes(c, k) /\ k # Idle /\ call[c].at = "hash"
      /\ UNCHANGED <<file, got, lastPlan, recorded>>
      /\ Clean' => Clean /\ call[c].text = watched
  BY <1>1 DEF GetFileHashInfo, Idle, saved, Clean, TypeOK
<1>3. call[c].text # NoText /\ ~RecordedAccess(call[c])
  BY <1>2, CallShape DEF TypeOK, RecordedAccess
<1>4. ~RecordedAccess(k) /\ CallFits(k)'
  <2> DEFINE d == [sets |-> "access", hash |-> watched]
             t == <<d, Event(begun + 1)>>
  <2>1. Len(t) = 2 /\ Head(t) = d /\ d.sets = "access" /\ d.hash = watched
    OBVIOUS
  <2>2. k.at = "load" /\ k.text = call[c].text /\ k.todo = t
    BY <1>1
  <2> HIDE DEF t, d
  <2>3. Len(k.todo) = 2 /\ Head(k.todo).sets = "access" /\ Head(k.todo).hash = watched
    BY <2>1, <2>2
  <2>4. (Len(k.todo) = 1) = FALSE
    BY <2>3
  <2> QED BY <1>2, <1>3, <2>2, <2>3, <2>4 DEF RecordedAccess, CallFits, LoadFits
<1>5. alone' => FileFits'
  BY <1>2, <1>3, <1>4, FileKept
<1> QED BY <1>2, <1>4, <1>5, AloneStep

LEMMA AnswerAlone ==
    ASSUME TypeOK, AloneInv, NEW c \in Callers, AnswerCheck(c)
    PROVE  AloneInv'
<1>1. /\ Goes(c, Idle) /\ call[c] # Idle
      /\ UNCHANGED <<file, got, lastPlan, recorded>>
      /\ Clean' <=> Clean
      /\ ~RecordedAccess(call[c])
  BY DEF AnswerCheck, Idle, saved, faults, Clean, RecordedAccess
<1>2. CallFits(Idle)'
  BY DEF CallFits, Idle
<1>3. alone' => FileFits'
  BY <1>1, IdleFacts, FileKept
<1> QED BY <1>1, <1>2, <1>3, AloneStep

LEMMA FailAlone ==
    ASSUME TypeOK, AloneInv, NEW c \in Callers, Fail(c)
    PROVE  AloneInv'
<1>1. /\ Goes(c, Idle) /\ call[c] # Idle
      /\ UNCHANGED <<file, got, lastPlan, recorded>>
      /\ Clean' => Clean /\ ~RecordedAccess(call[c])
  BY DEF Fail, saved, Clean, TypeOK
<1>2. CallFits(Idle)'
  BY DEF CallFits, Idle
<1>3. ASSUME alone' PROVE FileFits'
  <2>1. CASE ~RecordedAccess(call[c])
    BY <1>1, <1>3, <2>1, IdleFacts, FileKept
  <2>2. CASE RecordedAccess(call[c])
    <3>1. ~Clean' /\ FileFits
      BY <1>1, <1>3, <2>2, AloneGoes DEF AloneInv
    <3> QED BY <1>1, <3>1 DEF FileFits
  <2> QED BY <2>1, <2>2
<1> QED BY <1>1, <1>2, <1>3, AloneStep
LEMMA FreshStep ==
    ASSUME TypeOK, FreshInv, [Next]_vars
    PROVE  FreshInv'
<1>1. ASSUME NEW c \in Callers, Tool(c)
      PROVE  FreshInv'
  <2>1. UNCHANGED <<recorded, got>>
    BY <1>1 DEF Tool, StartMonitorSession, SetMonitorSessionEditPlan,
                RecordMonitorSessionEvent, PlannedMutation, GetFile, CheckFileHash, saved
  <2>2. begun' = begun \/ begun' = begun + 1
    BY <1>1 DEF Tool, StartMonitorSession, SetMonitorSessionEditPlan,
                RecordMonitorSessionEvent, PlannedMutation, GetFile, CheckFileHash, Numbered
  <2>3. \A d \in Callers \ {c} : call'[d] = call[d]
    BY <1>1, ToolMoves
  <2>4. call'[c].at \in {"load", "open"} => begun' = begun + 1
    <3>1. CASE GetFile(c) \/ CheckFileHash(c)
      <4>1. call'[c].at \in {"hash", "check"}
        BY <3>1 DEF GetFile, CheckFileHash, Goes, TypeOK
      <4> QED BY <4>1
    <3>2. CASE ~(GetFile(c) \/ CheckFileHash(c))
      BY <1>1, <3>2 DEF Tool, StartMonitorSession, SetMonitorSessionEditPlan,
                        RecordMonitorSessionEvent, PlannedMutation, Numbered
    <3> QED BY <3>1, <3>2
  <2>5. begun \in Nat
    BY DEF TypeOK
  <2>6. call'[c].at # "close"
    BY <1>1, ToolMoves
  <2> QED BY <2>1, <2>2, <2>3, <2>4, <2>5, <2>6 DEF FreshInv
<1>2. ASSUME NEW c \in Callers, Proceed(c)
      PROVE  FreshInv'
  <2>1. \A d \in Callers \ {c} : call'[d] = call[d]
    BY <1>2 DEF Proceed, GetFileHashInfo, AnswerCheck, LoadSession, OpenSession, SaveSession,
                Goes, TypeOK
  <2>2. CASE GetFileHashInfo(c)
    <3>1. begun' = begun + 1 /\ begun \in Nat
      BY <2>2 DEF GetFileHashInfo, Numbered, TypeOK
    <3> QED BY <2>1, <3>1 DEF FreshInv
  <2>3. CASE AnswerCheck(c)
    <3>1. call'[c].at = "idle" /\ UNCHANGED <<begun, recorded, got>>
      BY <2>3 DEF AnswerCheck, Goes, TypeOK, Idle, saved
    <3> QED BY <2>1, <3>1 DEF FreshInv
  <2>4. CASE LoadSession(c) \/ OpenSession(c)
    <3>1. call[c].at \in {"load", "open"} /\ UNCHANGED <<begun, recorded, got>>
      BY <2>4 DEF LoadSession, OpenSession, saved
    <3> QED BY <2>1, <3>1 DEF FreshInv
  <2>5. CASE SaveSession(c)
    <3>1. call[c].at = "close" /\ begun' = begun
      BY <2>5 DEF SaveSession
    <3> QED BY <2>1, <3>1 DEF FreshInv
  <2> QED BY <1>2, <2>2, <2>3, <2>4, <2>5 DEF Proceed
<1>3. ASSUME NEW c \in Callers, Fail(c)
      PROVE  FreshInv'
  <2>1. call'[c].at = "idle" /\ \A d \in Callers \ {c} : call'[d] = call[d]
    BY <1>3 DEF Fail, Goes, TypeOK, Idle
  <2> QED BY <1>3, <2>1 DEF Fail, FreshInv, saved
<1>4. CASE DecideWithoutPlan \/ \E t \in Texts : OperatorSaves(t)
  BY <1>4 DEF DecideWithoutPlan, OperatorSaves, FreshInv, saved
<1>5. CASE UNCHANGED vars
  BY <1>5 DEF vars, saved, FreshInv
<1> QED BY <1>1, <1>2, <1>3, <1>4, <1>5 DEF Next

LEMMA AloneNext ==
    ASSUME TypeOK, FreshInv, AloneInv, [Next]_vars
    PROVE  AloneInv'
<1>1. CASE \E c \in Callers : Tool(c)
  BY <1>1, ToolAlone
<1>2. CASE \E c \in Callers : Proceed(c)
  BY <1>2, HashAlone, AnswerAlone, LoadAlone, OpenAlone, SaveAlone DEF Proceed
<1>3. CASE \E c \in Callers : Fail(c)
  BY <1>3, FailAlone
<1>4. CASE DecideWithoutPlan \/ (\E t \in Texts : OperatorSaves(t)) \/ UNCHANGED vars
  <2>1. UNCHANGED <<file, call, alone, got, lastPlan, recorded, slipped, halfway>>
    BY <1>4 DEF DecideWithoutPlan, OperatorSaves, vars, saved, faults
  <2>2. OneCall' <=> OneCall
    BY <2>1 DEF OneCall
  <2>3. FileFits' <=> FileFits
    BY <2>1 DEF FileFits, HashFits, Clean
  <2>4. \A c \in Callers : CallFits(call[c])' <=> CallFits(call[c])
    BY <2>1 DEF CallFits, LoadFits, SaveFits, Clean
  <2> QED BY <2>1, <2>2, <2>3, <2>4 DEF AloneInv
<1> QED BY <1>1, <1>2, <1>3, <1>4 DEF Next

LEMMA AloneInvariant == Spec => [](TypeOK /\ FreshInv /\ AloneInv)
<1>1. Init => TypeOK /\ FreshInv /\ AloneInv
  <2> SUFFICES ASSUME Init PROVE TypeOK /\ FreshInv /\ AloneInv
    OBVIOUS
  <2>1. \A c \in Callers : call[c] = Idle
    BY DEF Init
  <2>2. FreshInv
    BY <2>1 DEF Init, FreshInv, Idle
  <2>3. OneCall /\ FileFits /\ \A c \in Callers : CallFits(call[c])
    BY <2>1, FileKinds, IdleFacts DEF Init, OneCall, FileFits
  <2> QED BY <2>2, <2>3, InitType DEF AloneInv
<1>2. TypeOK /\ FreshInv /\ AloneInv /\ [Next]_vars => TypeOK' /\ FreshInv' /\ AloneInv'
  BY NextType, FreshStep, AloneNext
<1> QED BY <1>1, <1>2, PTL DEF Spec

\* As long as calls come one at a time, however many of them fail half-way, a
\* session that can be loaded has its last plan and all of its saved events.
THEOREM SessionKeepsAll == Spec => []AloneSessionKeepsAll
<1>1. AloneInv => AloneSessionKeepsAll
  BY DEF AloneInv, FileFits, AloneSessionKeepsAll
<1> QED BY <1>1, AloneInvariant, PTL

\* check_file_hash is about the text that the last get_file returned, but for the
\* exceptions its statement names.
THEOREM CheckIsSound == Spec => []CheckIsAboutLastFetch
<1>1. AloneInv => CheckIsAboutLastFetch
  BY DEF AloneInv, CallFits, Clean, CheckIsAboutLastFetch
<1> QED BY <1>1, AloneInvariant, PTL
=============================================================================
