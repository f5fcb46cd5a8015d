---------------------------- MODULE SessionFiles ----------------------------
(***************************************************************************)
(* The file of one monitor session, as the tools of the MCP server use it. *)
(* It holds the edit plan, the events, and the hash of the watched file    *)
(* the agent fetched last.  Each change is a load, a copy with the change, *)
(* and a save of all of it, with no lock; a tool that changes two things   *)
(* makes two rounds.  The server runs tool calls concurrently, and each of *)
(* several servers may use the session, so calls overlap.                  *)
(*                                                                         *)
(* File.WriteAllText empties the file and then fills it.  Meanwhile nobody *)
(* else can open it: a call that tries ends with an IOException, like one  *)
(* whose process dies (Fail).  A call that dies while it saves leaves a    *)
(* file that does not parse, which LoadSession takes for no session.       *)
(*                                                                         *)
(* Left out: what a plan is used for (PlannedSession), what an edit does   *)
(* (EditWorkflow, RecordStore), a second watched file, fetch counts, and   *)
(* tools that only read.                                                   *)
(***************************************************************************)
EXTENDS Naturals, Sequences

CONSTANTS
    Plans,         \* edit plans that pass BuildPlannedFiles
    Texts,         \* what the watched file can hold
    Callers,       \* tool calls that can be under way at the same time
    MaxCalls,      \* bound: calls that record an event
    NoText,        \* stands for a file that was never fetched
    Nobody         \* stands for a file that is not open for writing

EventIds == 1..MaxCalls

ASSUME SessionFileAssumption ==
    MaxCalls \in Nat /\ NoText \notin Texts /\ Nobody \notin Callers

VARIABLES
    file,        \* the session file: a Session, NoFile or Torn
    writing,     \* the call that has it open to write, or Nobody
    watched,     \* text of the watched file
    call,        \* caller |-> its tool call, or Idle
    begun,       \* how many calls have an event to record
    got,         \* history: text the last get_file returned
    lastPlan,    \* history: plan that was saved last, of those given to a tool
    recorded,    \* history: events that were saved
    staged,      \* history: the session has a staged record
    unplanned,   \* history: a decision on such a record found no plan
    alone,       \* history: two calls were never under way at the same time
    slipped,     \* history: the watched file changed between the two reads of get_file
    halfway,     \* history: a get_file failed after it had recorded the access
    cut          \* history: a save was cut off

saved == <<got, lastPlan, recorded>>
faults == <<slipped, halfway, cut>>
vars == <<file, writing, watched, call, begun, saved, staged, unplanned, alone, faults>>

Held == Texts \cup {NoText}

Session == [plan : Plans, events : SUBSET EventIds, hash : Held]

NoFile == [is |-> "missing"]

Torn == [is |-> "torn"]

\* A change to the session: a new plan, a new hash or one more event.
Change ==
    [sets : {"plan"}, plan : Plans]
    \cup [sets : {"access"}, hash : Texts]
    \cup [sets : {"event"}, id : EventIds]

\* Either an event, or a plan or an access that is followed by its event.
Todo == {<<e>> : e \in [sets : {"event"}, id : EventIds]}
            \cup {<<d, e>> : d \in Change, e \in [sets : {"event"}, id : EventIds]}

Idle == [at |-> "idle"]

\* `text` is what get_file will return; `todo` is the changes that are left, `change`
\* the one that is being saved.
Call ==
    {Idle}
    \cup [at : {"hash"}, text : Texts]
    \cup [at : {"load"}, todo : Todo, text : Held]
    \cup [at : {"open", "close"}, change : Change, new : Session,
          todo : Todo \cup {<<>>}, text : Held]
    \cup [at : {"check"}, hash : Held]

Init ==
    /\ file = NoFile
    /\ writing = Nobody
    /\ watched \in Texts
    /\ call = [c \in Callers |-> Idle]
    /\ begun = 0
    /\ got = NoText
    /\ lastPlan \in Plans
    /\ recorded = {}
    /\ staged = FALSE
    /\ unplanned = FALSE
    /\ alone = TRUE
    /\ slipped = FALSE
    /\ halfway = FALSE
    /\ cut = FALSE

-----------------------------------------------------------------------------
Goes(c, state) ==
    /\ call' = [call EXCEPT ![c] = state]
    /\ alone' = (alone /\ (state # Idle => \A d \in Callers \ {c} : call[d] = Idle))

\* The next event gets a number.
Numbered == begun < MaxCalls /\ begun' = begun + 1

Event(n) == [sets |-> "event", id |-> n]

\* Fault: an IOException is taken for a file that does not parse.
ReadsAnyway == TRUE

\* File.ReadAllText does not fail.
CanRead == writing = Nobody

\* LoadSessionById finds a session.
Loads == CanRead /\ file \notin {NoFile, Torn}

-----------------------------------------------------------------------------
(* The tools *)

\* The session is new, so there is nothing to load before the first save.
StartMonitorSession(c, p) ==
    /\ call[c] = Idle
    /\ begun = 0
    /\ Numbered
    /\ Goes(c, [at |-> "open", change |-> [sets |-> "plan", plan |-> p],
                new |-> [plan |-> p, events |-> {}, hash |-> NoText],
                todo |-> <<Event(1)>>, text |-> NoText])
    /\ UNCHANGED <<file, writing, watched, saved, staged, unplanned, faults>>

SetMonitorSessionEditPlan(c, p) ==
    /\ call[c] = Idle
    /\ file # NoFile
    /\ Numbered
    /\ Goes(c, [at |-> "load", text |-> NoText,
                todo |-> <<[sets |-> "plan", plan |-> p], Event(begun + 1)>>])
    /\ UNCHANGED <<file, writing, watched, saved, staged, unplanned, faults>>

\* By itself, or at the end of compare_file, get_symbol and other tools.
RecordMonitorSessionEvent(c) ==
    /\ call[c] = Idle
    /\ file # NoFile
    /\ Numbered
    /\ Goes(c, [at |-> "load", todo |-> <<Event(begun + 1)>>, text |-> NoText])
    /\ UNCHANGED <<file, writing, watched, saved, staged, unplanned, faults>>

\* An edit tool or stage_candidate_for_review: the plan is asked for, the edit is
\* made, and its event is recorded after that.
PlannedMutation(c) ==
    /\ call[c] = Idle
    /\ Loads
    /\ Numbered
    /\ Goes(c, [at |-> "load", todo |-> <<Event(begun + 1)>>, text |-> NoText])
    /\ staged' = TRUE
    /\ UNCHANGED <<file, writing, watched, saved, unplanned, faults>>

GetFile(c) ==
    /\ call[c] = Idle
    /\ file # NoFile
    /\ Goes(c, [at |-> "hash", text |-> watched])
    /\ UNCHANGED <<file, writing, watched, begun, saved, staged, unplanned, faults>>

\* The file is read once more for its hash.
GetFileHashInfo(c) ==
    /\ call[c].at = "hash"
    /\ Numbered
    /\ Goes(c, [at |-> "load", text |-> call[c].text,
                todo |-> <<[sets |-> "access", hash |-> watched], Event(begun + 1)>>])
    /\ slipped' = (slipped \/ watched # call[c].text)
    /\ UNCHANGED <<file, writing, watched, saved, staged, unplanned, halfway, cut>>

\* The session is loaded, and then the file is hashed.
CheckFileHash(c) ==
    /\ call[c] = Idle
    /\ Loads
    /\ Goes(c, [at |-> "check", hash |-> file.hash])
    /\ UNCHANGED <<file, writing, watched, begun, saved, staged, unplanned, faults>>

\* "Changed" says whether the file has another hash now.
AnswerCheck(c) ==
    /\ call[c].at = "check"
    /\ Goes(c, Idle)
    /\ UNCHANGED <<file, writing, watched, begun, saved, staged, unplanned, faults>>

\* BuildPlannedSessionDecisionOptions finds no session: it defers nothing and
\* builds nothing.
DecideWithoutPlan ==
    /\ staged
    /\ CanRead
    /\ file \in {NoFile, Torn}
    /\ unplanned' = TRUE
    /\ UNCHANGED <<file, writing, watched, call, begun, saved, staged, alone, faults>>

-----------------------------------------------------------------------------
(* Load, change, save *)

\* Fault: the hash of the first access is kept.
AppliedOnce(s, change) ==
    CASE change.sets = "plan" -> [s EXCEPT !.plan = change.plan]
      [] change.sets = "access" -> [s EXCEPT !.hash = IF @ = NoText THEN change.hash ELSE @]
      [] change.sets = "event" -> [s EXCEPT !.events = @ \cup {change.id}]

\* Fault: an access or a plan makes a session without events.
AppliedAfresh(s, change) ==
    CASE change.sets = "plan" -> [s EXCEPT !.plan = change.plan, !.events = {}]
      [] change.sets = "access" -> [s EXCEPT !.hash = change.hash, !.events = {}]
      [] change.sets = "event" -> [s EXCEPT !.events = @ \cup {change.id}]

Applied(s, change) ==
    CASE change.sets = "plan" -> [s EXCEPT !.plan = change.plan]
      [] change.sets = "access" -> [s EXCEPT !.hash = change.hash]
      [] change.sets = "event" -> [s EXCEPT !.events = @ \cup {change.id}]

LoadSession(c) ==
    /\ call[c].at = "load"
    /\ Loads
    /\ Goes(c, [at |-> "open", change |-> Head(call[c].todo),
                new |-> Applied(file, Head(call[c].todo)),
                todo |-> Tail(call[c].todo), text |-> call[c].text])
    /\ UNCHANGED <<file, writing, watched, begun, saved, staged, unplanned, faults>>

\* WriteAllText has emptied the file.
OpenSession(c) ==
    /\ call[c].at = "open"
    /\ writing = Nobody
    /\ writing' = c
    /\ file' = Torn
    /\ Goes(c, [call[c] EXCEPT !.at = "close"])
    /\ UNCHANGED <<watched, begun, saved, staged, unplanned, faults>>

\* The tool returns when its event is saved.
SaveSession(c) ==
    /\ call[c].at = "close"
    /\ file' = call[c].new
    /\ writing' = Nobody
    /\ IF call[c].todo = <<>>
       THEN Goes(c, Idle)
       ELSE Goes(c, [at |-> "load", todo |-> call[c].todo, text |-> call[c].text])
    /\ got' = IF call[c].todo = <<>> /\ call[c].text # NoText THEN call[c].text ELSE got
    /\ lastPlan' = IF call[c].change.sets = "plan" THEN call[c].change.plan ELSE lastPlan
    /\ recorded' = recorded \cup
         IF call[c].change.sets = "event" THEN {call[c].change.id} ELSE {}
    /\ UNCHANGED <<watched, begun, staged, unplanned, faults>>

-----------------------------------------------------------------------------
\* get_file has recorded its access, and its event is to come.
RecordedAccess(k) ==
    /\ k.at \in {"load", "open", "close"}
    /\ k.text # NoText
    /\ k.at = "load" => Len(k.todo) = 1
    /\ k.at # "load" => k.change.sets = "event"

\* The session is not found, a file is in use, or the process dies.
Fail(c) ==
    /\ call[c] # Idle
    /\ Goes(c, Idle)
    /\ writing' = IF writing = c THEN Nobody ELSE writing
    /\ cut' = (cut \/ writing = c)
    /\ halfway' = (halfway \/ RecordedAccess(call[c]))
    /\ UNCHANGED <<file, watched, begun, saved, staged, unplanned, slipped>>

OperatorSaves(t) ==
    /\ t # watched
    /\ watched' = t
    /\ UNCHANGED <<file, writing, call, begun, saved, staged, unplanned, alone, faults>>

-----------------------------------------------------------------------------
Tool(c) ==
    \/ \E p \in Plans : StartMonitorSession(c, p) \/ SetMonitorSessionEditPlan(c, p)
    \/ RecordMonitorSessionEvent(c)
    \/ PlannedMutation(c)
    \/ GetFile(c)
    \/ CheckFileHash(c)

Proceed(c) ==
    \/ GetFileHashInfo(c) \/ AnswerCheck(c)
    \/ LoadSession(c) \/ OpenSession(c) \/ SaveSession(c)

Next ==
    \/ \E c \in Callers : Tool(c) \/ Proceed(c) \/ Fail(c)
    \/ DecideWithoutPlan
    \/ \E t \in Texts : OperatorSaves(t)

Spec == Init /\ [][Next]_vars
-----------------------------------------------------------------------------
(* Properties *)

\* The session file and the calls hold what the code can have put there.
TypeOK ==
    /\ file \in Session \cup {NoFile, Torn}
    /\ writing \in Callers \cup {Nobody}
    /\ watched \in Texts
    /\ call \in [Callers -> Call]
    /\ begun \in 0..MaxCalls
    /\ got \in Held
    /\ lastPlan \in Plans
    /\ recorded \subseteq EventIds
    /\ {staged, unplanned, alone, slipped, halfway, cut} \subseteq BOOLEAN

\* As long as calls come one at a time, any of which may fail half-way, a session
\* that can be loaded has the plan that was set last and every event that was
\* saved: the event a tool adds in its second round is put on what the first one
\* saved.  (Calls that overlap may put an old plan back.)
AloneSessionKeepsAll ==
    alone /\ file \in Session => file.plan = lastPlan /\ recorded \subseteq file.events

\* check_file_hash compares with the text the agent has from its last get_file,
\* unless calls overlapped, the file changed between the two reads of a get_file,
\* or a get_file failed between the access and the event it records.
CheckIsAboutLastFetch ==
    alone /\ ~slipped /\ ~halfway =>
        \A c \in Callers : call[c].at = "check" => call[c].hash = got

\* A decision is taken without the plan of its session only if a save of the session
\* was cut off: calls that overlap never make one see a session without a plan.
DecisionsHavePlan == unplanned => cut
=============================================================================
