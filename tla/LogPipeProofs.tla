--------------------------- MODULE LogPipeProofs ---------------------------
(***************************************************************************)
(* The runtime log, for any number of clients, threads and entries: what   *)
(* the parts hold, that no entry is logged twice, which entries can be     *)
(* lost, and in which order entries come to the file.                      *)
(***************************************************************************)
EXTENDS LogPipe, SequenceTheorems, TLAPS

USE LogAssumption

-----------------------------------------------------------------------------
(* Entries and jobs *)

LEMMA EntryIs ==
    ASSUME NEW w \in Writers, NEW n \in 1..MaxEntries[w]
    PROVE  [by |-> w, n |-> n] \in Entry
BY DEF Entry

LEMMA EntryShape ==
    ASSUME NEW e \in Entry
    PROVE  /\ e.by \in Writers
           /\ e.n \in 1..MaxEntries[e.by]
           /\ e.n \in Nat
           /\ e = [by |-> e.by, n |-> e.n]
           /\ e # NoEntry
<1>1. PICK w \in Writers : e \in [by : {w}, n : 1..MaxEntries[w]]
  BY DEF Entry
<1>2. e.by = w /\ e.n \in 1..MaxEntries[w] /\ e = [by |-> e.by, n |-> e.n]
  BY <1>1
<1>3. MaxEntries[w] \in Nat
  OBVIOUS
<1>4. e.by # NoEntry.by
  BY <1>2 DEF NoEntry
<1> QED BY <1>2, <1>3, <1>4

Everyone == Writers \cup {Listener}

Ways == {"hub", "notice", "fallback"}

LEMMA JobShape ==
    ASSUME NEW k \in Job
    PROVE  /\ k.at \in {"idle", "dead", "connect", "connected", "sent", "taken", "open", "append"}
           /\ k.at \notin {"idle", "dead"} => k.e \in Entry
           /\ k.at \in {"open", "append"} => k.as \in Ways
           /\ k.at = "append" => k.end \in Nat
           /\ k.at = "idle" <=> k = Idle
           /\ k.at = "dead" <=> k = Dead
<1>1. CASE k = Idle  BY <1>1 DEF Idle, Dead
<1>2. CASE k = Dead  BY <1>2 DEF Idle, Dead
<1>3. CASE k \in [at : {"connect", "connected", "sent", "taken"}, e : Entry]
  BY <1>3 DEF Idle, Dead
<1>4. CASE k \in [at : {"open"}, e : Entry, as : Ways]
  BY <1>4 DEF Idle, Dead
<1>5. CASE k \in [at : {"append"}, e : Entry, as : Ways, end : Nat]
  BY <1>5 DEF Idle, Dead
<1> QED BY <1>1, <1>2, <1>3, <1>4, <1>5 DEF Job, Ways

LEMMA SentIs ==
    ASSUME NEW k \in Job, k.at = "sent"
    PROVE  k = [at |-> "sent", e |-> k.e]
BY DEF Job, Idle, Dead

LEMMA NewJob ==
    ASSUME NEW e \in Entry, NEW as \in Ways, NEW end \in Nat
    PROVE  /\ Idle \in Job /\ Dead \in Job
           /\ \A at \in {"connect", "connected", "sent", "taken"} : [at |-> at, e |-> e] \in Job
           /\ [at |-> "open", e |-> e, as |-> as] \in Job
           /\ [at |-> "append", e |-> e, as |-> as, end |-> end] \in Job
BY DEF Job, Ways
-----------------------------------------------------------------------------
(* Types *)

\* A line comes to one place, and what is in another one stays.
LineAt(p, old, end, line, new) ==
    /\ new \in Seq(Line)
    /\ p \in DOMAIN new
    /\ DOMAIN old \subseteq DOMAIN new
    /\ new[p] = line
    /\ \A i \in DOMAIN new : i # p => i \in DOMAIN old /\ new[i] = old[i]
    /\ IF end < Len(old) THEN p = end + 1 /\ Len(new) = Len(old)
                         ELSE p = Len(old) + 1 /\ Len(new) = Len(old) + 1

LEMMA Written ==
    ASSUME log \in Seq(Line), NEW end \in Nat, NEW line \in Line, NEW new,
           new = WrittenAt(end, line)
    PROVE  \E p \in Nat : LineAt(p, log, end, line, new)
<1>1. Len(log) \in Nat /\ DOMAIN log = 1..Len(log)
  BY LenProperties
<1>2. CASE end < Len(log)
  <2>1. end + 1 \in 1..Len(log) /\ new = [log EXCEPT ![end + 1] = line]
    BY <1>1, <1>2 DEF WrittenAt
  <2>2. /\ new \in Seq(Line) /\ Len(new) = Len(log)
        /\ \A i \in 1..Len(log) : new[i] = IF i = end + 1 THEN line ELSE log[i]
    BY <2>1, ExceptSeq
  <2>3. DOMAIN new = 1..Len(new)
    BY <2>2, LenProperties
  <2>4. LineAt(end + 1, log, end, line, new)
    BY <1>1, <1>2, <2>1, <2>2, <2>3 DEF LineAt
  <2> QED BY <2>4
<1>3. CASE ~(end < Len(log))
  <2>1. new = Append(log, line)
    BY <1>3 DEF WrittenAt
  <2>2. /\ new \in Seq(Line) /\ Len(new) = Len(log) + 1
        /\ \A i \in 1..Len(log) : new[i] = log[i]
        /\ new[Len(log) + 1] = line
    BY <2>1, AppendProperties
  <2>3. DOMAIN new = 1..Len(new)
    BY <2>2, LenProperties
  <2>4. LineAt(Len(log) + 1, log, end, line, new)
    BY <1>1, <1>3, <2>2, <2>3 DEF LineAt
  <2> QED BY <1>1, <2>4
<1> QED BY <1>2, <1>3

LEMMA GoesType ==
    ASSUME TypeOK, NEW w \in Everyone, NEW k \in Job, Goes(w, k)
    PROVE  /\ job' \in [Everyone -> Job]
           /\ job'[w] = k
           /\ \A v \in Everyone \ {w} : job'[v] = job[v]
BY DEF TypeOK, Goes, Everyone

LEMMA InitType == Init => TypeOK
<1> SUFFICES ASSUME Init PROVE TypeOK
  OBVIOUS
<1>1. log \in Seq(Line)
  BY DEF Init
<1>2. job \in [Everyone -> Job]
  BY DEF Init, Job, Everyone
<1>3. \A w \in Writers : count[w] \in Nat /\ count[w] <= MaxEntries[w]
  BY DEF Init
<1>4. count \in [Writers -> Nat] /\ pipe = NoPipe
  BY DEF Init
<1>5. listener \in {"off", "between", "waiting", "reading"} /\ app \in {"running", "closing", "gone"}
  BY DEF Init
<1> QED BY <1>1, <1>2, <1>3, <1>4, <1>5 DEF Init, TypeOK, Everyone

LEMMA AppendType ==
    ASSUME TypeOK, NEW w \in Everyone, AppendStep(w)
    PROVE  TypeOK'
<1>1. job[w] \in Job
  BY DEF TypeOK, Everyone
<1>2. CASE OpenLog(w)
  <2>1. job[w].e \in Entry /\ job[w].as \in Ways /\ Len(log) \in Nat
    BY <1>1, <1>2, JobShape, LenProperties DEF OpenLog, At, TypeOK
  <2>2. [at |-> "append", e |-> job[w].e, as |-> job[w].as, end |-> Len(log)] \in Job
    BY <2>1, NewJob
  <2>3. job' \in [Everyone -> Job]
    BY <1>2, <2>2, GoesType DEF OpenLog
  <2>4. raced' \in BOOLEAN
    BY <1>2 DEF OpenLog, TypeOK
  <2> QED BY <1>2, <2>3, <2>4 DEF OpenLog, TypeOK, appVars, Everyone
<1>3. CASE AppendLine(w)
  <2>1. job[w].e \in Entry /\ job[w].as \in Ways /\ job[w].end \in Nat
    BY <1>1, <1>3, JobShape DEF AppendLine, At
  <2> DEFINE line == [entry |-> job[w].e, as |-> job[w].as]
             k == IF job[w].as = "notice"
                  THEN [at |-> "open", e |-> job[w].e, as |-> "fallback"] ELSE Idle
  <2>2. line \in Line /\ k \in Job
    BY <2>1 DEF Line, Ways, Job
  <2>3. Goes(w, k) /\ log' = WrittenAt(job[w].end, line)
    BY <1>3 DEF AppendLine
  <2> HIDE DEF k, line
  <2>4. job' \in [Everyone -> Job]
    BY <2>2, <2>3, GoesType
  <2>5. log' \in Seq(Line)
    BY <2>1, <2>2, <2>3, Written DEF TypeOK, LineAt
  <2> QED BY <1>3, <2>4, <2>5 DEF AppendLine, TypeOK, appVars, Everyone
<1> QED BY <1>2, <1>3 DEF AppendStep

LEMMA BeginType ==
    ASSUME TypeOK, NEW w \in Writers, BeginWrite(w)
    PROVE  TypeOK'
<1>1. count[w] \in Nat /\ MaxEntries[w] \in Nat /\ count[w] + 1 \in 1..MaxEntries[w]
  BY DEF BeginWrite, TypeOK
<1>2. NextEntry(w) \in Entry
  BY <1>1, EntryIs DEF NextEntry
<1> DEFINE k == IF w \in Clients THEN [at |-> "connect", e |-> NextEntry(w)]
                ELSE [at |-> "open", e |-> NextEntry(w), as |-> "hub"]
<1>3. k \in Job
  BY <1>2 DEF Job
<1>4. Goes(w, k)
  BY DEF BeginWrite
<1> HIDE DEF k
<1>5. job' \in [Everyone -> Job]
  BY <1>3, <1>4, GoesType DEF Everyone
<1>6. /\ count' \in [Writers -> Nat]
      /\ \A v \in Writers : count'[v] <= MaxEntries[v]
  BY <1>1 DEF BeginWrite, TypeOK
<1> QED BY <1>5, <1>6 DEF BeginWrite, TypeOK, appVars, Everyone

LEMMA ClientType ==
    ASSUME TypeOK, NEW c \in Clients, ClientStep(c) \/ ClientDies(c)
    PROVE  TypeOK'
<1>1. job[c] \in Job /\ c \in Everyone
  BY DEF TypeOK, Everyone, Writers
<1>2. CASE Connect(c)
  <2>1. job[c].e \in Entry
    BY <1>1, <1>2, JobShape DEF Connect, At
  <2>2. job' \in [Everyone -> Job]
    BY <1>1, <1>2, <2>1, NewJob, GoesType DEF Connect, Job
  <2>3. pipe' \in Pipe
    BY <1>2 DEF Connect, Pipe
  <2> QED BY <1>2, <2>2, <2>3 DEF Connect, TypeOK, Everyone
<1>3. CASE PipeWrite(c)
  <2>1. job[c].e \in Entry
    BY <1>1, <1>3, JobShape DEF PipeWrite, At
  <2>2. job' \in [Everyone -> Job]
    BY <1>1, <1>3, <2>1, GoesType DEF PipeWrite, Job
  <2>3. pipe # NoPipe
    BY <1>3 DEF PipeWrite, NoPipe, Writers
  <2>4. pipe' \in Pipe
    BY <1>3, <2>1, <2>3 DEF PipeWrite, TypeOK, Pipe
  <2> QED BY <1>3, <2>2, <2>4 DEF PipeWrite, TypeOK, Everyone
<1>4. CASE WriteFallback(c)
  <2>1. job[c].e \in Entry
    BY <1>1, <1>4, JobShape DEF WriteFallback, At
  <2>2. job' \in [Everyone -> Job]
    BY <1>1, <1>4, <2>1, GoesType DEF WriteFallback, Job
  <2> QED BY <1>4, <2>2 DEF WriteFallback, appVars, TypeOK, Everyone
<1>5. CASE WriteReturns(c) \/ ClientDies(c)
  <2>1. job' \in [Everyone -> Job]
    BY <1>1, <1>5, GoesType DEF WriteReturns, ClientDies, Job
  <2>2. pipe.of = c => pipe # NoPipe
    BY DEF NoPipe, Writers
  <2>3. pipe' \in Pipe \cup {NoPipe}
    BY <1>5, <2>2 DEF WriteReturns, ClientDies, ClosesEnd, TypeOK, Pipe
  <2> QED BY <1>5, <2>1, <2>3 DEF WriteReturns, ClientDies, TypeOK, Everyone
<1> QED BY <1>2, <1>3, <1>4, <1>5 DEF ClientStep

LEMMA ListenerType ==
    ASSUME TypeOK, ListenerStep \/ AppStep
    PROVE  TypeOK'
<1>1. CASE ListenerReads
  <2>1. pipe # NoPipe
    BY <1>1 DEF ListenerReads, NoPipe
  <2>2. pipe \in Pipe /\ pipe.line \in Entry
    BY <1>1, <2>1 DEF ListenerReads, TypeOK, Pipe
  <2>3. pipe' \in Pipe
    BY <1>1, <2>2 DEF ListenerReads, Pipe
  <2>4. job' \in [Everyone -> Job]
    BY <1>1, <2>2 DEF ListenerReads, TypeOK, Everyone, Job
  <2> QED BY <1>1, <2>3, <2>4 DEF ListenerReads, TypeOK, Everyone
<1>2. CASE ListenerOpensPipe \/ ListenerSeesEnd \/ ListenerStops \/ AppStarts \/ AppCloses
  BY <1>2 DEF ListenerOpensPipe, ListenerSeesEnd, ListenerStops, AppStarts, AppCloses, TypeOK
<1>3. CASE AppEnds
  <2>1. job' \in [Everyone -> Job]
    BY <1>3 DEF AppEnds, TypeOK, Everyone, Job
  <2> QED BY <1>3, <2>1 DEF AppEnds, TypeOK, Everyone
<1> QED BY <1>1, <1>2, <1>3 DEF ListenerStep, AppStep

LEMMA NextType == TypeOK /\ [Next]_vars => TypeOK'
<1> SUFFICES ASSUME TypeOK, [Next]_vars PROVE TypeOK'
  OBVIOUS
<1>1. CASE Next
  BY <1>1, AppendType, BeginType, ClientType, ListenerType DEF Next, Everyone
<1>2. CASE UNCHANGED vars
  BY <1>2 DEF vars, appVars, TypeOK
<1> QED BY <1>1, <1>2

\* File, pipe and threads hold what the code can have put there, for any number
\* of clients, threads and entries.
THEOREM Typed == Spec => []TypeOK
BY InitType, NextType, PTL DEF Spec
-----------------------------------------------------------------------------
(* No entry is logged twice *)

\* The entries in the file, without notices.
Logged == {log[i].entry : i \in {j \in DOMAIN log : log[j].as # "notice"}}

LEMMA LoggedAreEntries ==
    ASSUME TypeOK
    PROVE  \A i \in DOMAIN log : log[i] \in Line /\ log[i].entry \in Entry
<1>1. log \in Seq(Line) /\ DOMAIN log = 1..Len(log)
  BY LenProperties DEF TypeOK
<1>2. \A i \in 1..Len(log) : log[i] \in Line
  BY <1>1, ElementOfSeq
<1> QED BY <1>1, <1>2 DEF Line

LEMMA LoggedIs == (\A x : IsLogged(x) <=> x \in Logged) /\ (\A x : IsLogged(x)' <=> x \in Logged')
BY DEF IsLogged, Logged

\* The entry that the listener has read from a pipe and is to append.
InJob == IF job[Listener].at \in {"open", "append"} THEN {job[Listener].e} ELSE {}

\* The writer has an entry of which it does not know that the app has read it.
Claims(w) == job[w].at \in {"connect", "connected", "sent", "open", "append"}

\* An entry was begun before it came to the file.
Counted == \A i \in DOMAIN log : log[i].entry.n <= count[log[i].entry.by]

\* A line in a pipe is of the client of the pipe, and was not read.
PipeFits ==
    pipe.line # NoEntry =>
        /\ pipe.line.by = pipe.of
        /\ pipe.line.n <= count[pipe.line.by]
        /\ pipe.line \notin Logged

\* A writer is busy with its last entry.
OwnEntry ==
    \A w \in Writers :
        job[w].at \notin {"idle", "dead"} => job[w].e = [by |-> w, n |-> count[w]]

\* It is the only one that has it, but for a line it has sent.
ClaimsFit ==
    \A w \in Writers :
        Claims(w) =>
            /\ job[w].e \notin Logged
            /\ job[w].e \notin InJob
            /\ job[w].at # "sent" => pipe.line # job[w].e

HandFits ==
    /\ job[Listener].at \in {"idle", "open", "append"}
    /\ job[Listener].at # "idle" =>
         /\ job[Listener].e.n <= count[job[Listener].e.by]
         /\ job[Listener].e \notin Logged
         /\ pipe.line # job[Listener].e

OnceInv == Counted /\ PipeFits /\ OwnEntry /\ ClaimsFit /\ HandFits /\ LoggedOnce

\* What is in the file after a line was appended.
LEMMA AfterAppend ==
    ASSUME TypeOK, NEW w \in Everyone, AppendLine(w)
    PROVE  \E p \in Nat :
             LineAt(p, log, job[w].end, [entry |-> job[w].e, as |-> job[w].as], log')
<1>1. job[w] \in Job /\ job[w].at = "append"
  BY DEF TypeOK, Everyone, AppendLine, At
<1>2. PICK line : line = [entry |-> job[w].e, as |-> job[w].as]
  OBVIOUS
<1>3. job[w].end \in Nat /\ line \in Line
  BY <1>1, <1>2, JobShape DEF Line, Ways
<1>4. log' = WrittenAt(job[w].end, line) /\ log \in Seq(Line)
  BY <1>2 DEF AppendLine, TypeOK
<1> QED BY <1>2, <1>3, <1>4, Written

LEMMA LoggedAfter ==
    ASSUME TypeOK, NEW w \in Everyone, AppendLine(w)
    PROVE  Logged' \subseteq Logged \cup IF job[w].as # "notice" THEN {job[w].e} ELSE {}
<1>1. PICK p \in Nat : LineAt(p, log, job[w].end, [entry |-> job[w].e, as |-> job[w].as], log')
  BY AfterAppend
<1> SUFFICES ASSUME NEW i \in DOMAIN log', log'[i].as # "notice"
             PROVE  log'[i].entry \in Logged \cup IF job[w].as # "notice" THEN {job[w].e} ELSE {}
  BY DEF Logged
<1>2. CASE i = p
  BY <1>1, <1>2 DEF LineAt
<1>3. CASE i # p
  BY <1>1, <1>3 DEF LineAt, Logged
<1> QED BY <1>2, <1>3

LEMMA OnceInit == Init => OnceInv
<1> SUFFICES ASSUME Init PROVE OnceInv
  OBVIOUS
<1>1. DOMAIN log = {} /\ pipe.line = NoEntry
  BY DEF Init, NoPipe
<1>2. \A w \in Everyone : job[w].at = "idle"
  BY DEF Init, Idle, Everyone
<1> QED BY <1>1, <1>2 DEF OnceInv, Counted, PipeFits, OwnEntry, ClaimsFit, Claims, HandFits,
                          LoggedOnce, Everyone

LEMMA OnceOpen ==
    ASSUME TypeOK, OnceInv, NEW w \in Everyone, OpenLog(w)
    PROVE  OnceInv'
<1>1. /\ job[w].at = "open"
      /\ job'[w].at = "append" /\ job'[w].e = job[w].e
      /\ \A v \in Everyone \ {w} : job'[v] = job[v]
  BY DEF OpenLog, At, Goes, TypeOK, Everyone
<1>2. UNCHANGED <<log, pipe, count>> /\ Logged' = Logged
  BY DEF OpenLog, appVars, Logged
<1>3. InJob' = InJob
  BY <1>1 DEF InJob, Everyone
<1>4. ClaimsFit'
  BY <1>1, <1>2, <1>3 DEF OnceInv, ClaimsFit, Claims, Everyone
<1>5. HandFits'
  BY <1>1, <1>2, <1>3 DEF OnceInv, HandFits, Everyone
<1>6. OwnEntry'
  BY <1>1, <1>2 DEF OnceInv, OwnEntry, Everyone
<1>7. Counted' /\ PipeFits' /\ LoggedOnce'
  BY <1>2, <1>3 DEF OnceInv, Counted, PipeFits, LoggedOnce
<1> QED BY <1>4, <1>5, <1>6, <1>7 DEF OnceInv

LEMMA OnceAppend ==
    ASSUME TypeOK, OnceInv, NEW w \in Everyone, AppendLine(w)
    PROVE  OnceInv'
<1>0. PICK e : e = job[w].e
  OBVIOUS
<1>1. /\ job[w].at = "append" /\ job[w] \in Job
      /\ UNCHANGED <<pipe, count>>
      /\ \A v \in Everyone \ {w} : job'[v] = job[v]
      /\ \/ job[w].as = "notice" /\ job'[w].at = "open" /\ job'[w].e = e
         \/ job[w].as # "notice" /\ job'[w] = Idle
  BY <1>0 DEF AppendLine, At, Goes, TypeOK, Everyone, appVars
<1>2. Idle.at = "idle"
  BY DEF Idle
<1>3. e.n <= count[e.by] /\ e \notin Logged
  <2>1. CASE w = Listener
    BY <1>0, <1>1, <2>1 DEF OnceInv, HandFits
  <2>2. CASE w # Listener
    <3>1. w \in Writers /\ e = [by |-> w, n |-> count[w]] /\ e \notin Logged
      BY <1>0, <1>1, <2>2 DEF OnceInv, OwnEntry, ClaimsFit, Claims, Everyone
    <3>2. count[w] \in Nat
      BY <3>1 DEF TypeOK
    <3> QED BY <3>1, <3>2
  <2> QED BY <2>1, <2>2
<1>4. PICK p \in Nat : LineAt(p, log, job[w].end, [entry |-> e, as |-> job[w].as], log')
  BY <1>0, AfterAppend
<1>5. Counted'
  <2> SUFFICES ASSUME NEW i \in DOMAIN log'
               PROVE  log'[i].entry.n <= count[log'[i].entry.by]
    BY <1>1 DEF Counted
  <2>1. CASE i = p
    BY <1>3, <1>4, <2>1 DEF LineAt
  <2>2. CASE i # p
    BY <1>4, <2>2 DEF LineAt, OnceInv, Counted
  <2> QED BY <2>1, <2>2
<1>6. LoggedOnce'
  <2> SUFFICES ASSUME NEW i \in DOMAIN log', NEW j \in DOMAIN log',
                      log'[i].entry = log'[j].entry,
                      log'[i].as # "notice", log'[j].as # "notice"
               PROVE  i = j
    BY DEF LoggedOnce
  <2>1. CASE i = p /\ j # p
    BY <1>3, <1>4, <2>1 DEF LineAt, Logged
  <2>2. CASE i # p /\ j = p
    BY <1>3, <1>4, <2>2 DEF LineAt, Logged
  <2>3. CASE i # p /\ j # p
    BY <1>4, <2>3 DEF LineAt, OnceInv, LoggedOnce
  <2> QED BY <2>1, <2>2, <2>3
<1>7. Logged' \subseteq Logged \cup IF job[w].as # "notice" THEN {e} ELSE {}
  BY <1>0, LoggedAfter
<1>8. PipeFits'
  <2>1. pipe.line # e
    BY <1>0, <1>1 DEF OnceInv, ClaimsFit, Claims, HandFits, Everyone
  <2> QED BY <1>1, <1>7, <2>1 DEF OnceInv, PipeFits
<1>9. OwnEntry'
  BY <1>0, <1>1, <1>2 DEF OnceInv, OwnEntry, Everyone
<1>10. InJob' \subseteq InJob
  BY <1>0, <1>1, <1>2 DEF InJob, Everyone
<1>11. ClaimsFit'
  <2> SUFFICES ASSUME NEW v \in Writers, Claims(v)'
               PROVE  /\ job'[v].e \notin Logged'
                      /\ job'[v].e \notin InJob'
                      /\ job'[v].at # "sent" => pipe'.line # job'[v].e
    BY DEF ClaimsFit
  <2>1. CASE v = w
    <3>1. job[w].as = "notice" /\ job'[w].at = "open" /\ job'[w].e = e
      BY <1>1, <1>2, <2>1 DEF Claims
    <3>2. e \notin Logged /\ e \notin InJob /\ pipe.line # e
      BY <1>0, <1>1, <2>1 DEF OnceInv, ClaimsFit, Claims
    <3> QED BY <1>1, <1>7, <1>10, <2>1, <3>1, <3>2
  <2>2. CASE v # w
    <3>1. job'[v] = job[v] /\ Claims(v)
      BY <1>1, <2>2 DEF Everyone, Claims
    <3>2. job[v].e \notin Logged /\ job[v].e \notin InJob
          /\ (job[v].at # "sent" => pipe.line # job[v].e)
      BY <3>1 DEF OnceInv, ClaimsFit
    <3>3. job[v].e # e
      <4>1. CASE w = Listener
        BY <1>0, <1>1, <3>2, <4>1 DEF InJob
      <4>2. CASE w # Listener
        <5>1. job[v].e = [by |-> v, n |-> count[v]] /\ e = [by |-> w, n |-> count[w]]
          BY <1>0, <1>1, <3>1, <4>2 DEF OnceInv, OwnEntry, Claims, Everyone
        <5> QED BY <2>2, <5>1
      <4> QED BY <4>1, <4>2
    <3> QED BY <1>1, <1>7, <1>10, <3>1, <3>2, <3>3
  <2> QED BY <2>1, <2>2
<1>12. HandFits'
  <2>1. CASE w = Listener
    BY <1>0, <1>1, <1>2, <1>3, <1>7, <2>1 DEF OnceInv, HandFits
  <2>2. CASE w # Listener
    <3>1. job'[Listener] = job[Listener]
      BY <1>1, <2>2 DEF Everyone
    <3>2. job[Listener].at # "idle" => job[Listener].e # e
      BY <1>0, <1>1, <2>2 DEF OnceInv, HandFits, ClaimsFit, Claims, InJob, Everyone
    <3> QED BY <1>1, <1>7, <3>1, <3>2 DEF OnceInv, HandFits
  <2> QED BY <2>1, <2>2
<1> QED BY <1>5, <1>6, <1>8, <1>9, <1>11, <1>12 DEF OnceInv

LEMMA OnceBegin ==
    ASSUME TypeOK, OnceInv, NEW w \in Writers, BeginWrite(w)
    PROVE  OnceInv'
<1>0. PICK e : e = [by |-> w, n |-> count[w] + 1]
  OBVIOUS
<1>1. /\ job[w] = Idle
      /\ job'[w].at \in {"connect", "open"} /\ job'[w].e = e
      /\ \A v \in Everyone \ {w} : job'[v] = job[v]
      /\ UNCHANGED <<log, pipe>>
  BY <1>0 DEF BeginWrite, NextEntry, Goes, TypeOK, Everyone, appVars
<1>2. count \in [Writers -> Nat] /\ count' = [count EXCEPT ![w] = @ + 1]
  BY DEF BeginWrite, TypeOK
<1>3. \A v \in Writers : count'[v] >= count[v] /\ count'[w] = count[w] + 1
  BY <1>2
<1>4. \A i \in DOMAIN log : log[i].entry \in Entry
  BY LoggedAreEntries
<1>5. /\ pipe.line # NoEntry => pipe.line \in Entry
      /\ job[Listener].at # "idle" => job[Listener].e \in Entry
  <2>1. pipe.line # NoEntry => pipe.line \in Entry
    BY DEF TypeOK, Pipe, NoPipe
  <2>2. job[Listener] \in Job
    BY DEF TypeOK
  <2>3. job[Listener].at \in {"idle", "open", "append"}
    BY DEF OnceInv, HandFits
  <2> QED BY <2>1, <2>2, <2>3, JobShape
<1>6. Idle.at = "idle" /\ e # NoEntry
  BY <1>0 DEF Idle, NoEntry
<1>7. \A x \in Entry : x.n <= count[x.by] => x.n <= count'[x.by] /\ x # e
  <2> SUFFICES ASSUME NEW x \in Entry, x.n <= count[x.by] PROVE x.n <= count'[x.by] /\ x # e
    OBVIOUS
  <2>1. x.by \in Writers /\ x.n \in Nat
    BY EntryShape
  <2>2. count[x.by] \in Nat /\ count'[x.by] \in Nat
    BY <1>2, <2>1
  <2>3. x.by = w => x.n # e.n
    BY <1>0, <2>1, <2>2
  <2>4. e.by = w
    BY <1>0
  <2> QED BY <1>3, <2>1, <2>2, <2>3, <2>4
<1>8. Counted' /\ Logged' = Logged /\ e \notin Logged
  BY <1>1, <1>4, <1>7 DEF OnceInv, Counted, Logged
<1>9. PipeFits' /\ pipe.line # e
  BY <1>1, <1>5, <1>6, <1>7, <1>8 DEF OnceInv, PipeFits
<1>10. job'[Listener] = job[Listener] /\ InJob' = InJob
  BY <1>1 DEF InJob, Everyone
<1>11. HandFits' /\ e \notin InJob
  BY <1>1, <1>5, <1>7, <1>8, <1>10 DEF OnceInv, HandFits, InJob
<1>12. OwnEntry'
  BY <1>0, <1>1, <1>2, <1>3 DEF OnceInv, OwnEntry, Everyone
<1>13. ClaimsFit'
  BY <1>1, <1>8, <1>9, <1>10, <1>11 DEF OnceInv, ClaimsFit, Claims, Everyone
<1>14. LoggedOnce'
  BY <1>1 DEF OnceInv, LoggedOnce
<1> QED BY <1>8, <1>9, <1>11, <1>12, <1>13, <1>14 DEF OnceInv
\* A step that writes no line and reads none: pipes are emptied, and writers go
\* on with their entries or give them up.
LEMMA OnceFrame ==
    ASSUME TypeOK, OnceInv, UNCHANGED <<log, count>>,
           pipe'.line = NoEntry \/ (pipe'.line = pipe.line /\ pipe'.of = pipe.of),
           job'[Listener] = job[Listener] \/ job'[Listener].at = "idle",
           \A v \in Writers :
               job'[v].at \in {"idle", "dead"} \/
                   /\ job'[v].e = job[v].e
                   /\ job[v].at \notin {"idle", "dead"}
                   /\ Claims(v)' => Claims(v)
                   /\ Claims(v)' /\ job'[v].at # "sent" =>
                        job[v].at # "sent" \/ pipe'.line # job[v].e
    PROVE  OnceInv'
<1>1. Logged' = Logged /\ InJob' \subseteq InJob
  BY DEF Logged, InJob
<1>2. Counted' /\ LoggedOnce'
  BY DEF OnceInv, Counted, LoggedOnce
<1>3. PipeFits'
  BY <1>1 DEF OnceInv, PipeFits
<1>4. OwnEntry'
  BY DEF OnceInv, OwnEntry
<1>5. HandFits'
  <2>1. CASE job'[Listener].at = "idle"
    BY <2>1 DEF HandFits
  <2>2. CASE job'[Listener] = job[Listener]
    <3>1. job[Listener].at # "idle" => job[Listener].e # NoEntry
      BY JobShape, EntryShape DEF TypeOK, OnceInv, HandFits
    <3> QED BY <1>1, <2>2, <3>1 DEF OnceInv, HandFits
  <2> QED BY <2>1, <2>2
<1>6. ClaimsFit'
  <2> SUFFICES ASSUME NEW v \in Writers, Claims(v)'
               PROVE  /\ job'[v].e \notin Logged'
                      /\ job'[v].e \notin InJob'
                      /\ job'[v].at # "sent" => pipe'.line # job'[v].e
    BY DEF ClaimsFit
  <2>1. job'[v].at \notin {"idle", "dead"}
    BY DEF Claims
  <2>2. job'[v].e = job[v].e /\ Claims(v)
    BY <2>1
  <2>3. job[v].e # NoEntry
    <3>1. job[v].e = [by |-> v, n |-> count[v]]
      BY <2>2 DEF OnceInv, OwnEntry, Claims
    <3> QED BY <3>1 DEF NoEntry
  <2> QED BY <1>1, <2>1, <2>2, <2>3 DEF OnceInv, ClaimsFit
<1> QED BY <1>2, <1>3, <1>4, <1>5, <1>6 DEF OnceInv
LEMMA OnceClient ==
    ASSUME TypeOK, OnceInv, NEW c \in Clients,
           Connect(c) \/ WriteFallback(c) \/ WriteReturns(c) \/ ClientDies(c)
    PROVE  OnceInv'
<1>1. c \in Writers /\ c # Listener /\ Idle.at = "idle" /\ Dead.at = "dead"
  BY DEF Writers, Idle, Dead
<1>2. /\ UNCHANGED <<log, count>>
      /\ \A v \in Everyone \ {c} : job'[v] = job[v]
      /\ job'[Listener] = job[Listener]
  BY <1>1 DEF Connect, WriteFallback, WriteReturns, ClientDies, Goes, TypeOK, Everyone, appVars
<1>3. pipe'.line = NoEntry \/ (pipe'.line = pipe.line /\ pipe'.of = pipe.of)
  <2>1. pipe \in Pipe \/ pipe = NoPipe
    BY DEF TypeOK
  <2>2. CASE Connect(c) \/ WriteFallback(c)
    BY <2>2 DEF Connect, WriteFallback, appVars
  <2>3. CASE WriteReturns(c) \/ ClientDies(c)
    BY <2>1, <2>3 DEF WriteReturns, ClientDies, ClosesEnd, Pipe, NoPipe
  <2> QED BY <2>2, <2>3
<1>4. \/ job'[c].at \in {"idle", "dead"}
      \/ /\ job'[c].at \in {"connected", "open"}
         /\ job'[c].e = job[c].e
         /\ Claims(c)
         /\ job[c].at # "sent" \/ pipe'.line # job[c].e
  <2>1. CASE WriteReturns(c) \/ ClientDies(c)
    BY <1>1, <2>1 DEF WriteReturns, ClientDies, Goes, TypeOK, Everyone
  <2>2. CASE Connect(c)
    BY <1>1, <2>2 DEF Connect, At, Claims, Goes, TypeOK, Everyone
  <2>3. CASE WriteFallback(c)
    <3>1. /\ job'[c].at = "open" /\ job'[c].e = job[c].e /\ Claims(c)
          /\ job[c].at = "sent" => pipe.of # c
          /\ pipe' = pipe
      BY <1>1, <2>3 DEF WriteFallback, At, Claims, Goes, TypeOK, Everyone, appVars
    <3>2. job[c].e = [by |-> c, n |-> count[c]]
      BY <1>1, <3>1 DEF OnceInv, OwnEntry, Claims
    <3>3. job[c].at = "sent" => pipe.line # job[c].e
      BY <1>1, <3>1, <3>2 DEF OnceInv, PipeFits, NoEntry
    <3> QED BY <3>1, <3>3
  <2> QED BY <2>1, <2>2, <2>3
<1>5. ASSUME NEW v \in Writers
      PROVE  job'[v].at \in {"idle", "dead"} \/
                   /\ job'[v].e = job[v].e
                   /\ job[v].at \notin {"idle", "dead"}
                   /\ Claims(v)' => Claims(v)
                   /\ Claims(v)' /\ job'[v].at # "sent" =>
                        job[v].at # "sent" \/ pipe'.line # job[v].e
  <2>1. CASE v = c
    BY <1>4, <2>1 DEF Claims
  <2>2. CASE v # c
    BY <1>2, <2>2 DEF Claims, Everyone
  <2> QED BY <2>1, <2>2
<1> QED BY <1>2, <1>3, <1>5, OnceFrame

LEMMA OncePipeWrite ==
    ASSUME TypeOK, OnceInv, NEW c \in Clients, PipeWrite(c)
    PROVE  OnceInv'
<1>0. PICK e : e = job[c].e
  OBVIOUS
<1>1. c \in Writers /\ c # Listener
  BY DEF Writers
<1>2. /\ job[c].at = "connected"
      /\ pipe.of = c /\ UNCHANGED <<log, count>>
      /\ job'[c].at = "sent" /\ job'[c].e = e
      /\ \A v \in Everyone \ {c} : job'[v] = job[v]
  BY <1>0, <1>1 DEF PipeWrite, At, Goes, TypeOK, Everyone
<1>3. pipe \in Pipe
  BY <1>1, <1>2 DEF TypeOK, NoPipe
<1>4. pipe'.of = c /\ pipe'.line = e
  BY <1>0, <1>2, <1>3 DEF PipeWrite, Pipe
<1>5. e = [by |-> c, n |-> count[c]] /\ e \notin Logged /\ e \notin InJob
  BY <1>0, <1>1, <1>2 DEF OnceInv, OwnEntry, ClaimsFit, Claims
<1>6. Logged' = Logged /\ Counted' /\ LoggedOnce'
  BY <1>2 DEF OnceInv, Counted, LoggedOnce, Logged
<1>7. job'[Listener] = job[Listener] /\ InJob' = InJob
  BY <1>1, <1>2 DEF InJob, Everyone
<1>8. count[c] \in Nat
  BY <1>1 DEF TypeOK
<1>9. PipeFits'
  BY <1>2, <1>4, <1>5, <1>6, <1>8 DEF PipeFits
<1>10. OwnEntry'
  BY <1>0, <1>2 DEF OnceInv, OwnEntry, Everyone
<1>11. HandFits'
  BY <1>2, <1>4, <1>5, <1>6, <1>7 DEF OnceInv, HandFits, InJob
<1>12. ClaimsFit'
  <2> SUFFICES ASSUME NEW v \in Writers, Claims(v)'
               PROVE  /\ job'[v].e \notin Logged'
                      /\ job'[v].e \notin InJob'
                      /\ job'[v].at # "sent" => pipe'.line # job'[v].e
    BY DEF ClaimsFit
  <2>1. CASE v = c
    BY <1>2, <1>5, <1>6, <1>7, <2>1
  <2>2. CASE v # c
    <3>1. job'[v] = job[v] /\ Claims(v)
      BY <1>2, <2>2 DEF Everyone, Claims
    <3>2. job[v].e = [by |-> v, n |-> count[v]]
      BY <3>1 DEF OnceInv, OwnEntry, Claims
    <3> QED BY <1>4, <1>5, <1>6, <1>7, <2>2, <3>1, <3>2 DEF OnceInv, ClaimsFit
  <2> QED BY <2>1, <2>2
<1> QED BY <1>6, <1>9, <1>10, <1>11, <1>12 DEF OnceInv

LEMMA OnceReads ==
    ASSUME TypeOK, OnceInv, ListenerReads
    PROVE  OnceInv'
<1>0. PICK e : e = pipe.line
  OBVIOUS
<1>1. /\ e # NoEntry /\ UNCHANGED <<log, count>>
      /\ job[Listener].at = "idle"
      /\ job'[Listener].at = "open" /\ job'[Listener].e = e
  BY <1>0 DEF ListenerReads, TypeOK, Idle
<1>2. \A v \in Writers :
        IF v = pipe.of /\ job[v] = [at |-> "sent", e |-> e]
        THEN job'[v] = [at |-> "taken", e |-> e]
        ELSE job'[v] = job[v]
  BY <1>0 DEF ListenerReads, TypeOK
<1>3. pipe \in Pipe /\ e \in Entry
  BY <1>0, <1>1 DEF TypeOK, NoPipe, Pipe
<1>4. pipe'.line = NoEntry
  BY <1>3 DEF ListenerReads, Pipe
<1>5. e.by = pipe.of /\ e.n <= count[e.by] /\ e \notin Logged
  BY <1>0, <1>1 DEF OnceInv, PipeFits
<1>6. Logged' = Logged /\ Counted' /\ LoggedOnce'
  BY <1>1 DEF OnceInv, Counted, LoggedOnce, Logged
<1>7. PipeFits'
  BY <1>4 DEF PipeFits
<1>8. HandFits'
  BY <1>1, <1>4, <1>5, <1>6 DEF HandFits
<1>9. InJob' = {e}
  BY <1>1 DEF InJob
<1>10. OwnEntry'
  <2> SUFFICES ASSUME NEW v \in Writers, job'[v].at \notin {"idle", "dead"}
               PROVE  job'[v].e = [by |-> v, n |-> count[v]]
    BY <1>1 DEF OwnEntry
  <2>1. job[v].at \notin {"idle", "dead"} /\ job'[v].e = job[v].e
    BY <1>2
  <2> QED BY <2>1 DEF OnceInv, OwnEntry
<1>11. ClaimsFit'
  <2> SUFFICES ASSUME NEW v \in Writers, Claims(v)'
               PROVE  /\ job'[v].e \notin Logged'
                      /\ job'[v].e \notin InJob'
                      /\ job'[v].at # "sent" => pipe'.line # job'[v].e
    BY DEF ClaimsFit
  <2>1. job'[v] = job[v] /\ Claims(v) /\ ~(v = pipe.of /\ job[v] = [at |-> "sent", e |-> e])
    BY <1>2 DEF Claims
  <2>2. job[v].e = [by |-> v, n |-> count[v]] /\ job[v].e \notin Logged
        /\ (job[v].at # "sent" => e # job[v].e)
    BY <1>0, <2>1 DEF OnceInv, OwnEntry, ClaimsFit, Claims
  <2>3. job[v].e # e
    <3>1. CASE job[v].at = "sent" /\ job[v].e = e
      <4>1. v = pipe.of
        BY <1>5, <2>2, <3>1
      <4>2. job[v] \in Job /\ job[v].at = "sent"
        BY <3>1 DEF TypeOK
      <4>3. job[v] = [at |-> "sent", e |-> job[v].e]
        BY <4>2, SentIs
      <4> QED BY <2>1, <3>1, <4>1, <4>3
    <3> QED BY <2>2, <3>1
  <2>4. job[v].e # NoEntry
    BY <2>2 DEF NoEntry
  <2> QED BY <1>4, <1>6, <1>9, <2>1, <2>2, <2>3, <2>4
<1> QED BY <1>6, <1>7, <1>8, <1>10, <1>11 DEF OnceInv

LEMMA OnceOthers ==
    ASSUME TypeOK, OnceInv,
           \/ ListenerOpensPipe \/ ListenerSeesEnd \/ ListenerStops \/ AppStep
           \/ UNCHANGED vars
    PROVE  OnceInv'
<1>1. UNCHANGED <<log, count>>
  BY DEF ListenerOpensPipe, ListenerSeesEnd, ListenerStops, AppStep, AppStarts, AppCloses, AppEnds,
         vars, appVars
<1>2. pipe' = pipe \/ pipe' = NoPipe
  BY DEF ListenerOpensPipe, ListenerSeesEnd, ListenerStops, AppStep, AppStarts, AppCloses, AppEnds,
         vars, appVars
<1>3. \A v \in Everyone : job'[v] = job[v] \/ job'[v].at = "idle"
  <2>1. CASE AppEnds
    BY <2>1 DEF AppEnds, TypeOK, Everyone, Idle
  <2>2. CASE UNCHANGED job
    BY <2>2
  <2> QED BY <2>1, <2>2 DEF ListenerOpensPipe, ListenerSeesEnd, ListenerStops, AppStep, AppStarts,
                            AppCloses, vars
<1>4. NoPipe.line = NoEntry
  BY DEF NoPipe
<1>5. ASSUME NEW v \in Writers, job'[v] = job[v]
      PROVE  Claims(v)' => Claims(v)
  BY <1>5 DEF Claims
<1> QED BY <1>1, <1>2, <1>3, <1>4, <1>5, OnceFrame DEF Everyone

LEMMA OnceNext == TypeOK /\ OnceInv /\ [Next]_vars => OnceInv'
<1> SUFFICES ASSUME TypeOK, OnceInv, [Next]_vars PROVE OnceInv'
  OBVIOUS
<1> QED BY OnceOpen, OnceAppend, OnceBegin, OnceClient, OncePipeWrite, OnceReads, OnceOthers
        DEF Next, ClientStep, AppendStep, ListenerStep, Everyone

\* An entry is in the log once at most, whatever was lost and however often the
\* app was closed.
THEOREM LoggedOnlyOnce == Spec => []LoggedOnce
<1>1. OnceInv => LoggedOnce
  BY DEF OnceInv
<1> QED BY <1>1, OnceInit, OnceNext, Typed, PTL DEF Spec
-----------------------------------------------------------------------------
(* Which entries can be lost *)

\* The steps that write nothing and open no file.
Quiet ==
    \/ \E w \in Writers : BeginWrite(w)
    \/ \E c \in Clients : ClientStep(c) \/ ClientDies(c)
    \/ ListenerStep
    \/ AppStep
    \/ UNCHANGED vars

LEMMA StepIs ==
    ASSUME [Next]_vars
    PROVE  Quiet \/ \E w \in Everyone : OpenLog(w) \/ AppendLine(w)
BY DEF Next, Quiet, AppendStep, Everyone

LEMMA QuietKeeps ==
    ASSUME TypeOK, Quiet
    PROVE  /\ UNCHANGED <<log, raced>> /\ Logged' = Logged
           /\ \A v \in Everyone : job'[v].at = "append" => job'[v] = job[v]
<1>1. CASE \E w \in Writers : BeginWrite(w)
  BY <1>1 DEF BeginWrite, Goes, TypeOK, Everyone, Logged, appVars
<1>2. CASE \E c \in Clients : ClientStep(c) \/ ClientDies(c)
  BY <1>2 DEF ClientStep, Connect, PipeWrite, WriteFallback, WriteReturns, ClientDies, Goes,
              TypeOK, Everyone, Idle, Dead, Logged, appVars
<1>3. CASE ListenerStep
  BY <1>3 DEF ListenerStep, ListenerOpensPipe, ListenerReads, ListenerSeesEnd, ListenerStops,
              TypeOK, Everyone, Logged
<1>4. CASE AppStep
  BY <1>4 DEF AppStep, AppStarts, AppCloses, AppEnds, TypeOK, Everyone, Idle, Logged
<1>5. CASE UNCHANGED vars
  BY <1>5 DEF vars, Logged
<1> QED BY <1>1, <1>2, <1>3, <1>4, <1>5 DEF Quiet

\* What opening and appending do to the jobs.
LEMMA AppendMoves ==
    ASSUME TypeOK, NEW w \in Everyone, OpenLog(w) \/ AppendLine(w)
    PROVE  /\ UNCHANGED <<app, listener, pipe, ended, count>>
           /\ \A v \in Everyone \ {w} : job'[v] = job[v]
           /\ OpenLog(w) =>
                /\ job[w].at = "open" /\ job'[w].at = "append"
                /\ job'[w].e = job[w].e /\ job'[w].as = job[w].as
                /\ job'[w].end = Len(log)
                /\ log' = log
           /\ AppendLine(w) =>
                /\ job[w].at = "append" /\ raced' = raced
                /\ IF job[w].as = "notice"
                   THEN job'[w].at = "open" /\ job'[w].e = job[w].e /\ job'[w].as = "fallback"
                   ELSE job'[w] = Idle
<1>1. CASE OpenLog(w)
  BY <1>1 DEF OpenLog, AppendLine, At, Goes, TypeOK, Everyone, appVars
<1>2. CASE AppendLine(w)
  BY <1>2 DEF OpenLog, AppendLine, At, Goes, TypeOK, Everyone, appVars
<1> QED BY <1>1, <1>2

\* As long as no two processes had the file open, who has it open is alone and
\* has its end.
Alone ==
    ~raced =>
        \A v \in Everyone :
            job[v].at = "append" =>
                /\ job[v].end = Len(log)
                /\ \A w \in Everyone : job[w].at = "append" => w = v

LEMMA AloneNext ==
    ASSUME TypeOK, Alone, [Next]_vars
    PROVE  Alone'
<1>1. CASE Quiet
  BY <1>1, QuietKeeps DEF Alone
<1>2. ASSUME NEW w \in Everyone, OpenLog(w)
      PROVE  Alone'
  <2>1. /\ \A v \in Everyone \ {w} : job'[v] = job[v]
        /\ job[w].at = "open" /\ job'[w].end = Len(log) /\ log' = log
    BY <1>2, AppendMoves
  <2>2. ASSUME ~raced', NEW v \in Everyone, job[v].at = "append"
        PROVE  FALSE
    <3>1. v \in Appending /\ SameProcess(v, w)
      BY <1>2, <2>2 DEF OpenLog, Appending, At, Everyone
    <3>2. v # w
      BY <2>1, <2>2
    <3>3. v \in AppThreads /\ w \in AppThreads
      BY <3>1, <3>2 DEF SameProcess
    <3> QED BY <1>2, <3>1, <3>3 DEF OpenLog, LockIsFree
  <2> QED BY <2>1, <2>2 DEF Alone
<1>3. ASSUME NEW w \in Everyone, AppendLine(w)
      PROVE  Alone'
  <2>1. /\ \A v \in Everyone \ {w} : job'[v] = job[v]
        /\ job[w].at = "append" /\ job'[w].at # "append" /\ raced' = raced
    BY <1>3, AppendMoves DEF Idle
  <2> QED BY <2>1 DEF Alone
<1> QED BY <1>1, <1>2, <1>3, StepIs

\* A thread of the app writes its own entry or the listener's, never a notice.
AppWrites ==
    \A t \in AppThreads :
        job[t].at = "idle" \/ (job[t].at \in {"open", "append"} /\ job[t].as = "hub")

LEMMA AppWritesNext ==
    ASSUME TypeOK, AppWrites, [Next]_vars
    PROVE  AppWrites'
<1>1. AppThreads \subseteq Everyone /\ AppThreads \cap Clients = {} /\ Idle.at = "idle"
  BY DEF AppThreads, Everyone, Writers, Idle
<1>2. CASE \E w \in Everyone : OpenLog(w) \/ AppendLine(w)
  BY <1>1, <1>2, AppendMoves DEF AppWrites
<1>3. CASE \E w \in Writers : BeginWrite(w)
  BY <1>1, <1>3 DEF BeginWrite, Goes, TypeOK, AppWrites, Everyone, Writers
<1>4. CASE \E c \in Clients : ClientStep(c) \/ ClientDies(c)
  <2>1. PICK c \in Clients : ClientStep(c) \/ ClientDies(c)
    BY <1>4
  <2>2. \A v \in Everyone \ {c} : job'[v] = job[v]
    BY <2>1 DEF ClientStep, Connect, PipeWrite, WriteFallback, WriteReturns, ClientDies, Goes,
                TypeOK, Everyone
  <2> QED BY <1>1, <2>2 DEF AppWrites
<1>5. CASE ListenerReads
  <2>1. pipe \in Pipe
    BY <1>5 DEF ListenerReads, TypeOK, NoPipe
  <2>2. pipe.of \in Clients
    BY <2>1 DEF Pipe
  <2>3. \A t \in AppThreads : job'[t] = IF t = Listener THEN [at |-> "open", e |-> pipe.line, as |-> "hub"]
                                         ELSE job[t]
    BY <1>1, <1>5, <2>2 DEF ListenerReads, TypeOK, Everyone
  <2> QED BY <2>3 DEF AppWrites
<1>6. CASE AppEnds
  BY <1>1, <1>6 DEF AppEnds, TypeOK, AppWrites, Everyone
<1>7. CASE UNCHANGED job
  BY <1>7 DEF AppWrites
<1> QED BY <1>2, <1>3, <1>4, <1>5, <1>6, <1>7, StepIs
        DEF Quiet, ListenerStep, AppStep, ListenerOpensPipe, ListenerSeesEnd, ListenerStops,
            AppStarts, AppCloses, vars
\* The entries of which a notice is in the file.
Noticed == {log[i].entry : i \in {j \in DOMAIN log : log[j].as = "notice"}}

LEMMA NoticedIs == TypeOK => \A e \in Entry : FellBack(e) <=> e \in Noticed
<1> SUFFICES ASSUME TypeOK, NEW e \in Entry PROVE FellBack(e) <=> e \in Noticed
  OBVIOUS
<1>1. \A i \in DOMAIN log : log[i] = [entry |-> e, as |-> "notice"] <=>
                               log[i].entry = e /\ log[i].as = "notice"
  BY LoggedAreEntries DEF Line
<1> QED BY <1>1 DEF FellBack, Noticed

LEMMA SetsAreEntries == TypeOK => Noticed \subseteq Entry /\ Logged \subseteq Entry
BY LoggedAreEntries DEF Noticed, Logged

\* As long as no two processes had the file open, a line is put behind the others.
LEMMA AppendsAtEnd ==
    ASSUME TypeOK, Alone, ~raced, NEW w \in Everyone, AppendLine(w)
    PROVE  /\ Logged' = Logged \cup IF job[w].as = "notice" THEN {} ELSE {job[w].e}
           /\ Noticed' = Noticed \cup IF job[w].as = "notice" THEN {job[w].e} ELSE {}
           /\ Len(log) + 1 \in DOMAIN log'
           /\ log'[Len(log) + 1] = [entry |-> job[w].e, as |-> job[w].as]
           /\ DOMAIN log' = DOMAIN log \cup {Len(log) + 1}
           /\ \A i \in DOMAIN log : log'[i] = log[i]
<1>0. PICK line : line = [entry |-> job[w].e, as |-> job[w].as]
  OBVIOUS
<1>1. job[w].end = Len(log)
  BY DEF Alone, AppendLine, At
<1>2. PICK p \in Nat : LineAt(p, log, Len(log), line, log')
  BY <1>0, <1>1, AfterAppend
<1>3. Len(log) \in Nat /\ DOMAIN log = 1..Len(log)
  BY LenProperties DEF TypeOK
<1>4. p = Len(log) + 1 /\ p \notin DOMAIN log
  BY <1>2, <1>3 DEF LineAt
<1>5. /\ p \in DOMAIN log' /\ log'[p] = line
      /\ \A i \in DOMAIN log : i \in DOMAIN log' /\ i # p /\ log'[i] = log[i]
      /\ \A i \in DOMAIN log' : i = p \/ i \in DOMAIN log
  BY <1>2, <1>4 DEF LineAt
<1>6. Logged' = Logged \cup IF line.as = "notice" THEN {} ELSE {line.entry}
  BY <1>5 DEF Logged
<1>7. Noticed' = Noticed \cup IF line.as = "notice" THEN {line.entry} ELSE {}
  BY <1>5 DEF Noticed
<1>8. line.as = job[w].as /\ line.entry = job[w].e
  BY <1>0
<1>9. DOMAIN log' = DOMAIN log \cup {p}
  BY <1>5
<1> QED BY <1>0, <1>4, <1>5, <1>6, <1>7, <1>8, <1>9

\* A client that wrote a notice goes on to write the entry, unless it dies.
NoticeKept ==
    ~raced =>
        \A e \in Noticed :
            \/ e \in Logged
            \/ job[e.by].at \in {"open", "append"} /\ job[e.by].as = "fallback" /\ job[e.by].e = e
            \/ job[e.by] = Dead /\ e.n = count[e.by]

LEMMA NoticeKeptNext ==
    ASSUME TypeOK, OnceInv, Alone, AppWrites, NoticeKept, [Next]_vars
    PROVE  NoticeKept'
<1>1. \A x \in Noticed : x \in Entry /\ x.by \in Writers /\ x.by \in Everyone
  BY SetsAreEntries, EntryShape DEF Everyone
<1>2. \A w \in Writers : job[w].at \notin {"idle", "dead"} => job[w].e = [by |-> w, n |-> count[w]]
  BY DEF OnceInv, OwnEntry
<1>3. Dead.at = "dead" /\ Idle.at = "idle"
  BY DEF Dead, Idle
<1>4. ASSUME NEW w \in Everyone, OpenLog(w)
      PROVE  NoticeKept'
  <2>1. /\ log' = log /\ count' = count
        /\ raced => raced'
        /\ \A v \in Everyone \ {w} : job'[v] = job[v]
        /\ job[w].at = "open" /\ job'[w].at = "append"
        /\ job'[w].e = job[w].e /\ job'[w].as = job[w].as
    BY <1>4, AppendMoves DEF OpenLog
  <2>2. Logged' = Logged /\ Noticed' = Noticed
    BY <2>1 DEF Logged, Noticed
  <2> QED BY <1>1, <1>3, <2>1, <2>2 DEF NoticeKept
<1>5. ASSUME NEW w \in Everyone, AppendLine(w)
      PROVE  NoticeKept'
  <2> SUFFICES ASSUME ~raced', NEW x \in Noticed'
               PROVE  \/ x \in Logged'
                      \/ /\ job'[x.by].at \in {"open", "append"}
                         /\ job'[x.by].as = "fallback" /\ job'[x.by].e = x
                      \/ job'[x.by] = Dead /\ x.n = count'[x.by]
    BY DEF NoticeKept
  <2>1. PICK e : e = job[w].e
    OBVIOUS
  <2>2. /\ ~raced /\ count' = count
        /\ \A v \in Everyone \ {w} : job'[v] = job[v]
        /\ job[w].at = "append"
        /\ job[w].as = "notice" => job'[w].at = "open" /\ job'[w].e = e /\ job'[w].as = "fallback"
    BY <1>5, <2>1, AppendMoves
  <2>3. /\ Logged' = Logged \cup IF job[w].as = "notice" THEN {} ELSE {e}
        /\ Noticed' = Noticed \cup IF job[w].as = "notice" THEN {e} ELSE {}
    BY <1>5, <2>1, <2>2, AppendsAtEnd
  <2>4. CASE x \notin Noticed
    <3>1. x = e /\ job[w].as = "notice"
      BY <2>3, <2>4
    <3>2. w \in Writers
      BY <2>2, <3>1 DEF AppWrites, AppThreads, Everyone
    <3>3. e = [by |-> w, n |-> count[w]]
      BY <1>2, <2>1, <2>2, <3>2
    <3>4. x.by = w
      BY <3>1, <3>3
    <3> QED BY <2>2, <3>1, <3>4
  <2>5. CASE x \in Noticed /\ x \notin Logged
    <3>1. \/ job[x.by].at \in {"open", "append"} /\ job[x.by].as = "fallback" /\ job[x.by].e = x
          \/ job[x.by] = Dead /\ x.n = count[x.by]
      BY <2>2, <2>5 DEF NoticeKept
    <3>2. CASE x.by = w
      BY <1>3, <2>1, <2>2, <2>3, <3>1, <3>2
    <3>3. CASE x.by # w
      BY <1>1, <2>2, <2>5, <3>1, <3>3
    <3> QED BY <3>2, <3>3
  <2> QED BY <2>3, <2>4, <2>5
<1>6. CASE Quiet
  <2>1. UNCHANGED <<log, raced>> /\ Logged' = Logged
    BY <1>6, QuietKeeps
  <2>2. Noticed' = Noticed
    BY <2>1 DEF Noticed
  <2> SUFFICES ASSUME ~raced, NEW x \in Noticed, x \notin Logged
               PROVE  \/ /\ job'[x.by].at \in {"open", "append"}
                         /\ job'[x.by].as = "fallback" /\ job'[x.by].e = x
                      \/ job'[x.by] = Dead /\ x.n = count'[x.by]
    BY <2>1, <2>2 DEF NoticeKept
  <2>3. PICK c : c = x.by
    OBVIOUS
  <2>4. \/ job[c].at \in {"open", "append"} /\ job[c].as = "fallback" /\ job[c].e = x
        \/ job[c] = Dead /\ x.n = count[c]
    BY <2>3 DEF NoticeKept
  <2>5. c \in Clients /\ c \in Writers /\ c \in Everyone /\ c # Listener
    <3>1. c \in Writers
      BY <1>1, <2>3
    <3>2. c \notin AppThreads
      BY <1>3, <2>4 DEF AppWrites
    <3> QED BY <3>1, <3>2 DEF AppThreads, Writers, Everyone
  <2>6. x.n = count[c]
    <3>1. CASE job[c].at \in {"open", "append"} /\ job[c].e = x
      <4>1. x = [by |-> c, n |-> count[c]]
        BY <1>2, <2>5, <3>1
      <4> QED BY <4>1
    <3> QED BY <2>4, <3>1
  <2>7. ASSUME job'[c] = job[c], count'[c] = count[c]
        PROVE  \/ /\ job'[c].at \in {"open", "append"}
                  /\ job'[c].as = "fallback" /\ job'[c].e = x
               \/ job'[c] = Dead /\ x.n = count'[c]
    BY <2>4, <2>7
  <2>8. CASE \E w \in Writers : BeginWrite(w)
    <3>1. PICK w \in Writers : BeginWrite(w)
      BY <2>8
    <3>2. w # c
      BY <1>3, <2>4, <3>1 DEF BeginWrite
    <3>3. job'[c] = job[c] /\ count'[c] = count[c]
      BY <2>5, <3>1, <3>2 DEF BeginWrite, Goes, TypeOK, Everyone
    <3> QED BY <2>3, <2>7, <3>3
  <2>9. CASE \E d \in Clients : ClientStep(d) \/ ClientDies(d)
    <3>1. PICK d \in Clients : ClientStep(d) \/ ClientDies(d)
      BY <2>9
    <3>2. count' = count
      BY <3>1 DEF ClientStep, Connect, PipeWrite, WriteFallback, WriteReturns, ClientDies
    <3>3. CASE d # c
      <4>1. job'[c] = job[c]
        BY <2>5, <3>1, <3>3 DEF ClientStep, Connect, PipeWrite, WriteFallback, WriteReturns,
                                ClientDies, Goes, TypeOK, Everyone
      <4> QED BY <2>3, <2>7, <3>2, <4>1
    <3>4. CASE d = c
      <4>1. ClientDies(c)
        BY <1>3, <2>4, <3>1, <3>4 DEF ClientStep, Connect, PipeWrite, WriteFallback, WriteReturns, At
      <4>2. job'[c] = Dead
        BY <2>5, <4>1 DEF ClientDies, Goes, TypeOK, Everyone
      <4> QED BY <2>3, <2>6, <3>2, <4>2
    <3> QED BY <3>3, <3>4
  <2>10. CASE ListenerStep \/ AppStep \/ UNCHANGED vars
    <3>1. count' = count
      BY <2>10 DEF ListenerStep, AppStep, ListenerOpensPipe, ListenerReads, ListenerSeesEnd,
                   ListenerStops, AppStarts, AppCloses, AppEnds, vars
    <3>2. CASE ListenerReads
      BY <1>3, <2>3, <2>4, <2>5, <2>7, <3>1, <3>2 DEF ListenerReads, TypeOK, Everyone
    <3>3. CASE AppEnds
      <4>1. c \notin AppThreads
        BY <2>5 DEF AppThreads
      <4>2. job'[c] = job[c]
        BY <2>5, <3>3, <4>1 DEF AppEnds, TypeOK, Everyone
      <4> QED BY <2>3, <2>7, <3>1, <4>2
    <3>4. CASE UNCHANGED job
      BY <2>3, <2>7, <3>1, <3>4
    <3> QED BY <2>10, <3>2, <3>3, <3>4
            DEF ListenerStep, AppStep, ListenerOpensPipe, ListenerSeesEnd, ListenerStops,
                AppStarts, AppCloses, vars
  <2> QED BY <1>6, <2>8, <2>9, <2>10 DEF Quiet
<1> QED BY <1>4, <1>5, <1>6, StepIs
\* There is a connection only while the listener reads, and it is new to a client
\* that has not sent its line.
PipeServed ==
    /\ listener # "reading" => pipe = NoPipe
    /\ app = "gone" => listener = "off"
    /\ app = "closing" => ended
    /\ \A c \in Clients : job[c].at = "connected" /\ pipe.of = c => pipe.line = NoEntry

LEMMA PipeServedNext ==
    ASSUME TypeOK, PipeServed, [Next]_vars
    PROVE  PipeServed'
<1>1. Clients \subseteq Everyone /\ Idle.at = "idle" /\ Dead.at = "dead"
      /\ NoPipe.line = NoEntry /\ Clients \cap AppThreads = {}
  BY DEF Everyone, Writers, Idle, Dead, NoPipe, AppThreads
<1>2. CASE \E w \in Everyone : OpenLog(w) \/ AppendLine(w)
  BY <1>1, <1>2, AppendMoves DEF PipeServed
<1>3. CASE \E w \in Writers : BeginWrite(w)
  BY <1>1, <1>3 DEF BeginWrite, Goes, TypeOK, PipeServed, Everyone, appVars
<1>4. CASE \E c \in Clients : ClientStep(c) \/ ClientDies(c)
  <2>1. PICK c \in Clients : ClientStep(c) \/ ClientDies(c)
    BY <1>4
  <2>2. /\ \A v \in Everyone \ {c} : job'[v] = job[v]
        /\ UNCHANGED <<app, ended>>
    BY <2>1 DEF ClientStep, Connect, PipeWrite, WriteFallback, WriteReturns, ClientDies, Goes,
                TypeOK, Everyone, appVars
  <2>3. pipe \in Pipe \/ pipe = NoPipe
    BY DEF TypeOK
  <2>4. NoPipe.of = Listener /\ c # Listener
    BY DEF NoPipe, Writers
  <2>5. CASE Connect(c)
    <3>1. listener = "waiting" /\ listener' = "reading" /\ pipe'.line = NoEntry
      BY <2>5 DEF Connect
    <3> QED BY <2>2, <3>1 DEF PipeServed
  <2>6. CASE PipeWrite(c)
    <3>1. pipe.of = c /\ listener' = listener /\ pipe \in Pipe
      BY <2>3, <2>4, <2>6 DEF PipeWrite
    <3>2. pipe'.of = c /\ job'[c].at = "sent"
      BY <1>1, <2>6, <3>1 DEF PipeWrite, Pipe, Goes, TypeOK, Everyone
    <3>3. listener = "reading"
      BY <2>4, <3>1 DEF PipeServed
    <3> QED BY <2>2, <3>1, <3>2, <3>3 DEF PipeServed
  <2>7. CASE WriteFallback(c)
    <3>1. job'[c].at = "open" /\ UNCHANGED <<listener, pipe>>
      BY <1>1, <2>7 DEF WriteFallback, Goes, TypeOK, Everyone, appVars
    <3> QED BY <1>1, <2>2, <3>1 DEF PipeServed
  <2>8. CASE WriteReturns(c) \/ ClientDies(c)
    <3>1. job'[c].at \in {"idle", "dead"} /\ listener' = listener
      BY <1>1, <2>8 DEF WriteReturns, ClientDies, Goes, TypeOK, Everyone
    <3>2. pipe'.of = pipe.of /\ pipe'.line = pipe.line
      BY <2>3, <2>8 DEF WriteReturns, ClientDies, ClosesEnd, Pipe, NoPipe
    <3>3. pipe = NoPipe => pipe' = NoPipe
      BY <2>4, <2>8 DEF WriteReturns, ClientDies, ClosesEnd
    <3> QED BY <1>1, <2>2, <3>1, <3>2, <3>3 DEF PipeServed
  <2> QED BY <2>1, <2>5, <2>6, <2>7, <2>8 DEF ClientStep
<1>5. CASE ListenerReads
  <2>1. pipe'.line = NoEntry /\ UNCHANGED <<app, ended, listener>> /\ listener = "reading"
    BY <1>5 DEF ListenerReads, TypeOK, Pipe, NoPipe
  <2> QED BY <2>1 DEF PipeServed
<1>6. CASE ListenerOpensPipe \/ ListenerSeesEnd \/ ListenerStops \/ AppStarts \/ AppEnds
  <2>1. pipe' = NoPipe
    BY <1>6 DEF ListenerOpensPipe, ListenerSeesEnd, ListenerStops, AppStarts, AppEnds, PipeServed
  <2>2. (app' = "gone" => listener' = "off") /\ (app' = "closing" => ended')
    BY <1>6 DEF ListenerOpensPipe, ListenerSeesEnd, ListenerStops, AppStarts, AppEnds, PipeServed
  <2> QED BY <1>1, <2>1, <2>2 DEF PipeServed
<1>7. CASE AppCloses \/ UNCHANGED vars
  BY <1>7 DEF AppCloses, vars, appVars, PipeServed
<1> QED BY <1>2, <1>3, <1>4, <1>5, <1>6, <1>7, StepIs DEF Quiet, ListenerStep, AppStep

\* What the app has of the clients is on its way, as long as it is not closed.
Kept == Logged \cup InJob \cup {pipe.line}

Handed ==
    ~raced /\ ~ended =>
        /\ \A c \in Clients :
             /\ job[c].at = "sent" => pipe.line = job[c].e
             /\ job[c].at = "taken" => job[c].e \in Logged \cup InJob
        /\ \A e \in Entry : Returned(e) => e \in Kept
LEMMA KeptStays ==
    ASSUME TypeOK, Alone, AppWrites, PipeServed, [Next]_vars, ~raced', ~ended'
    PROVE  /\ ~raced /\ ~ended
           /\ Logged \cup InJob \subseteq Logged' \cup InJob'
           /\ pipe.line # NoEntry => pipe'.line = pipe.line \/ (ListenerReads /\ InJob' = {pipe.line})
<1>1. CASE \E w \in Everyone : OpenLog(w) \/ AppendLine(w)
  <2>1. PICK w \in Everyone : OpenLog(w) \/ AppendLine(w)
    BY <1>1
  <2>2. ~raced /\ ~ended /\ pipe' = pipe
    <3>1. UNCHANGED <<pipe, ended>>
      BY <2>1, AppendMoves
    <3>2. raced => raced'
      BY <2>1 DEF OpenLog, AppendLine
    <3> QED BY <3>1, <3>2
  <2>3. CASE OpenLog(w)
    <3>1. Logged' = Logged
      BY <2>3, AppendMoves DEF Logged
    <3>2. InJob' = InJob
      BY <2>3, AppendMoves DEF InJob, Everyone
    <3> QED BY <2>2, <3>1, <3>2
  <2>4. CASE AppendLine(w)
    <3>1. Logged' = Logged \cup IF job[w].as = "notice" THEN {} ELSE {job[w].e}
      BY <2>2, <2>4, AppendsAtEnd
    <3>2. InJob \subseteq Logged' \cup InJob'
      <4>1. CASE w = Listener
        <5>1. job[w].at = "append" /\ job[w].as = "hub"
          BY <2>4, <4>1 DEF AppendLine, At, AppWrites, AppThreads
        <5> QED BY <3>1, <4>1, <5>1 DEF InJob
      <4>2. CASE w # Listener
        BY <2>4, <4>2, AppendMoves DEF InJob, Everyone
      <4> QED BY <4>1, <4>2
    <3> QED BY <2>2, <3>1, <3>2
  <2> QED BY <2>1, <2>3, <2>4
<1>2. CASE \E w \in Writers : BeginWrite(w)
  <2>1. UNCHANGED <<log, pipe, raced, ended>> /\ job'[Listener] = job[Listener]
    BY <1>2 DEF BeginWrite, Goes, TypeOK, appVars
  <2> QED BY <2>1 DEF Logged, InJob
<1>3. CASE \E c \in Clients : ClientStep(c) \/ ClientDies(c)
  <2>1. PICK c \in Clients : ClientStep(c) \/ ClientDies(c)
    BY <1>3
  <2>2. c # Listener /\ NoPipe.line = NoEntry /\ (pipe \in Pipe \/ pipe = NoPipe)
    BY DEF Writers, NoPipe, TypeOK
  <2>3. UNCHANGED <<log, raced, ended>> /\ job'[Listener] = job[Listener]
    BY <2>1, <2>2 DEF ClientStep, Connect, PipeWrite, WriteFallback, WriteReturns, ClientDies, Goes,
                TypeOK, appVars
  <2>4. pipe.line = NoEntry \/ pipe'.line = pipe.line
    <3>1. CASE Connect(c) \/ PipeWrite(c)
      BY <2>2, <3>1 DEF Connect, PipeWrite, At, PipeServed
    <3>2. CASE WriteFallback(c) \/ WriteReturns(c) \/ ClientDies(c)
      BY <2>2, <3>2 DEF WriteFallback, WriteReturns, ClientDies, ClosesEnd, Pipe, NoPipe, appVars
    <3> QED BY <2>1, <3>1, <3>2 DEF ClientStep
  <2> QED BY <2>3, <2>4 DEF Logged, InJob
<1>4. CASE ListenerReads
  <2>1. UNCHANGED <<log, raced, ended>> /\ job[Listener] = Idle
        /\ job'[Listener] = [at |-> "open", e |-> pipe.line, as |-> "hub"]
    BY <1>4 DEF ListenerReads, TypeOK
  <2> QED BY <1>4, <2>1 DEF Logged, InJob, Idle
<1>5. CASE ListenerOpensPipe \/ ListenerSeesEnd \/ ListenerStops \/ AppStep \/ UNCHANGED vars
  <2>1. UNCHANGED <<log, raced, job, ended>>
    BY <1>5 DEF ListenerOpensPipe, ListenerSeesEnd, ListenerStops, AppStep, AppStarts, AppCloses,
                AppEnds, vars, appVars
  <2>2. pipe.line = NoEntry \/ pipe' = pipe
    BY <1>5, <2>1 DEF ListenerOpensPipe, ListenerSeesEnd, ListenerStops, AppStep, AppStarts, AppCloses,
                AppEnds, vars, appVars, PipeServed
  <2> QED BY <2>1, <2>2 DEF Logged, InJob
<1> QED BY <1>1, <1>2, <1>3, <1>4, <1>5, StepIs DEF Quiet, ListenerStep

\* How the Write of an entry ends.
LEMMA ReturnedBy ==
    ASSUME TypeOK, OnceInv, [Next]_vars, NEW e \in Entry, Returned(e)', ~Returned(e), ~ended'
    PROVE  /\ job[e.by].e = e
           /\ \/ AppendLine(e.by) /\ job[e.by].as # "notice"
              \/ e.by \in Clients /\ WriteReturns(e.by)
<1>0. PICK w \in Writers : w = e.by
  BY EntryShape
<1>1. e.n \in Nat /\ e = [by |-> w, n |-> e.n] /\ w \in Everyone /\ w # Listener
  BY <1>0, EntryShape DEF Everyone
<1>2. count[w] \in Nat /\ ~(e.n < count[w]) /\ ~(e.n = count[w] /\ job[w] = Idle)
  BY <1>0 DEF Returned, TypeOK
<1>3. e.n < count'[w] \/ (e.n = count'[w] /\ job'[w] = Idle)
  BY <1>0 DEF Returned
<1>4. Idle.at = "idle" /\ Dead.at = "dead" /\ job[w] \in Job
  BY <1>1 DEF Idle, Dead, TypeOK, Everyone
<1>5. ~\E v \in Writers : BeginWrite(v)
  <2> SUFFICES ASSUME NEW v \in Writers, BeginWrite(v) PROVE FALSE
    OBVIOUS
  <2>1. CASE v = w
    <3>1. count'[w] = count[w] + 1 /\ job[w] = Idle /\ job'[w] # Idle
      BY <1>1, <1>4, <2>1 DEF BeginWrite, Goes, TypeOK, Everyone
    <3> QED BY <1>1, <1>2, <1>3, <3>1
  <2>2. CASE v # w
    BY <1>1, <1>2, <1>3, <2>2 DEF BeginWrite, Goes, TypeOK, Everyone
  <2> QED BY <2>1, <2>2
<1>6. count' = count
  BY <1>5 DEF Next, ClientStep, Connect, PipeWrite, WriteFallback, WriteReturns, ClientDies,
              AppendStep, OpenLog, AppendLine, ListenerStep, ListenerOpensPipe, ListenerReads,
              ListenerSeesEnd, ListenerStops, AppStep, AppStarts, AppCloses, AppEnds, vars
<1>7. e.n = count[w] /\ job'[w] = Idle /\ job[w] # Idle
  BY <1>1, <1>2, <1>3, <1>6
<1>8. \/ AppendLine(w) /\ job[w].as # "notice"
      \/ w \in Clients /\ WriteReturns(w)
  <2>1. CASE \E v \in Everyone : OpenLog(v) \/ AppendLine(v)
    <3>1. PICK v \in Everyone : OpenLog(v) \/ AppendLine(v)
      BY <2>1
    <3>2. v = w
      BY <1>1, <1>7, <3>1, AppendMoves
    <3> QED BY <1>4, <1>7, <3>1, <3>2, AppendMoves
  <2>2. CASE \E c \in Clients : ClientStep(c) \/ ClientDies(c)
    <3>1. PICK c \in Clients : ClientStep(c) \/ ClientDies(c)
      BY <2>2
    <3>2. c = w
      BY <1>1, <1>7, <3>1 DEF ClientStep, Connect, PipeWrite, WriteFallback, WriteReturns, ClientDies,
                              Goes, TypeOK, Everyone
    <3> QED BY <1>1, <1>4, <1>7, <3>1, <3>2
            DEF ClientStep, Connect, PipeWrite, WriteFallback, ClientDies, Goes, TypeOK, Everyone
  <2>3. ~ListenerReads
    BY <1>1, <1>4, <1>7 DEF ListenerReads, TypeOK, Everyone
  <2>4. CASE ListenerStep \/ AppStep \/ UNCHANGED vars
    BY <1>7, <2>3, <2>4 DEF ListenerStep, ListenerOpensPipe, ListenerSeesEnd, ListenerStops, AppStep,
                       AppStarts, AppCloses, AppEnds, vars
  <2> QED BY <1>5, <2>1, <2>2, <2>4, StepIs DEF Quiet
<1>9. job[w].at \notin {"idle", "dead"}
  BY <1>4, <1>8 DEF AppendLine, WriteReturns, At
<1>10. job[w].e = [by |-> w, n |-> count[w]]
  BY <1>9 DEF OnceInv, OwnEntry
<1> QED BY <1>0, <1>1, <1>7, <1>8, <1>10
LEMMA SentStays ==
    ASSUME TypeOK, OnceInv, Alone, AppWrites, PipeServed, Handed, [Next]_vars, ~raced', ~ended',
           NEW c \in Clients
    PROVE  /\ job'[c].at = "sent" => pipe'.line = job'[c].e
           /\ job'[c].at = "taken" => job'[c].e \in Logged' \cup InJob'
<1>1. c \in Writers /\ c \in Everyone /\ c # Listener /\ Idle.at = "idle" /\ Dead.at = "dead"
      /\ job[c] \in Job
  BY DEF Writers, Everyone, Idle, Dead, TypeOK
<1>2. /\ ~raced /\ ~ended
      /\ Logged \cup InJob \subseteq Logged' \cup InJob'
      /\ pipe.line # NoEntry => pipe'.line = pipe.line \/ (ListenerReads /\ InJob' = {pipe.line})
  BY KeptStays
<1>3. CASE PipeWrite(c)
  <2>1. job'[c] = [at |-> "sent", e |-> job[c].e]
    BY <1>1, <1>3 DEF PipeWrite, Goes, TypeOK, Everyone
  <2>2. pipe \in Pipe
    BY <1>1, <1>3 DEF PipeWrite, TypeOK, NoPipe
  <2>3. pipe'.line = job[c].e
    BY <1>3, <2>2 DEF PipeWrite, Pipe
  <2> QED BY <2>1, <2>3
<1>4. CASE ListenerReads
  <2>1. job'[c] = IF c = pipe.of /\ job[c] = [at |-> "sent", e |-> pipe.line]
                  THEN [at |-> "taken", e |-> pipe.line] ELSE job[c]
    BY <1>1, <1>4 DEF ListenerReads, TypeOK, Everyone
  <2>2. InJob' = {pipe.line}
    BY <1>4 DEF ListenerReads, InJob, TypeOK
  <2>3. CASE job[c].at = "sent"
    <3>1. pipe.line = job[c].e /\ job[c].e = [by |-> c, n |-> count[c]]
      BY <1>1, <1>2, <2>3 DEF Handed, OnceInv, OwnEntry
    <3>2. pipe.line.by = c /\ pipe.line.by = pipe.of
      BY <1>4, <3>1 DEF OnceInv, PipeFits, ListenerReads
    <3>3. job'[c] = [at |-> "taken", e |-> pipe.line]
      BY <1>1, <2>1, <2>3, <3>1, <3>2, SentIs
    <3> QED BY <2>2, <3>3
  <2>4. CASE job[c].at # "sent"
    <3>1. job'[c] = job[c]
      BY <2>1, <2>4
    <3> QED BY <1>2, <2>4, <3>1 DEF Handed
  <2> QED BY <2>3, <2>4
<1>5. CASE job'[c] = job[c] /\ ~ListenerReads
  <2>1. job[c].at = "sent" => job[c].e # NoEntry
    BY <1>1, JobShape, EntryShape
  <2> QED BY <1>2, <1>5, <2>1 DEF Handed
<1>6. CASE job'[c].at \notin {"sent", "taken"}
  BY <1>6
<1>7. CASE \E w \in Everyone : OpenLog(w) \/ AppendLine(w)
  <2>1. job'[c] = job[c] \/ job'[c].at \notin {"sent", "taken"}
    BY <1>1, <1>7, AppendMoves
  <2>2. ~ListenerReads \/ job'[c].at \notin {"sent", "taken"}
    BY <1>4, <1>7, AppendMoves DEF ListenerReads, TypeOK, Idle, Everyone
  <2> QED BY <1>5, <1>6, <2>1, <2>2
<1>8. CASE \E w \in Writers : BeginWrite(w)
  <2>1. job'[c] = job[c] \/ job'[c].at \notin {"sent", "taken"}
    BY <1>1, <1>8 DEF BeginWrite, Goes, TypeOK, Everyone
  <2> QED BY <1>4, <1>5, <1>6, <2>1
<1>9. CASE \E d \in Clients : ClientStep(d) \/ ClientDies(d)
  <2>1. \/ job'[c] = job[c] \/ job'[c].at \notin {"sent", "taken"} \/ PipeWrite(c)
    BY <1>1, <1>9 DEF ClientStep, Connect, PipeWrite, WriteFallback, WriteReturns, ClientDies, Goes,
                      TypeOK, Everyone
  <2> QED BY <1>3, <1>4, <1>5, <1>6, <2>1
<1>10. CASE ListenerStep \/ AppStep \/ UNCHANGED vars
  <2>1. ListenerReads \/ job'[c] = job[c] \/ job'[c].at \notin {"sent", "taken"}
    BY <1>1, <1>10 DEF ListenerStep, ListenerOpensPipe, ListenerSeesEnd, ListenerStops, AppStep,
                       AppStarts, AppCloses, AppEnds, vars, TypeOK, Everyone
  <2> QED BY <1>4, <1>5, <1>6, <2>1
<1> QED BY <1>7, <1>8, <1>9, <1>10, StepIs DEF Quiet

LEMMA HandedNext ==
    ASSUME TypeOK, OnceInv, Alone, AppWrites, PipeServed, Handed, [Next]_vars
    PROVE  Handed'
<1> SUFFICES ASSUME ~raced', ~ended', NEW e \in Entry, Returned(e)'
             PROVE  e \in Kept'
  BY SentStays DEF Handed
<1>1. /\ ~raced /\ ~ended
      /\ Logged \cup InJob \subseteq Logged' \cup InJob'
      /\ pipe.line # NoEntry => pipe'.line = pipe.line \/ (ListenerReads /\ InJob' = {pipe.line})
  BY KeptStays
<1>2. e # NoEntry
  BY EntryShape
<1>3. CASE e \in Kept
  BY <1>1, <1>2, <1>3 DEF Kept
<1>4. CASE ~Returned(e)
  <2>1. PICK w : w = e.by
    OBVIOUS
  <2>2. /\ job[w].e = e
        /\ (AppendLine(w) /\ job[w].as # "notice") \/ (w \in Clients /\ WriteReturns(w))
    BY <1>4, <2>1, ReturnedBy
  <2>3. CASE AppendLine(w) /\ job[w].as # "notice"
    <3>1. w \in Everyone
      BY <2>1, EntryShape DEF Everyone
    <3>2. e \in Logged'
      BY <1>1, <2>2, <2>3, <3>1, AppendsAtEnd
    <3> QED BY <3>2 DEF Kept
  <2>4. CASE w \in Clients /\ WriteReturns(w)
    <3>1. job[w].at \in {"sent", "taken"}
      BY <2>4 DEF WriteReturns, At
    <3> QED BY <1>1, <1>3, <2>2, <2>4, <3>1 DEF Handed, Kept
  <2> QED BY <2>2, <2>3, <2>4
<1> QED BY <1>1, <1>3, <1>4 DEF Handed

LostInv == Alone /\ AppWrites /\ NoticeKept /\ PipeServed /\ Handed

LEMMA LostInit == Init => LostInv
<1> SUFFICES ASSUME Init PROVE LostInv
  OBVIOUS
<1>1. DOMAIN log = {} /\ pipe = NoPipe /\ \A w \in Everyone : job[w] = Idle
  BY DEF Init, Everyone
<1>2. Idle.at = "idle" /\ AppThreads \subseteq Everyone /\ Clients \subseteq Everyone
  BY DEF Idle, AppThreads, Everyone, Writers
<1>3. \A e \in Entry : ~Returned(e)
  <2> SUFFICES ASSUME NEW e \in Entry PROVE ~Returned(e)
    OBVIOUS
  <2>1. e.by \in Writers /\ e.n \in 1..MaxEntries[e.by] /\ MaxEntries[e.by] \in Nat
    BY EntryShape
  <2>2. count[e.by] = 0
    BY <2>1 DEF Init
  <2> QED BY <2>1, <2>2 DEF Returned
<1>4. Noticed = {} /\ NoPipe.line = NoEntry
  BY <1>1 DEF Noticed, NoPipe
<1>5. Alone /\ AppWrites /\ NoticeKept
  BY <1>1, <1>2, <1>4 DEF Alone, AppWrites, NoticeKept
<1>6. PipeServed
  BY <1>1, <1>2, <1>4 DEF PipeServed, Init
<1>7. Handed
  BY <1>1, <1>2, <1>3 DEF Handed
<1> QED BY <1>5, <1>6, <1>7 DEF LostInv

LEMMA LostNext == TypeOK /\ OnceInv /\ LostInv /\ [Next]_vars => LostInv'
BY AloneNext, AppWritesNext, NoticeKeptNext, PipeServedNext, HandedNext DEF LostInv

LEMMA LostImplies == TypeOK /\ OnceInv /\ LostInv => NothingLost
<1> SUFFICES ASSUME TypeOK, OnceInv, LostInv, NEW e \in Entry, Returned(e), ~raced
             PROVE  IsLogged(e) \/ InHand(e) \/ (ended /\ ~FellBack(e))
  BY DEF NothingLost
<1>1. CASE ~ended
  <2>1. e \in Logged \cup InJob \cup {pipe.line}
    BY <1>1 DEF LostInv, Handed, Kept
  <2>2. e \in InJob => InHand(e)
    BY DEF InJob, InHand
  <2> QED BY <2>1, <2>2, LoggedIs DEF InHand
<1>2. CASE ended /\ FellBack(e)
  <2>1. e \in Noticed /\ e.by \in Writers /\ e = [by |-> e.by, n |-> e.n] /\ e.n \in Nat
    BY <1>2, NoticedIs, EntryShape
  <2>2. \/ e \in Logged
        \/ job[e.by].at \in {"open", "append"} /\ job[e.by].e = e
        \/ job[e.by] = Dead /\ e.n = count[e.by]
    BY <2>1 DEF LostInv, NoticeKept
  <2>3. count[e.by] \in Nat /\ Idle.at = "idle" /\ Dead.at = "dead"
    BY <2>1 DEF TypeOK, Idle, Dead
  <2>4. job[e.by].at \in {"open", "append"} /\ job[e.by].e = e => e.n = count[e.by]
    <3> SUFFICES ASSUME job[e.by].at \in {"open", "append"}, job[e.by].e = e
                 PROVE  e.n = count[e.by]
      OBVIOUS
    <3>1. e = [by |-> e.by, n |-> count[e.by]]
      BY <2>1 DEF OnceInv, OwnEntry
    <3> QED BY <3>1
  <2>5. e \in Logged
    BY <2>1, <2>2, <2>3, <2>4 DEF Returned
  <2> QED BY <2>5, LoggedIs
<1> QED BY <1>1, <1>2

\* An entry whose Write returned is in the file or in the hands of the app, but
\* for two processes that appended at the same time and an app that was closed.
THEOREM FewAreLost == Spec => []NothingLost
<1>1. TypeOK /\ OnceInv /\ LostInv /\ TypeOK' /\ OnceInv' /\ [Next]_vars => LostInv'
  BY LostNext
<1> QED BY <1>1, LostInit, LostNext, LostImplies, OnceInit, OnceNext, Typed, PTL DEF Spec
-----------------------------------------------------------------------------
(* In which order entries come to the file *)

\* Who writes a line tells the way it came, and the listener writes for clients.
ByWhom ==
    /\ \A c \in Clients : job[c].at \in {"open", "append"} => job[c].as # "hub"
    /\ job[Listener].at # "idle" => job[Listener].e.by \in Clients

\* The writer has not written its notice yet, if it ever does.
Announces(w) ==
    \/ job[w].at \in {"connect", "connected", "sent"}
    \/ job[w].at \in {"open", "append"} /\ job[w].as = "notice"

NoticeOnce == \A w \in Writers : Announces(w) => job[w].e \notin Noticed

\* The app reads and writes what a client sends in the order it was sent in.
ServedInOrder ==
    /\ job[Listener].at # "idle" =>
         \A i \in DOMAIN log :
             log[i].as = "hub" /\ log[i].entry.by = job[Listener].e.by =>
                 log[i].entry.n < job[Listener].e.n
    /\ pipe.line # NoEntry =>
         \A i \in DOMAIN log :
             log[i].as = "hub" /\ log[i].entry.by = pipe.line.by => log[i].entry.n < pipe.line.n
    /\ pipe.line # NoEntry /\ job[Listener].at # "idle" /\ job[Listener].e.by = pipe.line.by =>
         job[Listener].e.n < pipe.line.n

\* Behind the end that a process has found there are no lines of its writer that
\* came the same way.
EndsInOrder ==
    \A w \in Everyone : \A i \in DOMAIN log :
        /\ job[w].at = "append"
        /\ log[i].as = job[w].as
        /\ log[i].entry.by = job[w].e.by
        => i <= job[w].end

LEMMA OneWriter ==
    ASSUME TypeOK, OnceInv, AppWrites, ByWhom, NEW v \in Everyone, NEW w \in Everyone, v # w,
           job[v].at \in {"open", "append"}, job[w].at \in {"open", "append"},
           job[v].as = job[w].as
    PROVE  job[v].e.by # job[w].e.by
<1>1. ASSUME NEW u \in Writers, job[u].at \in {"open", "append"}
      PROVE  job[u].e.by = u
  <2>1. job[u].e = [by |-> u, n |-> count[u]]
    BY <1>1 DEF OnceInv, OwnEntry
  <2> QED BY <2>1
<1>2. job[Listener].at # "idle" => job[Listener].as = "hub" /\ job[Listener].e.by \in Clients
  BY DEF AppWrites, ByWhom, AppThreads
<1> QED BY <1>1, <1>2 DEF ByWhom, Everyone

LEMMA ByWhomNext ==
    ASSUME TypeOK, OnceInv, AppWrites, ByWhom, [Next]_vars
    PROVE  ByWhom'
<1>1. Clients \subseteq Writers /\ Writers \subseteq Everyone /\ Idle.at = "idle" /\ Dead.at = "dead"
      /\ Listener \in Everyone /\ Clients \cap AppThreads = {}
  BY DEF Writers, Everyone, Idle, Dead, AppThreads
<1>2. CASE \E w \in Everyone : OpenLog(w) \/ AppendLine(w)
  BY <1>1, <1>2, AppendMoves DEF ByWhom, AppWrites, AppThreads
<1>3. CASE \E w \in Writers : BeginWrite(w)
  BY <1>1, <1>3 DEF BeginWrite, Goes, TypeOK, ByWhom, Everyone
<1>4. CASE \E c \in Clients : ClientStep(c) \/ ClientDies(c)
  <2>1. PICK c \in Clients : ClientStep(c) \/ ClientDies(c)
    BY <1>4
  <2>2. \A v \in Everyone \ {c} : job'[v] = job[v]
    BY <2>1 DEF ClientStep, Connect, PipeWrite, WriteFallback, WriteReturns, ClientDies, Goes,
                TypeOK, Everyone
  <2>3. job'[c].at \in {"open", "append"} => job'[c].as = "notice"
    BY <1>1, <2>1 DEF ClientStep, Connect, PipeWrite, WriteFallback, WriteReturns, ClientDies, Goes,
                TypeOK, Everyone
  <2> QED BY <1>1, <2>2, <2>3 DEF ByWhom
<1>5. CASE ListenerReads
  <2>1. pipe \in Pipe /\ pipe.line # NoEntry
    BY <1>5 DEF ListenerReads, TypeOK, NoPipe
  <2>2. pipe.line.by \in Clients
    BY <2>1 DEF Pipe, OnceInv, PipeFits
  <2>3. job'[Listener].e = pipe.line
    BY <1>5 DEF ListenerReads, TypeOK
  <2>4. \A c \in Clients : job'[c] = job[c] \/ job'[c].at = "taken"
    BY <1>1, <1>5 DEF ListenerReads, TypeOK, Everyone
  <2> QED BY <2>2, <2>3, <2>4 DEF ByWhom
<1>6. CASE AppEnds
  BY <1>1, <1>6 DEF AppEnds, TypeOK, ByWhom, Everyone, AppThreads
<1>7. CASE UNCHANGED job
  BY <1>7 DEF ByWhom
<1> QED BY <1>2, <1>3, <1>4, <1>5, <1>6, <1>7, StepIs
        DEF Quiet, ListenerStep, AppStep, ListenerOpensPipe, ListenerSeesEnd, ListenerStops,
            AppStarts, AppCloses, vars

LEMMA NoticedAfter ==
    ASSUME TypeOK, NEW w \in Everyone, AppendLine(w)
    PROVE  Noticed' \subseteq Noticed \cup IF job[w].as = "notice" THEN {job[w].e} ELSE {}
<1>1. PICK p \in Nat : LineAt(p, log, job[w].end, [entry |-> job[w].e, as |-> job[w].as], log')
  BY AfterAppend
<1> SUFFICES ASSUME NEW i \in DOMAIN log', log'[i].as = "notice"
             PROVE  log'[i].entry \in Noticed \cup IF job[w].as = "notice" THEN {job[w].e} ELSE {}
  BY DEF Noticed
<1>2. CASE i = p
  BY <1>1, <1>2 DEF LineAt
<1>3. CASE i # p
  BY <1>1, <1>3 DEF LineAt, Noticed
<1> QED BY <1>2, <1>3

LEMMA NoticeOnceNext ==
    ASSUME TypeOK, OnceInv, AppWrites, ByWhom, NoticeOnce, [Next]_vars
    PROVE  NoticeOnce'
<1>1. Writers \subseteq Everyone /\ Idle.at = "idle" /\ Dead.at = "dead" /\ Listener \in Everyone
  BY DEF Everyone, Idle, Dead
<1>2. ASSUME NEW w \in Everyone, OpenLog(w)
      PROVE  NoticeOnce'
  <2>1. Noticed' = Noticed
    BY <1>2, AppendMoves DEF Noticed
  <2> QED BY <1>1, <1>2, <2>1, AppendMoves DEF NoticeOnce, Announces
<1>3. ASSUME NEW w \in Everyone, AppendLine(w)
      PROVE  NoticeOnce'
  <2> SUFFICES ASSUME NEW v \in Writers, Announces(v)'
               PROVE  job'[v].e \notin Noticed'
    BY DEF NoticeOnce
  <2>1. v # w
    BY <1>1, <1>3, AppendMoves DEF Announces
  <2>2. job'[v] = job[v] /\ Announces(v)
    BY <1>1, <1>3, <2>1, AppendMoves DEF Announces
  <2>3. job[v].e = [by |-> v, n |-> count[v]] /\ job[v].e \notin Noticed
    BY <2>2 DEF Announces, OnceInv, OwnEntry, NoticeOnce
  <2>4. job[w].as = "notice" => job[w].e # job[v].e
    <3> SUFFICES ASSUME job[w].as = "notice" PROVE job[w].e # job[v].e
      OBVIOUS
    <3>1. job[w].at = "append"
      BY <1>3 DEF AppendLine, At
    <3>2. w \in Writers
      BY <3>1 DEF AppWrites, AppThreads, Everyone
    <3>3. job[w].e = [by |-> w, n |-> count[w]]
      BY <3>1, <3>2 DEF OnceInv, OwnEntry
    <3> QED BY <2>1, <2>3, <3>3
  <2> QED BY <1>3, <2>2, <2>3, <2>4, NoticedAfter
<1>4. CASE Quiet
  <2>1. Noticed' = Noticed
    BY <1>4, QuietKeeps DEF Noticed
  <2>2. CASE \E w \in Writers : BeginWrite(w)
    <3>1. PICK w \in Writers : BeginWrite(w)
      BY <2>2
    <3>2. PICK e : e = [by |-> w, n |-> count[w] + 1]
      OBVIOUS
    <3>3. /\ job'[w].e = e
          /\ \A v \in Everyone \ {w} : job'[v] = job[v]
      BY <1>1, <3>1, <3>2 DEF BeginWrite, NextEntry, Goes, TypeOK, Everyone
    <3>4. e \notin Noticed
      <4>1. \A x \in Noticed : x.n <= count[x.by]
        BY DEF OnceInv, Counted, Noticed
      <4>2. count[w] \in Nat /\ e.by = w /\ e.n = count[w] + 1
        BY <3>2 DEF TypeOK
      <4> QED BY <4>1, <4>2
    <3> QED BY <1>1, <2>1, <3>3, <3>4 DEF NoticeOnce, Announces
  <2>3. ASSUME ~\E w \in Writers : BeginWrite(w), NEW v \in Writers, Announces(v)'
        PROVE  Announces(v) /\ job'[v].e = job[v].e
    <3>1. CASE \E c \in Clients : ClientStep(c) \/ ClientDies(c)
      <4>1. PICK c \in Clients : ClientStep(c) \/ ClientDies(c)
        BY <3>1
      <4>2. CASE v # c
        <5>1. job'[v] = job[v]
          BY <1>1, <4>1, <4>2 DEF ClientStep, Connect, PipeWrite, WriteFallback, WriteReturns,
                                  ClientDies, Goes, TypeOK, Everyone
        <5> QED BY <2>3, <5>1 DEF Announces
      <4>3. CASE v = c
        <5>1. CASE WriteReturns(c) \/ ClientDies(c)
          BY <1>1, <2>3, <4>3, <5>1 DEF WriteReturns, ClientDies, Goes, TypeOK, Everyone, Announces
        <5>2. CASE Connect(c) \/ PipeWrite(c) \/ WriteFallback(c)
          <6>1. job[c].at \in {"connect", "connected", "sent"}
            BY <5>2 DEF Connect, PipeWrite, WriteFallback, At
          <6>2. job'[c].e = job[c].e
            BY <1>1, <4>3, <5>2 DEF Connect, PipeWrite, WriteFallback, Goes, TypeOK, Everyone
          <6> QED BY <4>3, <6>1, <6>2 DEF Announces
        <5> QED BY <4>1, <5>1, <5>2 DEF ClientStep
      <4> QED BY <4>2, <4>3
    <3>2. CASE ListenerStep \/ AppStep \/ UNCHANGED vars
      BY <1>1, <2>3, <3>2 DEF ListenerStep, ListenerOpensPipe, ListenerReads, ListenerSeesEnd,
                              ListenerStops, AppStep, AppStarts, AppCloses, AppEnds, vars,
                              TypeOK, Everyone, Announces
    <3> QED BY <1>4, <2>3, <3>1, <3>2 DEF Quiet
  <2> QED BY <2>1, <2>2, <2>3 DEF NoticeOnce
<1> QED BY <1>2, <1>3, <1>4, StepIs
LEMMA ServedNext ==
    ASSUME TypeOK, OnceInv, AppWrites, ByWhom, ServedInOrder, [Next]_vars
    PROVE  ServedInOrder'
<1>1. Writers \subseteq Everyone /\ Clients \subseteq Writers /\ Idle.at = "idle"
      /\ Listener \in Everyone /\ Listener \notin Clients /\ NoPipe.line = NoEntry
  BY DEF Everyone, Writers, Idle, NoPipe
<1>2. job[Listener].at # "idle" => job[Listener].at \in {"open", "append"} /\ job[Listener].as = "hub"
  BY DEF AppWrites, AppThreads
<1>3. pipe.line # NoEntry => pipe \in Pipe /\ pipe.line \in Entry /\ pipe.line.by \in Clients
  <2> SUFFICES ASSUME pipe.line # NoEntry
               PROVE  pipe \in Pipe /\ pipe.line \in Entry /\ pipe.line.by \in Clients
    OBVIOUS
  <2>1. pipe \in Pipe
    BY DEF TypeOK, NoPipe
  <2> QED BY <2>1 DEF Pipe, OnceInv, PipeFits
<1>4. CASE \E w \in Everyone : OpenLog(w)
  <2>1. log' = log /\ pipe' = pipe
    BY <1>4, AppendMoves
  <2>2. \/ job'[Listener].e = job[Listener].e /\ (job'[Listener].at # "idle" => job[Listener].at # "idle")
        \/ job'[Listener] = job[Listener]
    BY <1>1, <1>4, AppendMoves
  <2> QED BY <2>1, <2>2 DEF ServedInOrder
<1>5. ASSUME NEW w \in Everyone, AppendLine(w)
      PROVE  ServedInOrder'
  <2>1. PICK p \in Nat : LineAt(p, log, job[w].end, [entry |-> job[w].e, as |-> job[w].as], log')
    BY <1>5, AfterAppend
  <2>2. \A i \in DOMAIN log' :
          \/ i \in DOMAIN log /\ log'[i] = log[i]
          \/ log'[i].entry = job[w].e /\ log'[i].as = job[w].as
    BY <2>1 DEF LineAt
  <2>3. job[w].at = "append" /\ pipe' = pipe /\ (w # Listener => job'[Listener] = job[Listener])
    BY <1>1, <1>5, AppendMoves
  <2>4. w = Listener => job'[Listener].at = "idle"
    BY <1>1, <1>2, <1>5, AppendMoves
  <2>5. w # Listener /\ job[Listener].at # "idle" /\ job[w].as = "hub" =>
           job[w].e.by # job[Listener].e.by
    BY <1>1, <1>2, <2>3, OneWriter
  <2>6. w # Listener /\ job[w].as = "hub" => job[w].e.by \notin Clients
    <3> SUFFICES ASSUME w # Listener, job[w].as = "hub" PROVE job[w].e.by \notin Clients
      OBVIOUS
    <3>1. w \in Writers /\ w \notin Clients
      BY <1>1, <2>3 DEF ByWhom, Everyone
    <3>2. job[w].e = [by |-> w, n |-> count[w]]
      BY <2>3, <3>1 DEF OnceInv, OwnEntry
    <3> QED BY <3>1, <3>2
  <2>7. CASE w = Listener
    BY <1>3, <2>2, <2>3, <2>4, <2>7 DEF ServedInOrder
  <2>8. CASE w # Listener
    BY <1>3, <2>2, <2>3, <2>5, <2>6, <2>8 DEF ServedInOrder
  <2> QED BY <2>7, <2>8
<1>6. ASSUME NEW c \in Clients, PipeWrite(c)
      PROVE  ServedInOrder'
  <2>0. PICK e : e = job[c].e
    OBVIOUS
  <2>1. c \in Writers /\ c # Listener /\ job[c].at = "connected" /\ UNCHANGED <<log, count>>
    BY <1>1, <1>6 DEF PipeWrite, At
  <2>2. job'[Listener] = job[Listener]
    BY <1>1, <1>6 DEF PipeWrite, Goes, TypeOK
  <2>3. pipe \in Pipe
    BY <1>1, <1>6 DEF PipeWrite, TypeOK, NoPipe
  <2>4. pipe'.line = e
    BY <1>6, <2>0, <2>3 DEF PipeWrite, Pipe
  <2>5. e = [by |-> c, n |-> count[c]] /\ e \notin Logged /\ e \notin InJob /\ count[c] \in Nat
    BY <2>0, <2>1 DEF OnceInv, OwnEntry, ClaimsFit, Claims, TypeOK
  <2>6. \A x \in Entry : x.by = c /\ x # e /\ x.n <= count[x.by] => x.n < e.n
    <3> SUFFICES ASSUME NEW x \in Entry, x.by = c, x # e, x.n <= count[x.by] PROVE x.n < e.n
      OBVIOUS
    <3>1. x = [by |-> c, n |-> x.n] /\ x.n \in Nat
      BY EntryShape
    <3>2. x.n # count[c] /\ e.n = count[c]
      BY <2>5, <3>1
    <3> QED BY <2>5, <3>1, <3>2
  <2>7. \A i \in DOMAIN log : log[i].as = "hub" /\ log[i].entry.by = c => log[i].entry.n < e.n
    <3> SUFFICES ASSUME NEW i \in DOMAIN log, log[i].as = "hub", log[i].entry.by = c
                 PROVE  log[i].entry.n < e.n
      OBVIOUS
    <3>1. log[i].entry \in Logged
      BY DEF Logged
    <3> QED BY <2>5, <2>6, <3>1, LoggedAreEntries DEF OnceInv, Counted
  <2>8. job[Listener].at # "idle" /\ job[Listener].e.by = c => job[Listener].e.n < e.n
    <3> SUFFICES ASSUME job[Listener].at # "idle", job[Listener].e.by = c
                 PROVE  job[Listener].e.n < e.n
      OBVIOUS
    <3>1. job[Listener].e \in Entry
      BY <1>2, JobShape DEF TypeOK
    <3>2. job[Listener].e \in InJob
      BY <1>2 DEF InJob
    <3> QED BY <2>5, <2>6, <3>1, <3>2 DEF OnceInv, HandFits
  <2>9. e.by = c
    BY <2>5
  <2> QED BY <2>1, <2>2, <2>4, <2>7, <2>8, <2>9 DEF ServedInOrder
<1>7. CASE ListenerReads
  <2>1. pipe.line # NoEntry /\ log' = log
    BY <1>7 DEF ListenerReads
  <2>2. pipe'.line = NoEntry /\ job'[Listener].e = pipe.line
    BY <1>3, <1>7 DEF ListenerReads, Pipe, TypeOK
  <2> QED BY <2>1, <2>2 DEF ServedInOrder
<1>8. ASSUME UNCHANGED log,
             pipe'.line = NoEntry \/ pipe'.line = pipe.line,
             job'[Listener] = job[Listener] \/ job'[Listener].at = "idle"
      PROVE  ServedInOrder'
  BY <1>8 DEF ServedInOrder
<1>9. CASE \E w \in Writers : BeginWrite(w)
  BY <1>8, <1>9 DEF BeginWrite, Goes, TypeOK, appVars
<1>10. ASSUME NEW c \in Clients,
              Connect(c) \/ WriteFallback(c) \/ WriteReturns(c) \/ ClientDies(c)
       PROVE  ServedInOrder'
  <2>1. UNCHANGED log /\ job'[Listener] = job[Listener]
    BY <1>1, <1>10 DEF Connect, WriteFallback, WriteReturns, ClientDies, Goes, TypeOK
  <2>2. pipe \in Pipe \/ pipe = NoPipe
    BY DEF TypeOK
  <2>3. pipe'.line = NoEntry \/ pipe'.line = pipe.line
    BY <1>10, <2>2 DEF Connect, WriteFallback, WriteReturns, ClientDies, ClosesEnd, Pipe, NoPipe, appVars
  <2> QED BY <1>8, <2>1, <2>3
<1>11. CASE ListenerOpensPipe \/ ListenerSeesEnd \/ ListenerStops \/ AppStep \/ UNCHANGED vars
  <2>1. UNCHANGED log /\ (pipe' = NoPipe \/ pipe' = pipe)
    BY <1>11 DEF ListenerOpensPipe, ListenerSeesEnd, ListenerStops, AppStep, AppStarts, AppCloses,
                 AppEnds, vars, appVars
  <2>2. job'[Listener] = job[Listener] \/ job'[Listener].at = "idle"
    BY <1>1, <1>11 DEF ListenerOpensPipe, ListenerSeesEnd, ListenerStops, AppStep, AppStarts, AppCloses,
                 AppEnds, vars, TypeOK, AppThreads
  <2> QED BY <1>1, <1>8, <2>1, <2>2
<1> QED BY <1>4, <1>5, <1>6, <1>7, <1>9, <1>10, <1>11, StepIs DEF Quiet, ClientStep, ListenerStep

LEMMA EndsNext ==
    ASSUME TypeOK, OnceInv, AppWrites, ByWhom, EndsInOrder, [Next]_vars
    PROVE  EndsInOrder'
<1>1. CASE Quiet
  BY <1>1, QuietKeeps DEF EndsInOrder
<1>2. ASSUME NEW w \in Everyone, OpenLog(w)
      PROVE  EndsInOrder'
  <2>1. /\ log' = log /\ job'[w].end = Len(log)
        /\ \A v \in Everyone \ {w} : job'[v] = job[v]
    BY <1>2, AppendMoves
  <2>2. \A i \in DOMAIN log : i <= Len(log)
    BY LenProperties DEF TypeOK
  <2> QED BY <2>1, <2>2 DEF EndsInOrder
<1>3. ASSUME NEW w \in Everyone, AppendLine(w)
      PROVE  EndsInOrder'
  <2> SUFFICES ASSUME NEW v \in Everyone, NEW i \in DOMAIN log',
                      job'[v].at = "append",
                      log'[i].as = job'[v].as, log'[i].entry.by = job'[v].e.by
               PROVE  i <= job'[v].end
    BY DEF EndsInOrder
  <2>1. v # w /\ job'[v] = job[v] /\ job[w].at = "append"
    BY <1>3, AppendMoves DEF Idle
  <2>2. PICK p \in Nat : LineAt(p, log, job[w].end, [entry |-> job[w].e, as |-> job[w].as], log')
    BY <1>3, AfterAppend
  <2>3. i # p
    BY <2>1, <2>2, OneWriter DEF LineAt
  <2>4. i \in DOMAIN log /\ log'[i] = log[i]
    BY <2>2, <2>3 DEF LineAt
  <2> QED BY <2>1, <2>4 DEF EndsInOrder
<1> QED BY <1>1, <1>2, <1>3, StepIs

\* Who is to append a line has seen only older ones of the kind.
LEMMA OlderBefore ==
    ASSUME TypeOK, OnceInv, NoticeOnce, ServedInOrder, AppWrites, NEW w \in Everyone,
           job[w].at = "append", NEW i \in DOMAIN log,
           log[i].as = job[w].as, log[i].entry.by = job[w].e.by
    PROVE  log[i].entry.n < job[w].e.n
<1>1. CASE w = Listener
  BY <1>1 DEF ServedInOrder, AppWrites, AppThreads
<1>2. CASE w \in Writers
  <2>1. PICK e : e = job[w].e
    OBVIOUS
  <2>2. e = [by |-> w, n |-> count[w]] /\ count[w] \in Nat /\ e \notin Logged
    BY <1>2, <2>1 DEF OnceInv, OwnEntry, ClaimsFit, Claims, TypeOK
  <2>3. job[w].as = "notice" => e \notin Noticed
    BY <1>2, <2>1 DEF NoticeOnce, Announces
  <2>4. PICK x \in Entry : x = log[i].entry
    BY LoggedAreEntries
  <2>5. x # e
    BY <2>2, <2>3, <2>4 DEF Logged, Noticed
  <2>6. x = [by |-> x.by, n |-> x.n] /\ x.n \in Nat /\ x.by = w /\ e.n = count[w]
    BY <2>1, <2>2, <2>4, EntryShape
  <2>7. x.n <= count[w]
    BY <2>4, <2>6 DEF OnceInv, Counted
  <2>8. x.n # count[w]
    BY <2>2, <2>5, <2>6
  <2> QED BY <2>1, <2>2, <2>4, <2>6, <2>7, <2>8
<1> QED BY <1>1, <1>2 DEF Everyone

LEMMA OrderNext ==
    ASSUME TypeOK, OnceInv, NoticeOnce, ServedInOrder, AppWrites, EndsInOrder, SameWayInOrder,
           [Next]_vars
    PROVE  SameWayInOrder'
<1>1. CASE log' = log
  BY <1>1 DEF SameWayInOrder
<1>2. ASSUME NEW w \in Everyone, AppendLine(w)
      PROVE  SameWayInOrder'
  <2>1. job[w].at = "append" /\ job[w] \in Job
    BY <1>2 DEF AppendLine, At, TypeOK, Everyone
  <2>2. PICK p \in Nat : LineAt(p, log, job[w].end, [entry |-> job[w].e, as |-> job[w].as], log')
    BY <1>2, AfterAppend
  <2>3. DOMAIN log = 1..Len(log) /\ Len(log) \in Nat /\ job[w].end \in Nat
    BY <2>1, LenProperties, JobShape DEF TypeOK
  <2>4. \A i \in DOMAIN log' : i \in Nat
    BY <2>2, LenProperties DEF LineAt
  <2> SUFFICES ASSUME NEW i \in DOMAIN log', NEW j \in DOMAIN log', i < j,
                      log'[i].as = log'[j].as, log'[i].entry.by = log'[j].entry.by
               PROVE  log'[i].entry.n < log'[j].entry.n
    BY DEF SameWayInOrder
  <2>5. CASE i # p /\ j # p
    BY <2>2, <2>5 DEF LineAt, SameWayInOrder
  <2>6. CASE i # p /\ j = p
    <3>1. log'[j] = [entry |-> job[w].e, as |-> job[w].as]
      BY <2>2, <2>6 DEF LineAt
    <3>2. i \in DOMAIN log /\ log'[i] = log[i]
      BY <2>2, <2>6 DEF LineAt
    <3>3. log[i].as = job[w].as /\ log[i].entry.by = job[w].e.by
      BY <3>1, <3>2
    <3>4. log[i].entry.n < job[w].e.n
      BY <2>1, <3>2, <3>3, OlderBefore
    <3> QED BY <3>1, <3>2, <3>4
  <2>7. CASE i = p /\ j # p
    <3>1. j \in DOMAIN log /\ log[j].as = job[w].as /\ log[j].entry.by = job[w].e.by
      BY <2>2, <2>7 DEF LineAt
    <3>2. j <= job[w].end /\ j <= Len(log) /\ j \in Nat
      BY <2>1, <2>3, <3>1 DEF EndsInOrder
    <3>3. p = job[w].end + 1 \/ p = Len(log) + 1
      BY <2>2 DEF LineAt
    <3> QED BY <2>3, <2>7, <3>2, <3>3
  <2>8. CASE i = p /\ j = p
    BY <2>4, <2>8
  <2> QED BY <2>5, <2>6, <2>7, <2>8
<1>3. CASE Quiet
  BY <1>1, <1>3, QuietKeeps
<1> QED BY <1>1, <1>2, <1>3, StepIs, AppendMoves

OrderInv == AppWrites /\ ByWhom /\ NoticeOnce /\ ServedInOrder /\ EndsInOrder /\ SameWayInOrder

LEMMA OrderInit == Init => OrderInv
<1> SUFFICES ASSUME Init PROVE OrderInv
  OBVIOUS
<1>1. log = <<>> /\ DOMAIN log = {} /\ pipe = NoPipe /\ \A w \in Everyone : job[w].at = "idle"
  BY DEF Init, Everyone, Idle
<1>2. NoPipe.line = NoEntry /\ AppThreads \subseteq Everyone /\ Writers \subseteq Everyone
      /\ Clients \subseteq Everyone /\ Listener \in Everyone
  BY DEF NoPipe, AppThreads, Everyone, Writers
<1> QED BY <1>1, <1>2 DEF OrderInv, AppWrites, ByWhom, NoticeOnce, Announces, ServedInOrder,
                          EndsInOrder, SameWayInOrder

LEMMA OrderInvNext == TypeOK /\ OnceInv /\ OrderInv /\ [Next]_vars => OrderInv'
BY AppWritesNext, ByWhomNext, NoticeOnceNext, ServedNext, EndsNext, OrderNext DEF OrderInv

\* The entries of one writer that came to the file in the same way are in the
\* order they were written in, even where lines were lost.
THEOREM WritersKeepOrder == Spec => []SameWayInOrder
<1>1. OrderInv => SameWayInOrder
  BY DEF OrderInv
<1> QED BY <1>1, OrderInit, OrderInvNext, OnceInit, OnceNext, Typed, PTL DEF Spec
=============================================================================
