------------------------------ MODULE LogPipe ------------------------------
(***************************************************************************)
(* The runtime log.  The command line and the MCP server hand each entry   *)
(* to the desktop app over a named pipe; the app appends it to the log     *)
(* file.  A client that finds no free pipe within 200 ms appends the entry *)
(* to the file itself, behind a line that says so.                         *)
(*                                                                         *)
(* The listener of the app serves one connection at a time, and Write      *)
(* opens one for each entry.  FileMode.Append looks up the end of the file *)
(* when the file is opened and writes there later, so two processes that   *)
(* append at the same time may write over one another; the threads of the  *)
(* app have a lock for it.                                                 *)
(*                                                                         *)
(* Left out: what an entry says, EntryWritten and the live view of the     *)
(* app, lines longer than the buffer of a stream or than the line they     *)
(* overwrite, a disk that is full, and a second app on the same folder.    *)
(***************************************************************************)
EXTENDS Naturals, Sequences

CONSTANTS
    Clients,       \* processes that log over the pipe
    Threads,       \* threads of the app that log by themselves
    Listener,      \* the thread of the app that serves the pipe
    MaxEntries     \* bound: writer |-> entries it logs

Writers == Clients \cup Threads

ASSUME LogAssumption ==
    /\ MaxEntries \in [Writers -> Nat]
    /\ Clients \cap Threads = {}
    /\ Listener \notin Writers

\* What shares the lock of MonitorLogService.
AppThreads == Threads \cup {Listener}

Entry == UNION {[by : {w}, n : 1..MaxEntries[w]] : w \in Writers}

\* Who put a line in the file: the app, or a client; "notice" is the warning
\* that the pipe was not available.
Line == [entry : Entry, as : {"hub", "notice", "fallback"}]

VARIABLES
    log,        \* the lines of the log file
    app,        \* the desktop app: "running", "closing" (cancelled) or "gone"
    listener,   \* ListenAsync: "off", "between" two pipes, "waiting" or "reading"
    pipe,       \* the connection being served, or NoPipe
    job,        \* thread or process |-> where its Write is
    count,      \* writer |-> entries it has begun to log
    raced,      \* history: two processes had the file open to append
    ended       \* history: the app was closed, or died

appVars == <<app, listener, pipe, ended>>
vars == <<log, appVars, job, count, raced>>

NoEntry == [by |-> Listener, n |-> 0]

NoPipe == [of |-> Listener, line |-> NoEntry, open |-> FALSE]

\* A connection of a client, the line in it that is not read yet, and whether
\* the client has its end open.
Pipe == [of : Clients, line : Entry \cup {NoEntry}, open : BOOLEAN]

Idle == [at |-> "idle"]

Dead == [at |-> "dead"]

Job ==
    {Idle, Dead}
    \cup [at : {"connect", "connected", "sent", "taken"}, e : Entry]
    \cup [at : {"open"}, e : Entry, as : {"hub", "notice", "fallback"}]
    \cup [at : {"append"}, e : Entry, as : {"hub", "notice", "fallback"}, end : Nat]

Init ==
    /\ log = <<>>
    /\ app \in {"running", "gone"}
    /\ listener = IF app = "running" THEN "between" ELSE "off"
    /\ pipe = NoPipe
    /\ job = [w \in Writers \cup {Listener} |-> Idle]
    /\ count = [w \in Writers |-> 0]
    /\ raced = FALSE
    /\ ended = FALSE

Goes(w, state) == job' = [job EXCEPT ![w] = state]

At(w, place) == job[w].at = place

-----------------------------------------------------------------------------
(* A line is appended *)

SameProcess(v, w) == v = w \/ {v, w} \subseteq AppThreads

Appending == {w \in Writers \cup {Listener} : At(w, "append")}

\* Fault: the threads of the app append without the lock.
LockIsFreeAlways(w) == TRUE

\* The lock of MonitorLogService is held while the file is open.
LockIsFree(w) == w \in AppThreads => Appending \cap AppThreads = {}

\* The end of the file, and with it the place of the line, is fixed now.
OpenLog(w) ==
    /\ At(w, "open")
    /\ LockIsFree(w)
    /\ Goes(w, [at |-> "append", e |-> job[w].e, as |-> job[w].as, end |-> Len(log)])
    /\ raced' = (raced \/ \E v \in Appending : ~SameProcess(v, w))
    /\ UNCHANGED <<log, appVars, count>>

\* Fault: the newest line is put first.
WrittenFirst(end, line) == <<line>> \o log

WrittenAt(end, line) ==
    IF end < Len(log) THEN [log EXCEPT ![end + 1] = line] ELSE Append(log, line)

\* The notice is followed by the entry.
AppendLine(w) ==
    /\ At(w, "append")
    /\ log' = WrittenAt(job[w].end, [entry |-> job[w].e, as |-> job[w].as])
    /\ Goes(w, IF job[w].as = "notice"
               THEN [at |-> "open", e |-> job[w].e, as |-> "fallback"]
               ELSE Idle)
    /\ UNCHANGED <<appVars, count, raced>>

-----------------------------------------------------------------------------
(* MonitorLogPipeClientLogger.Write *)

\* Fault: the first entry of a writer has no number.
SameEntry(w) == [by |-> w, n |-> count[w]]

NextEntry(w) == [by |-> w, n |-> count[w] + 1]

\* A client looks for the pipe; a thread of the app goes to the file.
BeginWrite(w) ==
    /\ job[w] = Idle
    /\ count[w] < MaxEntries[w]
    /\ w \in Threads => app # "gone"
    /\ count' = [count EXCEPT ![w] = @ + 1]
    /\ Goes(w, IF w \in Clients
               THEN [at |-> "connect", e |-> NextEntry(w)]
               ELSE [at |-> "open", e |-> NextEntry(w), as |-> "hub"])
    /\ UNCHANGED <<log, appVars, raced>>

Connect(c) ==
    /\ At(c, "connect")
    /\ listener = "waiting"
    /\ listener' = "reading"
    /\ pipe' = [of |-> c, line |-> NoEntry, open |-> TRUE]
    /\ Goes(c, [at |-> "connected", e |-> job[c].e])
    /\ UNCHANGED <<log, app, ended, count, raced>>

PipeWrite(c) ==
    /\ At(c, "connected")
    /\ pipe.of = c
    /\ pipe' = [pipe EXCEPT !.line = job[c].e]
    /\ Goes(c, [at |-> "sent", e |-> job[c].e])
    /\ UNCHANGED <<log, app, listener, ended, count, raced>>

\* Fault: a write that waits for its reader gives up, and writes the entry again.
GivesUpOnReader(c) ==
    /\ \/ At(c, "connect") /\ listener # "waiting"
       \/ At(c, "sent")
       \/ At(c, "taken")
    /\ Goes(c, [at |-> "open", e |-> job[c].e, as |-> "notice"])
    /\ UNCHANGED <<log, appVars, count, raced>>

\* Fault: a client waits for the app without a timeout.
WaitsForPipe(c) ==
    /\ At(c, "connected") \/ At(c, "sent")
    /\ pipe.of # c
    /\ Goes(c, [at |-> "open", e |-> job[c].e, as |-> "notice"])
    /\ UNCHANGED <<log, appVars, count, raced>>

\* TimeoutException: no pipe was free for 200 ms.  IOException: the app closed
\* the pipe before it read the line.
WriteFallback(c) ==
    /\ \/ At(c, "connect") /\ listener # "waiting"
       \/ At(c, "connected") /\ pipe.of # c
       \/ At(c, "sent") /\ pipe.of # c
    /\ Goes(c, [at |-> "open", e |-> job[c].e, as |-> "notice"])
    /\ UNCHANGED <<log, appVars, count, raced>>

\* The client closes its end.  A pipe may take a line before it is read, so a
\* line that was only sent may count as delivered.
ClosesEnd(c) == pipe' = IF pipe.of = c THEN [pipe EXCEPT !.open = FALSE] ELSE pipe

WriteReturns(c) ==
    /\ At(c, "sent") \/ At(c, "taken")
    /\ Goes(c, Idle)
    /\ ClosesEnd(c)
    /\ UNCHANGED <<log, app, listener, ended, count, raced>>

\* A client process is killed in the middle of a Write; a line it has sent may
\* still be read.
ClientDies(c) ==
    /\ job[c] \notin {Idle, Dead}
    /\ Goes(c, Dead)
    /\ ClosesEnd(c)
    /\ UNCHANGED <<log, app, listener, ended, count, raced>>

-----------------------------------------------------------------------------
(* MonitorLogPipeServer.ListenAsync *)

ListenerOpensPipe ==
    /\ listener = "between"
    /\ app = "running"
    /\ listener' = "waiting"
    /\ UNCHANGED <<log, app, pipe, ended, job, count, raced>>

\* ReadLineAsync; the sender, if it waits for that, learns that it was read.
ListenerReads ==
    /\ listener = "reading"
    /\ job[Listener] = Idle
    /\ pipe.line # NoEntry
    /\ pipe' = [pipe EXCEPT !.line = NoEntry]
    /\ job' = [w \in DOMAIN job |->
                 IF w = Listener
                 THEN [at |-> "open", e |-> pipe.line, as |-> "hub"]
                 ELSE IF w = pipe.of /\ job[w] = [at |-> "sent", e |-> pipe.line]
                      THEN [at |-> "taken", e |-> pipe.line]
                      ELSE job[w]]
    /\ UNCHANGED <<log, app, listener, ended, count, raced>>

\* Fault: the next client is served while a line is still to be read.
ListenerDropsLine ==
    /\ listener = "reading"
    /\ job[Listener] = Idle
    /\ ~pipe.open
    /\ pipe' = NoPipe
    /\ listener' = "between"
    /\ UNCHANGED <<log, app, ended, job, count, raced>>

\* The client has closed its end and all was read.
ListenerSeesEnd ==
    /\ listener = "reading"
    /\ job[Listener] = Idle
    /\ pipe.line = NoEntry
    /\ ~pipe.open
    /\ pipe' = NoPipe
    /\ listener' = "between"
    /\ UNCHANGED <<log, app, ended, job, count, raced>>

\* The wait or the read is cancelled; a line in the pipe goes with it.
ListenerStops ==
    /\ app = "closing"
    /\ listener # "off"
    /\ job[Listener] = Idle
    /\ pipe' = NoPipe
    /\ listener' = "off"
    /\ UNCHANGED <<log, app, ended, job, count, raced>>

-----------------------------------------------------------------------------
(* The app *)

AppStarts ==
    /\ app = "gone"
    /\ app' = "running"
    /\ listener' = "between"
    /\ UNCHANGED <<log, pipe, ended, job, count, raced>>

\* Dispose cancels the listener, and waits a second for it.
AppCloses ==
    /\ app = "running"
    /\ app' = "closing"
    /\ ended' = TRUE
    /\ UNCHANGED <<log, listener, pipe, job, count, raced>>

\* The process ends, after Dispose or by a crash.
AppEnds ==
    /\ app # "gone"
    /\ app' = "gone"
    /\ ended' = TRUE
    /\ listener' = "off"
    /\ pipe' = NoPipe
    /\ job' = [w \in DOMAIN job |-> IF w \in AppThreads THEN Idle ELSE job[w]]
    /\ UNCHANGED <<log, count, raced>>

-----------------------------------------------------------------------------
ClientStep(c) ==
    Connect(c) \/ PipeWrite(c) \/ WriteFallback(c) \/ WriteReturns(c)

AppendStep(w) == OpenLog(w) \/ AppendLine(w)

ListenerStep ==
    ListenerOpensPipe \/ ListenerReads \/ ListenerSeesEnd \/ ListenerStops

AppStep == AppStarts \/ AppCloses \/ AppEnds

Next ==
    \/ \E w \in Writers : BeginWrite(w)
    \/ \E c \in Clients : ClientStep(c) \/ ClientDies(c)
    \/ \E w \in Writers \cup {Listener} : AppendStep(w)
    \/ ListenerStep
    \/ AppStep

\* What a client does by itself.  Whether a Write returns before its line is read
\* depends on the buffer of the pipe, so it is not assumed to.
WriteGoesOn(c) ==
    \/ Connect(c) \/ PipeWrite(c) \/ WriteFallback(c)
    \/ At(c, "taken") /\ WriteReturns(c)
    \/ AppendStep(c)

\* A thread that can go on does.  Nobody has to log, to start the app, to close
\* it or to die.  (With writers that never stop, a thread that waits for the lock
\* would need strong fairness.)
Fairness ==
    /\ \A c \in Clients : WF_vars(WriteGoesOn(c))
    /\ \A t \in AppThreads : WF_vars(AppendStep(t))
    /\ WF_vars(ListenerStep)

Spec == Init /\ [][Next]_vars /\ Fairness
-----------------------------------------------------------------------------
(* Properties *)

\* File, pipe and threads hold what the code can have put there.
TypeOK ==
    /\ log \in Seq(Line)
    /\ app \in {"running", "closing", "gone"}
    /\ listener \in {"off", "between", "waiting", "reading"}
    /\ pipe \in Pipe \cup {NoPipe}
    /\ job \in [Writers \cup {Listener} -> Job]
    /\ count \in [Writers -> Nat]
    /\ \A w \in Writers : count[w] <= MaxEntries[w]
    /\ raced \in BOOLEAN
    /\ ended \in BOOLEAN

IsLogged(e) == \E i \in DOMAIN log : log[i].entry = e /\ log[i].as # "notice"

\* An entry is in the log once at most: a client that falls back did not get
\* its line through, and one whose line was read does not fall back.
LoggedOnce ==
    \A i, j \in DOMAIN log :
        log[i].entry = log[j].entry /\ log[i].as # "notice" /\ log[j].as # "notice" => i = j

\* On its way from a pipe to the file.
InHand(e) ==
    \/ pipe.line = e
    \/ job[Listener].at \in {"open", "append"} /\ job[Listener].e = e

\* The Write of e came to its end, well or in an app that ended.
Returned(e) ==
    \/ e.n < count[e.by]
    \/ e.n = count[e.by] /\ job[e.by] = Idle

FellBack(e) == \E i \in DOMAIN log : log[i] = [entry |-> e, as |-> "notice"]

\* An entry whose Write returned is in the file, or the app has it in hand.  It
\* is lost only where a client and another process appended at the same time, or
\* it was handed to an app that was closed or died.
NothingLost ==
    \A e \in Entry :
        Returned(e) => IsLogged(e) \/ InHand(e) \/ raced \/ (ended /\ ~FellBack(e))

\* The entries of one writer that came to the file in the same way are in the
\* order they were written in.  (An entry that fell back may be before one that
\* is still in the pipe.)
SameWayInOrder ==
    \A i, j \in DOMAIN log :
        /\ i < j
        /\ log[i].as = log[j].as
        /\ log[i].entry.by = log[j].entry.by
        => log[i].entry.n < log[j].entry.n

\* Logging does not hold up the call of a client for good, whatever the app does.
WriteEnds == \A c \in Clients : job[c] # Idle ~> job[c] \in {Idle, Dead}

\* An entry that was handed over comes to the file, unless the app ends.
ReturnedArrives ==
    \A e \in Entry : e.by \in Clients => (Returned(e) ~> IsLogged(e) \/ ended \/ raced)
=============================================================================
