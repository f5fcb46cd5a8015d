------------------------------ MODULE McpProxy ------------------------------
(***************************************************************************)
(* One session of an MCP client: its stdio bridge, the proxy hub in the    *)
(* desktop app, and the server process that the hub starts for it.         *)
(*                                                                         *)
(* A line travels client - bridge - hub - server, and an answer the same   *)
(* way back; each process passes lines on with one pump per direction.     *)
(* The client may close its input, the server may die or hang, and the app *)
(* may be closed or die, at any moment.  The question is who learns of it. *)
(*                                                                         *)
(* Sessions share nothing, so one is enough.  Left out: log entries, what  *)
(* a line says apart from its request id, full pipes (the server is taken  *)
(* to read its input also while it works), and pipe handles that a diff    *)
(* tool started by the server may have inherited from it.                  *)
(***************************************************************************)
EXTENDS Naturals, Sequences

CONSTANT MaxLines   \* bound: lines the client sends

ASSUME LinesAssumption == MaxLines \in Nat \ {0}

Requests == 1..MaxLines

\* A line without a request id; it gets no answer.
Note == 0

Links == {"stdin", "up", "childIn", "childOut", "down", "stdout"}

VARIABLES
    sent,       \* how many lines the client has sent
    received,   \* requests whose answer the client has read
    link,       \* link |-> lines written to it and not read yet
    ended,      \* links whose write end is closed
    bridge,     \* the bridge process and its two pumps
    hub,        \* how far HandleClientAsync is, "listening" before it
    up, down,   \* the hub's pumps to the server and to the client
    pending,    \* requests registered for telemetry and not answered
    server,     \* the server process
    working,    \* requests the server has read and not answered
    shutdown    \* the app is closing, or gone

client == <<sent, received>>
hubVars == <<hub, up, down, pending>>
serverVars == <<server, working>>
vars == <<client, link, ended, bridge, hubVars, serverVars, shutdown>>

Reading == [at |-> "read"]

PumpDone(pump) == pump.at \in {"ended", "failed"}

Init ==
    /\ sent = 0
    /\ received = {}
    /\ link = [l \in Links |-> <<>>]
    /\ ended = {}
    /\ bridge = [at |-> "connecting", in |-> Reading, out |-> Reading]
    /\ hub \in {"listening", "closed"}
    /\ up = Reading
    /\ down = Reading
    /\ pending = {}
    /\ server = "none"
    /\ working = {}
    /\ shutdown = FALSE

Writes(l, line) == link' = [link EXCEPT ![l] = Append(@, line)]

Reads(l) == link' = [link EXCEPT ![l] = Tail(@)]

Moves(l, m) == link' = [link EXCEPT ![l] = Tail(@), ![m] = Append(@, Head(link[l]))]

AtEnd(l) == link[l] = <<>> /\ l \in ended

-----------------------------------------------------------------------------
(* The client *)

ClientSends ==
    /\ sent < MaxLines
    /\ "stdin" \notin ended
    /\ bridge.at # "done"
    /\ sent' = sent + 1
    /\ \E line \in {Note, sent + 1} : Writes("stdin", line)
    /\ UNCHANGED <<received, ended, bridge, hubVars, serverVars, shutdown>>

ClientCloses ==
    /\ "stdin" \notin ended
    /\ ended' = ended \cup {"stdin"}
    /\ UNCHANGED <<client, link, bridge, hubVars, serverVars, shutdown>>

ClientReads ==
    /\ link["stdout"] # <<>>
    /\ Reads("stdout")
    /\ received' = received \cup {Head(link["stdout"])}
    /\ UNCHANGED <<sent, ended, bridge, hubVars, serverVars, shutdown>>

ClientSeesEnd == AtEnd("stdout")

-----------------------------------------------------------------------------
(* The bridge *)

\* The handshake is on its way with the connection.
BridgeConnects ==
    /\ bridge.at = "connecting"
    /\ hub = "listening"
    /\ bridge' = [bridge EXCEPT !.at = "pumping"]
    /\ hub' = "handshake"
    /\ UNCHANGED <<client, link, ended, up, down, pending, serverVars, shutdown>>

BridgeExits ==
    /\ bridge' = [bridge EXCEPT !.at = "done"]
    /\ ended' = ended \cup {"up", "stdout"}
    /\ UNCHANGED <<client, link, hubVars, serverVars, shutdown>>

\* No hub takes the connection within a minute.
BridgeGivesUp ==
    /\ bridge.at = "connecting"
    /\ BridgeExits

\* PumpAsync from stdin; writing to a pipe that the hub has closed throws.
BridgeForwards ==
    /\ bridge.at = "pumping"
    /\ bridge.in = Reading
    /\ \/ /\ link["stdin"] # <<>>
          /\ hub # "closed"
          /\ Moves("stdin", "up")
          /\ UNCHANGED bridge
       \/ /\ link["stdin"] # <<>>
          /\ hub = "closed"
          /\ Reads("stdin")
          /\ bridge' = [bridge EXCEPT !.in.at = "failed"]
       \/ /\ AtEnd("stdin")
          /\ bridge' = [bridge EXCEPT !.in.at = "ended"]
          /\ UNCHANGED link
    /\ UNCHANGED <<client, ended, hubVars, serverVars, shutdown>>

\* PumpAsync to stdout.
BridgeReturns ==
    /\ bridge.at = "pumping"
    /\ bridge.out = Reading
    /\ \/ link["down"] # <<>> /\ Moves("down", "stdout") /\ UNCHANGED bridge
       \/ AtEnd("down") /\ bridge' = [bridge EXCEPT !.out.at = "ended"] /\ UNCHANGED link
    /\ UNCHANGED <<client, ended, hubVars, serverVars, shutdown>>

\* Fault: Main looks at the pump from stdin only.
BridgeEndsWithInput ==
    /\ bridge.at = "pumping"
    /\ PumpDone(bridge.in)
    /\ BridgeExits

\* Fault: Main waits for both pumps.
BridgeEndsWithBoth ==
    /\ bridge.at = "pumping"
    /\ PumpDone(bridge.in) /\ PumpDone(bridge.out)
    /\ BridgeExits

\* Main waits for either pump; the other one runs until the process is gone.
BridgeEnds ==
    /\ bridge.at = "pumping"
    /\ PumpDone(bridge.in) \/ PumpDone(bridge.out)
    /\ BridgeExits

-----------------------------------------------------------------------------
(* The hub *)

InSession == hub \in {"running", "stopping", "draining"}

\* The pipe is disposed of when HandleClientAsync is left in whatever way.
ClosePipe ==
    /\ hub' = "closed"
    /\ ended' = ended \cup {"down"}

HubStartsServer ==
    /\ hub = "handshake"
    /\ hub' = "running"
    /\ server' = "running"
    /\ UNCHANGED <<client, link, ended, bridge, up, down, pending, working, shutdown>>

\* No or a bad handshake, no server build to start, or a cancelled read.
HubRefuses ==
    /\ hub = "handshake" \/ (hub = "listening" /\ shutdown)
    /\ ClosePipe
    /\ UNCHANGED <<client, link, bridge, up, down, pending, serverVars, shutdown>>

\* Fault: lines without an id are registered like requests.
HubTakesAnyLine ==
    /\ InSession
    /\ up = Reading
    /\ link["up"] # <<>>
    /\ Reads("up")
    /\ up' = [at |-> "write", line |-> Head(link["up"])]
    /\ pending' = pending \cup {up'.line}
    /\ UNCHANGED <<client, ended, bridge, hub, down, serverVars, shutdown>>

\* Fault: a request is not registered before it is forwarded.
HubTakesOnly ==
    /\ InSession
    /\ up = Reading
    /\ link["up"] # <<>>
    /\ Reads("up")
    /\ up' = [at |-> "write", line |-> Head(link["up"])]
    /\ UNCHANGED <<client, ended, bridge, hub, down, pending, serverVars, shutdown>>

\* PumpClientToChildAsync up to the write.
HubTakes ==
    /\ InSession
    /\ up = Reading
    /\ link["up"] # <<>>
    /\ Reads("up")
    /\ up' = [at |-> "write", line |-> Head(link["up"])]
    /\ pending' = pending \cup ({up'.line} \ {Note})
    /\ UNCHANGED <<client, ended, bridge, hub, down, serverVars, shutdown>>

\* FromJsonLine throws on JSON that is no object, or a method that is no string.
HubMisreads ==
    /\ InSession
    /\ up = Reading
    /\ link["up"] # <<>>
    /\ Reads("up")
    /\ up' = [at |-> "failed"]
    /\ UNCHANGED <<client, ended, bridge, hub, down, pending, serverVars, shutdown>>

\* Fault: a line for a server that is gone is dropped, and the pump goes on.
HubForwardsOrDrops ==
    /\ InSession
    /\ up.at = "write"
    /\ IF server = "running" /\ "childIn" \notin ended
       THEN Writes("childIn", up.line)
       ELSE UNCHANGED link
    /\ up' = Reading
    /\ UNCHANGED <<client, ended, bridge, hub, down, pending, serverVars, shutdown>>

\* The write; it throws when the server or its input is gone.
HubForwards ==
    /\ InSession
    /\ up.at = "write"
    /\ IF server = "running" /\ "childIn" \notin ended
       THEN Writes("childIn", up.line) /\ up' = Reading
       ELSE UNCHANGED link /\ up' = [at |-> "failed"]
    /\ UNCHANGED <<client, ended, bridge, hub, down, pending, serverVars, shutdown>>

HubInputEnds ==
    /\ InSession
    /\ up = Reading
    /\ \/ AtEnd("up") /\ up' = [at |-> "ended"]
       \/ shutdown /\ up' = [at |-> "failed"]
    /\ UNCHANGED <<client, link, ended, bridge, hub, down, pending, serverVars, shutdown>>

\* PumpChildToClientAsync; writing to a pipe that the bridge has closed throws.
HubRelays ==
    /\ InSession
    /\ down = Reading
    /\ link["childOut"] # <<>>
    /\ pending' = pending \ {Head(link["childOut"])}
    /\ IF bridge.at # "done"
       THEN Moves("childOut", "down") /\ UNCHANGED down
       ELSE Reads("childOut") /\ down' = [at |-> "failed"]
    /\ UNCHANGED <<client, ended, bridge, hub, up, serverVars, shutdown>>

HubOutputEnds ==
    /\ InSession
    /\ down = Reading
    /\ \/ AtEnd("childOut") /\ down' = [at |-> "ended"]
       \/ shutdown /\ down' = [at |-> "failed"]
    /\ UNCHANGED <<client, link, ended, bridge, hub, up, pending, serverVars, shutdown>>

\* WhenAny of the pumps and the exit of the server, all of which end on
\* shutdown; then StopChildAsync closes the server's input.  While a write to it
\* is under way Close throws, which is ignored, and closes the stream nevertheless.
HubStops ==
    /\ hub = "running"
    /\ PumpDone(up) \/ PumpDone(down) \/ server = "gone" \/ shutdown
    /\ hub' = IF server = "gone" THEN "draining" ELSE "stopping"
    /\ ended' = IF server = "gone" THEN ended ELSE ended \cup {"childIn"}
    /\ UNCHANGED <<client, link, bridge, up, down, pending, serverVars, shutdown>>

\* Fault: when the time is up the server is left alone.
HubStopWaitsOnly ==
    /\ hub = "stopping"
    /\ hub' = "draining"
    /\ UNCHANGED <<client, link, ended, bridge, up, down, pending, serverVars, shutdown>>

\* The server exits, or is killed after 750 ms.  On shutdown both waits are
\* cancelled, and which one counts as first decides if the server is killed.
HubStopWaits ==
    /\ hub = "stopping"
    /\ hub' = "draining"
    /\ \/ /\ server = "running"
          /\ server' = "gone"
          /\ working' = {}
          /\ ended' = ended \cup {"childOut"}
       \/ /\ server = "gone" \/ shutdown
          /\ UNCHANGED <<serverVars, ended>>
    /\ UNCHANGED <<client, link, bridge, up, down, pending, shutdown>>

\* Fault: the pumps are not waited for.
HubClosesAtOnce ==
    /\ hub = "draining"
    /\ ClosePipe
    /\ UNCHANGED <<client, link, bridge, up, down, pending, serverVars, shutdown>>

\* WhenAll of the pumps; the one for stderr ends with the server.
HubCloses ==
    /\ hub = "draining"
    /\ PumpDone(up) /\ PumpDone(down)
    /\ server = "gone" \/ shutdown
    /\ ClosePipe
    /\ UNCHANGED <<client, link, bridge, up, down, pending, serverVars, shutdown>>

-----------------------------------------------------------------------------
(* The app and the server *)

AppCloses ==
    /\ ~shutdown
    /\ shutdown' = TRUE
    /\ UNCHANGED <<client, link, ended, bridge, hubVars, serverVars>>

\* The app process ends, after two seconds of Dispose or by a crash; all it
\* had open is closed.
AppExits ==
    /\ shutdown' = TRUE
    /\ hub' = "closed"
    /\ ended' = ended \cup {"down", "childIn"}
    /\ UNCHANGED <<client, link, bridge, up, down, pending, serverVars>>

ServerReads ==
    /\ server = "running"
    /\ link["childIn"] # <<>>
    /\ Reads("childIn")
    /\ working' = working \cup ({Head(link["childIn"])} \ {Note})
    /\ UNCHANGED <<client, ended, bridge, hubVars, server, shutdown>>

\* Requests are worked on side by side and answered in any order.
ServerAnswers ==
    /\ server = "running"
    /\ \E r \in working :
         /\ Writes("childOut", r)
         /\ working' = working \ {r}
    /\ UNCHANGED <<client, ended, bridge, hubVars, server, shutdown>>

\* At the end of its input, or at any other moment.
ServerExits ==
    /\ server = "running"
    /\ server' = "gone"
    /\ working' = {}
    /\ ended' = ended \cup {"childOut"}
    /\ UNCHANGED <<client, link, bridge, hubVars, shutdown>>

-----------------------------------------------------------------------------
BridgeStep == BridgeConnects \/ BridgeGivesUp \/ BridgeEnds

HubMainStep == HubStartsServer \/ HubRefuses \/ HubStops \/ HubStopWaits \/ HubCloses

HubUpStep == HubTakes \/ HubMisreads \/ HubForwards \/ HubInputEnds

HubDownStep == HubRelays \/ HubOutputEnds

Next ==
    \/ ClientSends \/ ClientCloses \/ ClientReads
    \/ BridgeStep \/ BridgeForwards \/ BridgeReturns
    \/ HubMainStep \/ HubUpStep \/ HubDownStep
    \/ AppCloses \/ AppExits
    \/ ServerReads \/ ServerAnswers \/ ServerExits

\* Tasks that can go on do, timers fire, an app that is closing ends, and the
\* client reads what it is sent.  Nothing is expected of the server.
Fairness ==
    /\ WF_vars(BridgeStep) /\ WF_vars(BridgeForwards) /\ WF_vars(BridgeReturns)
    /\ WF_vars(HubMainStep) /\ WF_vars(HubUpStep) /\ WF_vars(HubDownStep)
    /\ WF_vars(shutdown /\ AppExits)
    /\ WF_vars(ClientReads)

Spec == Init /\ [][Next]_vars /\ Fairness
-----------------------------------------------------------------------------
(* Properties *)

Pump == [at : {"read", "ended", "failed"}]

\* What a link carries: only requests are answered.
LineOn(l) ==
    IF l \in {"childOut", "down", "stdout"} THEN Requests ELSE Requests \cup {Note}

\* Lines, answers and tasks are where the code can have put them.
TypeOK ==
    /\ sent \in 0..MaxLines
    /\ received \subseteq Requests
    /\ link \in [Links -> Seq(Requests \cup {Note})]
    /\ \A l \in Links : link[l] \in Seq(LineOn(l))
    /\ ended \subseteq Links
    /\ bridge \in [at : {"connecting", "pumping", "done"}, in : Pump, out : Pump]
    /\ hub \in {"listening", "handshake", "running", "stopping", "draining", "closed"}
    /\ up \in Pump \cup [at : {"write"}, line : Requests \cup {Note}]
    /\ down \in Pump
    /\ pending \subseteq Requests
    /\ server \in {"none", "running", "gone"}
    /\ working \subseteq Requests
    /\ shutdown \in BOOLEAN

\* A session that ends while the app runs leaves no server process behind.
ServerIsStopped ==
    hub \in {"draining", "closed"} /\ ~shutdown => server # "running"

Lines(l) == {link[l][i] : i \in 1..Len(link[l])}

\* Every answer on its way to the hub finds its request in the telemetry.
AnswersAreMatched == Lines("childOut") \cup working \subseteq pending

\* What the server answered before it ended reaches the client, unless the
\* client closes its input, the app ends, or the client sends a line after the
\* hub has closed the pipe, which makes the bridge drop what it has not read.
AnswerArrives ==
    \A r \in Requests :
        r \in Lines("childOut")
            ~> \/ r \in received
               \/ "stdin" \in ended
               \/ shutdown
               \/ bridge.in.at = "failed"

\* A client that sends a line when the server is gone sees the end of its
\* session.
LossIsSeen ==
    server = "gone" /\ link["stdin"] # <<>> ~> ClientSeesEnd

\* A client whose session cannot be served any more, because the app closes
\* or died, sees the end of it.
ShutdownIsSeen == shutdown ~> ClientSeesEnd

\* When the client has closed its input its server comes to an end, also one
\* that hangs.
ClosedClientEndsServer ==
    "stdin" \in ended ~> [](server # "running" \/ shutdown)
=============================================================================
