--------------------------- MODULE McpProxyProofs ---------------------------
(* Proofs about McpProxy for any number of lines. *)
EXTENDS McpProxy, SequenceTheorems, TLAPS

-----------------------------------------------------------------------------
(* Types *)

LinkType ==
    /\ link \in [Links -> Seq(Requests \cup {Note})]
    /\ \A l \in Links : link[l] \in Seq(LineOn(l))

\* A link with another sequence of its lines on it.
LEMMA OneLink ==
    ASSUME LinkType, NEW l \in Links, NEW s \in Seq(LineOn(l)),
           link' = [link EXCEPT ![l] = s]
    PROVE  LinkType'
<1>1. s \in Seq(Requests \cup {Note})
  BY DEF LineOn
<1>2. \A m \in Links : link'[m] = IF m = l THEN s ELSE link[m]
  BY DEF LinkType
<1> QED BY <1>1, <1>2 DEF LinkType

LEMMA WritesType ==
    ASSUME LinkType, NEW l \in Links, NEW x \in LineOn(l), Writes(l, x)
    PROVE  LinkType'
<1>1. Append(link[l], x) \in Seq(LineOn(l))
  BY AppendProperties DEF LinkType
<1> QED BY <1>1, OneLink DEF Writes

\* Reading a link that holds something.
LEMMA HeadType ==
    ASSUME LinkType, NEW l \in Links, link[l] # <<>>
    PROVE  Head(link[l]) \in LineOn(l) /\ Tail(link[l]) \in Seq(LineOn(l))
<1>1. link[l] \in Seq(LineOn(l))
  BY DEF LinkType
<1> QED BY <1>1, HeadTailProperties

LEMMA ReadsType ==
    ASSUME LinkType, NEW l \in Links, link[l] # <<>>, Reads(l)
    PROVE  LinkType'
BY HeadType, OneLink DEF Reads

LEMMA MovesType ==
    ASSUME LinkType, NEW l \in Links, NEW m \in Links, LineOn(l) = LineOn(m), l # m,
           link[l] # <<>>, Moves(l, m)
    PROVE  LinkType'
<1> DEFINE t == Tail(link[l])
           a == Append(link[m], Head(link[l]))
<1>1. t \in Seq(LineOn(l)) /\ a \in Seq(LineOn(m))
  BY HeadType, AppendProperties DEF LinkType
<1>2. \A s \in Seq(LineOn(l)) : s \in Seq(Requests \cup {Note})
  BY DEF LineOn
<1>3. \A n \in Links : link'[n] = IF n = m THEN a ELSE IF n = l THEN t ELSE link[n]
  BY DEF LinkType, Moves
<1>4. link' = [n \in Links |-> link'[n]]
  BY DEF LinkType, Moves
<1> HIDE DEF t, a
<1>5. \A n \in Links :
        link'[n] \in Seq(Requests \cup {Note}) /\ link'[n] \in Seq(LineOn(n))
  BY <1>1, <1>2, <1>3 DEF LinkType
<1> QED BY <1>4, <1>5 DEF LinkType

LEMMA InitType == Init => TypeOK
<1> SUFFICES ASSUME Init PROVE TypeOK
  OBVIOUS
<1>1. link \in [Links -> Seq(Requests \cup {Note})] /\ \A l \in Links : link[l] \in Seq(LineOn(l))
  BY DEF Init
<1>2. bridge \in [at : {"connecting", "pumping", "done"}, in : Pump, out : Pump]
  BY DEF Init, Pump, Reading
<1>3. up \in Pump /\ down \in Pump /\ sent \in 0..MaxLines
  BY LinesAssumption DEF Init, Pump, Reading
<1> QED BY <1>1, <1>2, <1>3 DEF Init, TypeOK

\* The links, and what they carry.
LEMMA LinkFacts ==
    /\ {"stdin", "up", "childIn", "childOut", "down", "stdout"} \subseteq Links
    /\ \A l \in {"stdin", "up", "childIn"} : LineOn(l) = Requests \cup {Note}
    /\ \A l \in {"childOut", "down", "stdout"} : LineOn(l) = Requests
BY DEF Links, LineOn

LEMMA ClientType ==
    ASSUME TypeOK, ClientSends \/ ClientCloses \/ ClientReads
    PROVE  TypeOK'
<1>0. LinkType
  BY DEF TypeOK, LinkType
<1>1. CASE ClientSends
  <2>1. sent + 1 \in Requests /\ sent' \in 0..MaxLines
    BY <1>1, LinesAssumption DEF ClientSends, TypeOK, Requests
  <2>2. PICK line \in {Note, sent + 1} : Writes("stdin", line)
    BY <1>1 DEF ClientSends
  <2>3. LinkType'
    BY <1>0, <2>1, <2>2, WritesType, LinkFacts
  <2> QED
    BY <1>1, <2>1, <2>3 DEF ClientSends, TypeOK, LinkType, hubVars, serverVars
<1>2. CASE ClientCloses
  BY <1>2, LinkFacts DEF ClientCloses, TypeOK, client, hubVars, serverVars
<1>3. CASE ClientReads
  <2>1. LinkType'
    BY <1>0, <1>3, ReadsType, LinkFacts DEF ClientReads
  <2>2. Head(link["stdout"]) \in Requests
    BY <1>0, <1>3, HeadType, LinkFacts DEF ClientReads
  <2> QED
    BY <1>3, <2>1, <2>2 DEF ClientReads, TypeOK, LinkType, hubVars, serverVars
<1> QED BY <1>1, <1>2, <1>3

LEMMA BridgeType ==
    ASSUME TypeOK, BridgeStep \/ BridgeForwards \/ BridgeReturns
    PROVE  TypeOK'
<1>0. LinkType
  BY DEF TypeOK, LinkType
<1>1. CASE BridgeConnects
  BY <1>1 DEF BridgeConnects, TypeOK, client, serverVars
<1>2. CASE BridgeGivesUp \/ BridgeEnds
  BY <1>2, LinkFacts DEF BridgeGivesUp, BridgeEnds, BridgeExits, TypeOK, client,
     hubVars, serverVars
<1>3. CASE BridgeForwards
  <2>1. LinkType'
    <3>1. CASE link["stdin"] # <<>> /\ Moves("stdin", "up")
      BY <1>0, <3>1, MovesType, LinkFacts
    <3>2. CASE link["stdin"] # <<>> /\ Reads("stdin")
      BY <1>0, <3>2, ReadsType, LinkFacts
    <3>3. CASE UNCHANGED link
      BY <1>0, <3>3 DEF LinkType
    <3> QED BY <1>3, <3>1, <3>2, <3>3 DEF BridgeForwards
  <2>2. bridge' \in [at : {"connecting", "pumping", "done"}, in : Pump, out : Pump]
    BY <1>3 DEF BridgeForwards, TypeOK, Pump
  <2> QED
    BY <1>3, <2>1, <2>2 DEF BridgeForwards, TypeOK, LinkType, client, hubVars, serverVars
<1>4. CASE BridgeReturns
  <2>1. LinkType'
    <3>1. CASE link["down"] # <<>> /\ Moves("down", "stdout")
      BY <1>0, <3>1, MovesType, LinkFacts
    <3>2. CASE UNCHANGED link
      BY <1>0, <3>2 DEF LinkType
    <3> QED BY <1>4, <3>1, <3>2 DEF BridgeReturns
  <2>2. bridge' \in [at : {"connecting", "pumping", "done"}, in : Pump, out : Pump]
    BY <1>4 DEF BridgeReturns, TypeOK, Pump
  <2> QED
    BY <1>4, <2>1, <2>2 DEF BridgeReturns, TypeOK, LinkType, client, hubVars, serverVars
<1> QED BY <1>1, <1>2, <1>3, <1>4 DEF BridgeStep

LEMMA HubMainType ==
    ASSUME TypeOK, HubMainStep
    PROVE  TypeOK'
<1>1. ended' \subseteq Links
  BY LinkFacts DEF HubMainStep, HubStartsServer, HubRefuses, HubStops, HubStopWaits,
     HubCloses, ClosePipe, TypeOK
<1>2. hub' \in {"listening", "handshake", "running", "stopping", "draining", "closed"}
  BY DEF HubMainStep, HubStartsServer, HubRefuses, HubStops, HubStopWaits,
     HubCloses, ClosePipe
<1>3. server' \in {"none", "running", "gone"} /\ working' \subseteq Requests
  BY DEF HubMainStep, HubStartsServer, HubRefuses, HubStops, HubStopWaits,
     HubCloses, TypeOK, serverVars
<1>4. UNCHANGED <<sent, received, link, bridge, up, down, pending, shutdown>>
  BY DEF HubMainStep, HubStartsServer, HubRefuses, HubStops, HubStopWaits,
     HubCloses, client
<1> QED BY <1>1, <1>2, <1>3, <1>4 DEF TypeOK

LEMMA HubUpType ==
    ASSUME TypeOK, HubUpStep
    PROVE  TypeOK'
<1>0. LinkType
  BY DEF TypeOK, LinkType
<1>1. CASE HubTakes \/ HubMisreads
  <2>1. LinkType' /\ Head(link["up"]) \in Requests \cup {Note}
    BY <1>0, <1>1, ReadsType, HeadType, LinkFacts DEF HubTakes, HubMisreads
  <2>2. up' \in Pump \cup [at : {"write"}, line : Requests \cup {Note}]
    BY <1>1, <2>1 DEF HubTakes, HubMisreads, Pump
  <2>3. pending' \subseteq Requests
    BY <1>1, <2>1 DEF HubTakes, HubMisreads, TypeOK
  <2> QED
    BY <1>1, <2>1, <2>2, <2>3 DEF HubTakes, HubMisreads, TypeOK, LinkType, client, serverVars
<1>2. CASE HubForwards
  <2>1. up.line \in Requests \cup {Note}
    BY <1>2 DEF HubForwards, TypeOK, Pump
  <2>2. LinkType'
    <3>1. CASE Writes("childIn", up.line)
      BY <1>0, <2>1, <3>1, WritesType, LinkFacts
    <3>2. CASE UNCHANGED link
      BY <1>0, <3>2 DEF LinkType
    <3> QED BY <1>2, <3>1, <3>2 DEF HubForwards
  <2>3. up' \in Pump
    BY <1>2 DEF HubForwards, Pump, Reading
  <2> QED
    BY <1>2, <2>2, <2>3 DEF HubForwards, TypeOK, LinkType, client, serverVars
<1>3. CASE HubInputEnds
  BY <1>3 DEF HubInputEnds, TypeOK, Pump, client, serverVars
<1> QED BY <1>1, <1>2, <1>3 DEF HubUpStep

LEMMA HubDownType ==
    ASSUME TypeOK, HubDownStep
    PROVE  TypeOK'
<1>0. LinkType
  BY DEF TypeOK, LinkType
<1>1. CASE HubRelays
  <2>1. LinkType'
    <3>1. CASE Moves("childOut", "down")
      BY <1>0, <1>1, <3>1, MovesType, LinkFacts DEF HubRelays
    <3>2. CASE Reads("childOut")
      BY <1>0, <1>1, <3>2, ReadsType, LinkFacts DEF HubRelays
    <3> QED BY <1>1, <3>1, <3>2 DEF HubRelays
  <2>2. down' \in Pump
    BY <1>1 DEF HubRelays, TypeOK, Pump
  <2> QED
    BY <1>1, <2>1, <2>2 DEF HubRelays, TypeOK, LinkType, client, serverVars
<1>2. CASE HubOutputEnds
  BY <1>2 DEF HubOutputEnds, TypeOK, Pump, client, serverVars
<1> QED BY <1>1, <1>2 DEF HubDownStep

LEMMA AppAndServerType ==
    ASSUME TypeOK, AppCloses \/ AppExits \/ ServerReads \/ ServerAnswers \/ ServerExits
    PROVE  TypeOK'
<1>0. LinkType
  BY DEF TypeOK, LinkType
<1>1. CASE AppCloses \/ AppExits
  BY <1>1, LinkFacts DEF AppCloses, AppExits, TypeOK, client, hubVars, serverVars
<1>2. CASE ServerReads
  <2>1. LinkType' /\ Head(link["childIn"]) \in Requests \cup {Note}
    BY <1>0, <1>2, ReadsType, HeadType, LinkFacts DEF ServerReads
  <2>2. working' \subseteq Requests
    BY <1>2, <2>1 DEF ServerReads, TypeOK
  <2> QED
    BY <1>2, <2>1, <2>2 DEF ServerReads, TypeOK, LinkType, client, hubVars
<1>3. CASE ServerAnswers
  <2>1. PICK r \in working : Writes("childOut", r) /\ working' = working \ {r}
    BY <1>3 DEF ServerAnswers
  <2>2. LinkType'
    BY <1>0, <2>1, WritesType, LinkFacts DEF TypeOK
  <2> QED
    BY <1>3, <2>1, <2>2 DEF ServerAnswers, TypeOK, LinkType, client, hubVars
<1>4. CASE ServerExits
  BY <1>4, LinkFacts DEF ServerExits, TypeOK, client, hubVars
<1> QED BY <1>1, <1>2, <1>3, <1>4

\* Lines, answers and tasks are where the code can have put them; above all,
\* only what has a request id is registered, worked on or answered.
THEOREM TypeCorrect == Spec => []TypeOK
<1>1. TypeOK /\ [Next]_vars => TypeOK'
  <2> SUFFICES ASSUME TypeOK, [Next]_vars PROVE TypeOK'
    OBVIOUS
  <2>1. CASE UNCHANGED vars
    BY <2>1 DEF vars, client, hubVars, serverVars, TypeOK
  <2> QED
    BY <2>1, ClientType, BridgeType, HubMainType, HubUpType, HubDownType,
       AppAndServerType DEF Next
<1> QED BY <1>1, InitType, PTL DEF Spec

-----------------------------------------------------------------------------
(* The server process *)

\* There is no server before the handshake.
NoEarlyServer == hub \in {"listening", "handshake"} => server = "none"

StopInv == NoEarlyServer /\ ServerIsStopped

LEMMA InitStopInv == Init => StopInv
BY DEF Init, StopInv, NoEarlyServer, ServerIsStopped

LEMMA NextStopInv == StopInv /\ [Next]_vars => StopInv'
<1> SUFFICES ASSUME StopInv, [Next]_vars
             PROVE  StopInv'
  OBVIOUS
<1> USE DEF StopInv, NoEarlyServer, ServerIsStopped
<1>1. CASE ClientSends \/ ClientCloses \/ ClientReads \/ BridgeForwards \/ BridgeReturns
  BY <1>1 DEF ClientSends, ClientCloses, ClientReads, BridgeForwards,
     BridgeReturns, hubVars, serverVars
<1>2. CASE BridgeStep
  BY <1>2 DEF BridgeStep, BridgeConnects, BridgeGivesUp, BridgeEnds,
     BridgeExits, hubVars, serverVars
<1>3. CASE HubMainStep
  <2>1. CASE HubStartsServer
    BY <2>1 DEF HubStartsServer
  <2>2. CASE HubRefuses
    BY <2>2 DEF HubRefuses, ClosePipe, serverVars
  <2>3. CASE HubStops
    BY <2>3 DEF HubStops, serverVars
  <2>4. CASE HubStopWaits
    BY <2>4 DEF HubStopWaits, serverVars
  <2>5. CASE HubCloses
    BY <2>5 DEF HubCloses, ClosePipe, serverVars
  <2> QED BY <1>3, <2>1, <2>2, <2>3, <2>4, <2>5 DEF HubMainStep
<1>4. CASE HubUpStep \/ HubDownStep
  BY <1>4 DEF HubUpStep, HubTakes, HubMisreads, HubForwards, HubInputEnds,
     HubDownStep, HubRelays, HubOutputEnds, serverVars
<1>5. CASE AppCloses \/ AppExits
  BY <1>5 DEF AppCloses, AppExits, hubVars, serverVars
<1>6. CASE ServerReads \/ ServerAnswers \/ ServerExits
  BY <1>6 DEF ServerReads, ServerAnswers, ServerExits, hubVars
<1>7. CASE UNCHANGED vars
  BY <1>7 DEF vars, hubVars, serverVars
<1> QED
  BY <1>1, <1>2, <1>3, <1>4, <1>5, <1>6, <1>7 DEF Next

\* A session that ends while the app runs leaves no server process behind: it
\* starts one only after the handshake, and StopChildAsync waits for its exit
\* or kills it before the pumps are waited for.
THEOREM SessionsStopTheirServer == Spec => []ServerIsStopped
<1>1. StopInv => ServerIsStopped
  BY DEF StopInv
<1> QED
  BY <1>1, InitStopInv, NextStopInv, PTL DEF Spec
-----------------------------------------------------------------------------
(* Answers find their requests *)

\* The requests on a link.
On(s) == {s[i] : i \in 1..Len(s)} \ {Note}

Once(s) == \A i, j \in 1..Len(s) : s[i] = s[j] /\ s[i] # Note => i = j

LEMMA AppendOn ==
    ASSUME NEW S, NEW s \in Seq(S), NEW x \in S
    PROVE  /\ On(Append(s, x)) = On(s) \cup ({x} \ {Note})
           /\ Once(s) /\ x \notin On(s) => Once(Append(s, x))
<1>1. /\ Len(Append(s, x)) = Len(s) + 1 /\ Len(s) \in Nat
      /\ \A i \in 1..Len(s) : Append(s, x)[i] = s[i]
      /\ Append(s, x)[Len(s) + 1] = x
  BY AppendProperties, LenProperties
<1>2. 1..(Len(s) + 1) = 1..Len(s) \cup {Len(s) + 1}
  BY <1>1
<1>3. On(Append(s, x)) = On(s) \cup ({x} \ {Note})
  BY <1>1, <1>2 DEF On
<1>4. ASSUME Once(s), x \notin On(s)
      PROVE  Once(Append(s, x))
  BY <1>1, <1>2, <1>4 DEF Once, On
<1> QED BY <1>3, <1>4

LEMMA TailOn ==
    ASSUME NEW S, NEW s \in Seq(S), s # <<>>, Once(s)
    PROVE  /\ Once(Tail(s))
           /\ On(Tail(s)) = On(s) \ {Head(s)}
           /\ Head(s) # Note => Head(s) \in On(s)
<1>1. /\ Len(s) \in Nat \ {0} /\ Len(Tail(s)) = Len(s) - 1
      /\ \A i \in 1..Len(Tail(s)) : Tail(s)[i] = s[i + 1]
      /\ Head(s) = s[1]
  BY HeadTailProperties, LenProperties, EmptySeq
<1>2. 1 \in 1..Len(s) /\ \A i \in 1..Len(Tail(s)) : i + 1 \in 1..Len(s)
  BY <1>1
<1>3. \A i \in 1..Len(s) : i # 1 => i - 1 \in 1..Len(Tail(s)) /\ Tail(s)[i - 1] = s[i]
  BY <1>1
<1>4. Once(Tail(s))
  <2> SUFFICES ASSUME NEW i \in 1..Len(Tail(s)), NEW j \in 1..Len(Tail(s)),
                      Tail(s)[i] = Tail(s)[j], Tail(s)[i] # Note
               PROVE  i = j
    BY DEF Once
  <2>1. i + 1 = j + 1
    BY <1>1, <1>2 DEF Once
  <2> QED BY <2>1
<1>5. On(Tail(s)) \subseteq On(s) \ {Head(s)}
  <2> SUFFICES ASSUME NEW i \in 1..Len(Tail(s)), Tail(s)[i] # Note
               PROVE  Tail(s)[i] \in On(s) /\ Tail(s)[i] # Head(s)
    BY DEF On
  <2>1. s[i + 1] = s[1] => i + 1 = 1
    BY <1>1, <1>2 DEF Once
  <2> QED BY <1>1, <1>2, <2>1 DEF On
<1>6. On(s) \ {Head(s)} \subseteq On(Tail(s))
  <2> SUFFICES ASSUME NEW i \in 1..Len(s), s[i] # Note, s[i] # Head(s)
               PROVE  s[i] \in On(Tail(s))
    BY DEF On
  <2> QED BY <1>1, <1>3 DEF On
<1> QED BY <1>1, <1>2, <1>4, <1>5, <1>6 DEF On

\* Where a request can be on its way to the hub, to the server and back.
Places == {"stdin", "up", "taken", "childIn", "working", "childOut"}

Held == [p \in Places |->
           IF p = "taken" THEN IF up.at = "write" THEN {up.line} \ {Note} ELSE {}
           ELSE IF p = "working" THEN working
           ELSE On(link[p])]

Registered == {"taken", "childIn", "working", "childOut"}

\* A request is in one place, once, and known to the telemetry from the hub on.
MatchInv ==
    /\ \A l \in {"stdin", "up", "childIn", "childOut"} : Once(link[l])
    /\ \A p, q \in Places : p # q => Held[p] \cap Held[q] = {}
    /\ \A p \in Places : Held[p] \subseteq 1..sent
    /\ \A p \in Registered : Held[p] \subseteq pending

LEMMA HeldIs ==
    /\ \A p \in {"stdin", "up", "childIn", "childOut"} : Held[p] = On(link[p]) /\ Held'[p] = On(link'[p])
    /\ Held["working"] = working /\ Held'["working"] = working'
    /\ Held["taken"] = IF up.at = "write" THEN {up.line} \ {Note} ELSE {}
    /\ Held'["taken"] = IF up'.at = "write" THEN {up'.line} \ {Note} ELSE {}
BY DEF Held, Places

LEMMA MatchInit == Init => MatchInv
<1> SUFFICES ASSUME Init PROVE MatchInv
  OBVIOUS
<1>1. \A l \in Links : link[l] = <<>> /\ Len(link[l]) = 0
  BY DEF Init
<1>2. \A l \in {"stdin", "up", "childIn", "childOut"} : Once(link[l]) /\ On(link[l]) = {}
  BY <1>1, LinkFacts DEF Once, On
<1>3. Held["taken"] = {} /\ Held["working"] = {}
  BY HeldIs DEF Init, Reading
<1>4. \A p \in Places : Held[p] = {}
  BY <1>2, <1>3, HeldIs DEF Places
<1> QED BY <1>2, <1>4 DEF MatchInv, Registered, Places

\* A request comes to a place, or to none.
LEMMA MatchStep ==
    ASSUME MatchInv, NEW q \in Places, NEW x,
           \A l \in {"stdin", "up", "childIn", "childOut"} : Once(link'[l]),
           \A p \in Places : Held'[p] \subseteq Held[p] \cup IF p = q THEN {x} \ {Note} ELSE {},
           \A p \in Places : p # q /\ x # Note => x \notin Held'[p],
           x # Note => x \in 1..sent', sent \in Nat, sent' \in Nat, sent <= sent',
           q \in Registered /\ x # Note => x \in pending',
           pending \subseteq pending'
    PROVE  MatchInv'
<1>1. \A p, r \in Places : p # r => Held'[p] \cap Held'[r] = {}
  BY DEF MatchInv
<1>2. 1..sent \subseteq 1..sent'
  OBVIOUS
<1>3. \A p \in Places : Held'[p] \subseteq 1..sent'
  BY <1>2 DEF MatchInv
<1>4. \A p \in Registered : p \in Places /\ Held'[p] \subseteq pending'
  BY DEF MatchInv, Registered, Places
<1> QED BY <1>1, <1>3, <1>4 DEF MatchInv
LEMMA MatchDrop ==
    ASSUME MatchInv, UNCHANGED sent, pending \subseteq pending',
           \A l \in {"stdin", "up", "childIn", "childOut"} : Once(link'[l]),
           \A p \in Places : Held'[p] \subseteq Held[p]
    PROVE  MatchInv'
<1>1. \A p \in Registered : p \in Places /\ Held'[p] \subseteq pending'
  BY DEF MatchInv, Registered, Places
<1> QED BY <1>1 DEF MatchInv

LEMMA MatchSame ==
    ASSUME MatchInv, TypeOK, UNCHANGED <<sent, pending>>,
           \A l \in {"stdin", "up", "childIn", "childOut"} : link'[l] = link[l],
           \/ UNCHANGED working
           \/ working' = {},
           \/ up' = up
           \/ up'.at # "write"
    PROVE  MatchInv'
<1>1. \A p \in Places : Held'[p] \subseteq Held[p]
  BY HeldIs DEF Places
<1>2. \A l \in {"stdin", "up", "childIn", "childOut"} : Once(link'[l])
  BY DEF MatchInv
<1> QED BY <1>1, <1>2, MatchDrop

\* What reading a link leaves on it.
LEMMA AfterRead ==
    ASSUME TypeOK, MatchInv, NEW l \in {"stdin", "up", "childIn", "childOut"}, link[l] # <<>>,
           link'[l] = Tail(link[l])
    PROVE  /\ Once(link'[l]) /\ Held'[l] = Held[l] \ {Head(link[l])}
           /\ Head(link[l]) # Note => Head(link[l]) \in Held[l] /\ Head(link[l]) \in 1..sent
<1>1. l \in Links /\ l \in Places /\ Once(link[l])
  BY LinkFacts DEF Places, MatchInv
<1>2. link[l] \in Seq(LineOn(l))
  BY <1>1 DEF TypeOK
<1>3. /\ Once(Tail(link[l]))
      /\ On(Tail(link[l])) = On(link[l]) \ {Head(link[l])}
      /\ Head(link[l]) # Note => Head(link[l]) \in On(link[l])
  BY <1>1, <1>2, TailOn
<1> QED BY <1>1, <1>3, HeldIs DEF MatchInv

LEMMA AfterWrite ==
    ASSUME TypeOK, MatchInv, NEW l \in {"stdin", "up", "childIn", "childOut"}, NEW x \in LineOn(l),
           x \notin Held[l], link'[l] = Append(link[l], x)
    PROVE  Once(link'[l]) /\ Held'[l] = Held[l] \cup ({x} \ {Note})
<1>1. l \in Links /\ Once(link[l]) /\ Held[l] = On(link[l])
  BY LinkFacts, HeldIs DEF MatchInv
<1>2. link[l] \in Seq(LineOn(l))
  BY <1>1 DEF TypeOK
<1>3. x \notin On(link[l])
  BY <1>1
<1>4. Once(Append(link[l], x)) /\ On(Append(link[l], x)) = On(link[l]) \cup ({x} \ {Note})
  BY <1>1, <1>2, <1>3, AppendOn
<1>5. Held'[l] = On(link'[l])
  BY HeldIs
<1> QED BY <1>1, <1>4, <1>5

\* The steps that move no request.
LEMMA MatchOthers ==
    ASSUME TypeOK, MatchInv,
           \/ ClientCloses \/ ClientReads \/ BridgeStep \/ BridgeReturns \/ HubMainStep
           \/ HubInputEnds \/ HubOutputEnds \/ AppCloses \/ AppExits \/ ServerExits
           \/ UNCHANGED vars
    PROVE  MatchInv'
<1>1. \A l \in {"stdin", "up", "childIn", "childOut"} : link'[l] = link[l]
  <2>1. CASE ClientReads
    BY <2>1 DEF ClientReads, Reads, TypeOK, Links
  <2>2. CASE BridgeReturns
    BY <2>2 DEF BridgeReturns, Moves, TypeOK, Links
  <2>3. CASE UNCHANGED link
    BY <2>3
  <2> QED BY <2>1, <2>2, <2>3 DEF ClientCloses, BridgeStep, BridgeConnects, BridgeGivesUp, BridgeEnds,
        BridgeExits, HubMainStep, HubStartsServer, HubRefuses, HubStops, HubStopWaits, HubCloses,
        HubInputEnds, HubOutputEnds, AppCloses, AppExits, ServerExits, vars
<1>2. UNCHANGED <<sent, pending>> /\ (working' = working \/ working' = {})
  BY DEF ClientCloses, ClientReads, BridgeReturns, BridgeStep, BridgeConnects, BridgeGivesUp, BridgeEnds,
        BridgeExits, HubMainStep, HubStartsServer, HubRefuses, HubStops, HubStopWaits, HubCloses,
        HubInputEnds, HubOutputEnds, AppCloses, AppExits, ServerExits, vars, client, hubVars, serverVars
<1>3. up' = up \/ up'.at # "write"
  BY DEF ClientCloses, ClientReads, BridgeReturns, BridgeStep, BridgeConnects, BridgeGivesUp, BridgeEnds,
        BridgeExits, HubMainStep, HubStartsServer, HubRefuses, HubStops, HubStopWaits, HubCloses,
        HubInputEnds, HubOutputEnds, AppCloses, AppExits, ServerExits, vars, client, hubVars, serverVars
<1> QED BY <1>1, <1>2, <1>3, MatchSame

LEMMA MatchSends ==
    ASSUME TypeOK, MatchInv, ClientSends
    PROVE  MatchInv'
<1>1. PICK x \in {Note, sent + 1} : Writes("stdin", x)
  BY DEF ClientSends
<1>2. sent \in Nat /\ sent' = sent + 1 /\ sent + 1 \in Requests /\ x \in LineOn("stdin")
  <2>1. sent \in 0..MaxLines /\ sent < MaxLines /\ sent' = sent + 1
    BY DEF ClientSends, TypeOK
  <2>2. sent \in Nat /\ sent + 1 \in Requests
    BY <2>1, LinesAssumption DEF Requests
  <2> QED BY <1>1, <2>1, <2>2, LinkFacts
<1>3. link'["stdin"] = Append(link["stdin"], x)
      /\ \A l \in {"up", "childIn", "childOut"} : link'[l] = link[l]
  BY <1>1 DEF Writes, TypeOK, Links
<1>4. \A p \in Places : x \notin Held[p] \/ x = Note
  BY <1>2 DEF MatchInv
<1>5. x \notin Held["stdin"]
  <2>1. Note \notin Held["stdin"]
    BY HeldIs DEF On
  <2> QED BY <1>4, <2>1 DEF Places
<1>6. Once(link'["stdin"]) /\ Held'["stdin"] = Held["stdin"] \cup ({x} \ {Note})
  BY <1>2, <1>3, <1>5, AfterWrite
<1>7. UNCHANGED <<up, working, pending>>
  BY DEF ClientSends, hubVars, serverVars
<1>8. \A p \in Places : p # "stdin" => Held'[p] = Held[p]
  BY <1>3, <1>7, HeldIs DEF Places
<1>9. \A l \in {"stdin", "up", "childIn", "childOut"} : Once(link'[l])
  BY <1>3, <1>6 DEF MatchInv
<1>10. x # Note => x \in 1..sent'
  BY <1>2
<1> QED BY <1>2, <1>4, <1>6, <1>7, <1>8, <1>9, <1>10, MatchStep DEF Places, Registered

LEMMA MatchForwards ==
    ASSUME TypeOK, MatchInv, BridgeForwards
    PROVE  MatchInv'
<1>1. UNCHANGED <<sent, up, working, pending>> /\ sent \in Nat
  BY LinesAssumption DEF BridgeForwards, client, hubVars, serverVars, TypeOK
<1>2. CASE UNCHANGED link
  BY <1>1, <1>2, MatchSame
<1>3. PICK x : x = Head(link["stdin"])
  OBVIOUS
<1>4. CASE link["stdin"] # <<>> /\ Reads("stdin")
  <2>1. link'["stdin"] = Tail(link["stdin"])
        /\ \A l \in {"up", "childIn", "childOut"} : link'[l] = link[l]
    BY <1>4 DEF Reads, TypeOK, Links
  <2>2. Once(link'["stdin"]) /\ Held'["stdin"] \subseteq Held["stdin"]
    BY <1>4, <2>1, AfterRead
  <2>3. \A p \in Places : p # "stdin" => Held'[p] = Held[p]
    BY <1>1, <2>1, HeldIs DEF Places
  <2>4. \A l \in {"stdin", "up", "childIn", "childOut"} : Once(link'[l])
    BY <2>1, <2>2 DEF MatchInv
  <2> QED BY <1>1, <2>2, <2>3, <2>4, MatchStep DEF Places
<1>5. CASE link["stdin"] # <<>> /\ Moves("stdin", "up")
  <2>1. /\ link'["stdin"] = Tail(link["stdin"])
        /\ link'["up"] = Append(link["up"], x)
        /\ \A l \in {"childIn", "childOut"} : link'[l] = link[l]
    BY <1>3, <1>5 DEF Moves, TypeOK, Links
  <2>2. /\ Once(link'["stdin"]) /\ Held'["stdin"] = Held["stdin"] \ {x}
        /\ x # Note => x \in Held["stdin"] /\ x \in 1..sent
    BY <1>3, <1>5, <2>1, AfterRead
  <2>3. \A p \in Places : p # "stdin" /\ x # Note => x \notin Held[p]
    BY <2>2 DEF MatchInv, Places
  <2>4. x \in LineOn("up") /\ x \notin Held["up"]
    <3>1. x \in LineOn("stdin")
      BY <1>3, <1>5, HeadType, LinkFacts DEF TypeOK, LinkType
    <3>2. Note \notin Held["up"]
      BY HeldIs DEF On
    <3> QED BY <2>3, <3>1, <3>2, LinkFacts DEF Places
  <2>5. Once(link'["up"]) /\ Held'["up"] = Held["up"] \cup ({x} \ {Note})
    BY <2>1, <2>4, AfterWrite
  <2>6. \A p \in Places : p \notin {"stdin", "up"} => Held'[p] = Held[p]
    BY <1>1, <2>1, HeldIs DEF Places
  <2>7. \A l \in {"stdin", "up", "childIn", "childOut"} : Once(link'[l])
    BY <2>1, <2>2, <2>5 DEF MatchInv
  <2> QED BY <1>1, <2>2, <2>3, <2>5, <2>6, <2>7, MatchStep DEF Places, Registered
<1> QED BY <1>2, <1>4, <1>5 DEF BridgeForwards
LEMMA MatchUp ==
    ASSUME TypeOK, MatchInv, HubTakes \/ HubMisreads \/ HubForwards
    PROVE  MatchInv'
<1>1. UNCHANGED <<sent, working>> /\ sent \in Nat
  BY LinesAssumption DEF HubTakes, HubMisreads, HubForwards, client, serverVars, TypeOK
<1>2. CASE HubTakes \/ HubMisreads
  <2>1. PICK x : x = Head(link["up"])
    OBVIOUS
  <2>2. link["up"] # <<>> /\ link'["up"] = Tail(link["up"])
        /\ \A l \in {"stdin", "childIn", "childOut"} : link'[l] = link[l]
    BY <1>2 DEF HubTakes, HubMisreads, Reads, TypeOK, Links
  <2>3. /\ Once(link'["up"]) /\ Held'["up"] = Held["up"] \ {x}
        /\ x # Note => x \in Held["up"] /\ x \in 1..sent
    BY <2>1, <2>2, AfterRead
  <2>4. \A p \in Places : p # "up" /\ x # Note => x \notin Held[p]
    BY <2>3 DEF MatchInv, Places
  <2>5. Held["taken"] = {} /\ Held'["taken"] \subseteq {x} \ {Note}
    BY <1>2, <2>1, HeldIs DEF HubTakes, HubMisreads, Reading
  <2>6. \A p \in Places : p \notin {"up", "taken"} => Held'[p] = Held[p]
    BY <1>1, <2>2, HeldIs DEF Places
  <2>7. \A l \in {"stdin", "up", "childIn", "childOut"} : Once(link'[l])
    BY <2>2, <2>3 DEF MatchInv
  <2>8. pending \subseteq pending'
    BY <1>2 DEF HubTakes, HubMisreads
  <2>9. CASE HubTakes
    <3>1. x # Note => x \in pending'
      BY <2>1, <2>9 DEF HubTakes
    <3> QED BY <1>1, <2>3, <2>4, <2>5, <2>6, <2>7, <2>8, <3>1, MatchStep DEF Places
  <2>10. CASE HubMisreads
    <3>1. Held'["taken"] = {}
      BY <2>10, HeldIs DEF HubMisreads
    <3>2. \A p \in Places : Held'[p] \subseteq Held[p]
      BY <2>3, <2>6, <3>1
    <3> QED BY <1>1, <2>7, <2>8, <3>2, MatchDrop
  <2> QED BY <1>2, <2>9, <2>10
<1>3. CASE HubForwards
  <2>1. up'.at # "write" /\ pending' = pending /\ up.at = "write"
    BY <1>3 DEF HubForwards, Reading
  <2>2. CASE UNCHANGED link
    BY <1>1, <2>1, <2>2, MatchSame
  <2>3. CASE Writes("childIn", up.line)
    <3>1. PICK x \in LineOn("childIn") : x = up.line
      BY <2>1, LinkFacts DEF TypeOK, Pump
    <3>2. /\ link'["childIn"] = Append(link["childIn"], x)
          /\ \A l \in {"stdin", "up", "childOut"} : link'[l] = link[l]
      BY <2>3, <3>1 DEF Writes, TypeOK, Links
    <3>3. Held["taken"] = {x} \ {Note} /\ Held'["taken"] = {}
      BY <2>1, <3>1, HeldIs
    <3>4. \A p \in Places : p # "taken" /\ x # Note => x \notin Held[p]
      BY <3>3 DEF MatchInv, Places
    <3>5. x \notin Held["childIn"]
      <4>1. Note \notin Held["childIn"]
        BY HeldIs DEF On
      <4> QED BY <3>4, <4>1 DEF Places
    <3>6. Once(link'["childIn"]) /\ Held'["childIn"] = Held["childIn"] \cup ({x} \ {Note})
      BY <3>2, <3>5, AfterWrite
    <3>7. \A p \in Places : p \notin {"childIn", "taken"} => Held'[p] = Held[p]
      BY <1>1, <3>2, HeldIs DEF Places
    <3>8. \A l \in {"stdin", "up", "childIn", "childOut"} : Once(link'[l])
      BY <3>2, <3>6 DEF MatchInv
    <3>9. x # Note => x \in 1..sent /\ x \in pending
      BY <3>3 DEF MatchInv, Places, Registered
    <3> QED BY <1>1, <2>1, <3>3, <3>4, <3>6, <3>7, <3>8, <3>9, MatchStep DEF Places
  <2> QED BY <1>3, <2>2, <2>3 DEF HubForwards
<1> QED BY <1>2, <1>3

LEMMA MatchServer ==
    ASSUME TypeOK, MatchInv, ServerReads \/ ServerAnswers
    PROVE  MatchInv'
<1>1. UNCHANGED <<sent, up, pending>> /\ sent \in Nat
  BY LinesAssumption DEF ServerReads, ServerAnswers, client, hubVars, TypeOK
<1>2. CASE ServerReads
  <2>1. PICK x : x = Head(link["childIn"])
    OBVIOUS
  <2>2. link["childIn"] # <<>> /\ link'["childIn"] = Tail(link["childIn"])
        /\ \A l \in {"stdin", "up", "childOut"} : link'[l] = link[l]
    BY <1>2 DEF ServerReads, Reads, TypeOK, Links
  <2>3. /\ Once(link'["childIn"]) /\ Held'["childIn"] = Held["childIn"] \ {x}
        /\ x # Note => x \in Held["childIn"] /\ x \in 1..sent
    BY <2>1, <2>2, AfterRead
  <2>4. \A p \in Places : p # "childIn" /\ x # Note => x \notin Held[p]
    BY <2>3 DEF MatchInv, Places
  <2>5. Held'["working"] = Held["working"] \cup ({x} \ {Note})
    BY <1>2, <2>1, HeldIs DEF ServerReads
  <2>6. \A p \in Places : p \notin {"childIn", "working"} => Held'[p] = Held[p]
    BY <1>1, <2>2, HeldIs DEF Places
  <2>7. \A l \in {"stdin", "up", "childIn", "childOut"} : Once(link'[l])
    BY <2>2, <2>3 DEF MatchInv
  <2>8. x # Note => x \in pending
    BY <2>3 DEF MatchInv, Registered
  <2> QED BY <1>1, <2>3, <2>4, <2>5, <2>6, <2>7, <2>8, MatchStep DEF Places
<1>3. CASE ServerAnswers
  <2>1. PICK x \in working : Writes("childOut", x) /\ working' = working \ {x}
    BY <1>3 DEF ServerAnswers
  <2>2. x \in Requests /\ x # Note
    BY <2>1 DEF TypeOK, Requests, Note
  <2>3. /\ link'["childOut"] = Append(link["childOut"], x)
        /\ \A l \in {"stdin", "up", "childIn"} : link'[l] = link[l]
    BY <2>1 DEF Writes, TypeOK, Links
  <2>4. x \in Held["working"] /\ Held'["working"] = Held["working"] \ {x}
    BY <2>1, HeldIs
  <2>5. \A p \in Places : p # "working" => x \notin Held[p]
    BY <2>4 DEF MatchInv, Places
  <2>6. x \in LineOn("childOut") /\ x \notin Held["childOut"]
    BY <2>2, <2>5, LinkFacts DEF Places
  <2>7. Once(link'["childOut"]) /\ Held'["childOut"] = Held["childOut"] \cup ({x} \ {Note})
    BY <2>3, <2>6, AfterWrite
  <2>8. \A p \in Places : p \notin {"childOut", "working"} => Held'[p] = Held[p]
    BY <1>1, <2>3, HeldIs DEF Places
  <2>9. \A l \in {"stdin", "up", "childIn", "childOut"} : Once(link'[l])
    BY <2>3, <2>7 DEF MatchInv
  <2>10. x \in 1..sent /\ x \in pending
    BY <2>4 DEF MatchInv, Registered, Places
  <2> QED BY <1>1, <2>4, <2>5, <2>7, <2>8, <2>9, <2>10, MatchStep DEF Places
<1> QED BY <1>2, <1>3

LEMMA MatchRelays ==
    ASSUME TypeOK, MatchInv, HubRelays
    PROVE  MatchInv'
<1>1. UNCHANGED <<sent, up, working>>
  BY DEF HubRelays, client, serverVars
<1>2. PICK x : x = Head(link["childOut"])
  OBVIOUS
<1>3. /\ link["childOut"] # <<>> /\ link'["childOut"] = Tail(link["childOut"])
      /\ \A l \in {"stdin", "up", "childIn"} : link'[l] = link[l]
      /\ pending' = pending \ {x}
  BY <1>2 DEF HubRelays, Moves, Reads, TypeOK, Links
<1>4. /\ Once(link'["childOut"]) /\ Held'["childOut"] = Held["childOut"] \ {x}
      /\ x # Note => x \in Held["childOut"]
  BY <1>2, <1>3, AfterRead
<1>5. x # Note
  <2>1. x \in LineOn("childOut")
    BY <1>2, <1>3, HeadType, LinkFacts DEF TypeOK, LinkType
  <2>2. x \in Requests
    BY <2>1, LinkFacts
  <2> QED BY <2>2, LinesAssumption DEF Requests, Note
<1>6. \A p \in Places : p # "childOut" => x \notin Held[p] /\ Held'[p] = Held[p]
  <2>1. \A p \in Places : p # "childOut" => x \notin Held[p]
    BY <1>4, <1>5 DEF MatchInv, Places
  <2>2. \A p \in Places : p # "childOut" => Held'[p] = Held[p]
    BY <1>1, <1>3, HeldIs DEF Places
  <2> QED BY <2>1, <2>2
<1>7. \A p \in Places : Held'[p] \subseteq Held[p] \ {x}
  BY <1>4, <1>6 DEF Places
<1>8. \A p \in Registered : p \in Places /\ Held'[p] \subseteq pending'
  BY <1>3, <1>7 DEF MatchInv, Registered, Places
<1>9. \A p, q \in Places : p # q => Held'[p] \cap Held'[q] = {}
  BY <1>7 DEF MatchInv
<1>10. \A p \in Places : Held'[p] \subseteq 1..sent'
  BY <1>1, <1>7 DEF MatchInv
<1>11. \A l \in {"stdin", "up", "childIn", "childOut"} : Once(link'[l])
  BY <1>3, <1>4 DEF MatchInv
<1> QED BY <1>8, <1>9, <1>10, <1>11 DEF MatchInv

\* Every answer on its way to the hub finds its request in the telemetry: the hub
\* registers a request before it forwards it, and no request is answered twice.
THEOREM AnswersFindRequests == Spec => []AnswersAreMatched
<1>1. TypeOK /\ MatchInv /\ [Next]_vars => MatchInv'
  BY MatchOthers, MatchSends, MatchForwards, MatchUp, MatchServer, MatchRelays
     DEF Next, HubUpStep, HubDownStep
<1>2. TypeOK /\ MatchInv => AnswersAreMatched
  <2> SUFFICES ASSUME TypeOK, MatchInv PROVE AnswersAreMatched
    OBVIOUS
  <2>1. Held["childOut"] \subseteq pending /\ Held["working"] \subseteq pending
    BY DEF MatchInv, Registered
  <2>2. link["childOut"] \in Seq(Requests)
    BY LinkFacts DEF TypeOK
  <2>3. \A i \in 1..Len(link["childOut"]) : link["childOut"][i] \in Requests
    BY <2>2, ElementOfSeq
  <2>4. Lines("childOut") \subseteq On(link["childOut"])
    BY <2>3 DEF Lines, On, Requests, Note
  <2> QED BY <2>1, <2>4, HeldIs DEF AnswersAreMatched
<1> QED BY <1>1, <1>2, MatchInit, TypeCorrect, PTL DEF Spec
=============================================================================
