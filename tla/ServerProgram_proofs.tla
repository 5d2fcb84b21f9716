------------------------ MODULE ServerProgram_proofs ------------------------
(***************************************************************************)
(* Type correctness of ServerProgram and its three safety invariants, for  *)
(* any number of browsers, any queues and any load.                        *)
(***************************************************************************)
EXTENDS ServerProgram, FiniteSetTheorems, TLAPS

\* The places where a thread has a target.
Aiming == {"next", "locks", "sends", "pong_locks", "pong_sends"}

\* It has one, then, ...
HasTarget == \A t \in Threads : at[t] \in Aiming => todo[t] # <<>>

\* ... and only connections whose response 101 is out are targets or in clients_.
Before == {"none", "reads", "waits", "shows", "shakes", "adds"}
Entered == \A c \in Conns : at[c] \in Before =>
               /\ \A i \in DOMAIN clients : clients[i] # c
               /\ \A t \in Threads : \A i \in DOMAIN todo[t] : todo[t][i] # c

\* send_mtx
OneSender == \A t, u \in Threads, c \in Conns : SendsTo(t, c) /\ SendsTo(u, c) => t = u

\* The order in which main waits.
Past(places) == main \notin places
OrderInv ==
    /\ Past({"polls", "joins_monitor"}) => ~monitor
    /\ Past({"polls", "joins_monitor", "joins_encoder"}) => encoder = "done" /\ ~previewing
    /\ Past({"polls", "joins_monitor", "joins_encoder", "joins_previewer"}) =>
           Ended(Preview) /\ Ended(Stats)
    /\ main \in {"closes_rest", "joins_rest", "returned"} => ~accepting

\* What WsServer::stop counts on: a client whose thread has started, or is about to, is
\* in clients_, and in the snapshot while main joins, except those in torn.
Adopted == {c \in Conns : at[c] = "starts" \/ thread[c] = "joinable"}
AdoptionInv ==
    /\ Adopted \subseteq Listed \cup torn
    /\ main \in {"joins_clients", "joins_rest"} =>
           /\ Listed \subseteq joining \cup torn
           /\ \A c \in joining : at[c] = "starts" => c \in torn
    /\ main = "returned" => \A c \in Conns \ torn : thread[c] # "joinable"

\* The previewer's threads are not connections.
LEMMA ThreadFacts == /\ Conns \subseteq Threads /\ Stats \in Threads /\ Preview \in Threads
                     /\ Stats \notin Conns /\ Preview \notin Conns /\ Stats # Preview
BY ConnsAssumption DEF Threads, Conns, Stats, Preview

-----------------------------------------------------------------------------
\* At first nobody aims at anybody.
LEMMA InitType == Init => TypeOK /\ HasTarget
<1> SUFFICES ASSUME Init PROVE TypeOK /\ HasTarget
  OBVIOUS
<1>1. clients \in Seq(Conns) /\ todo \in [Threads -> Seq(Conns)]
      /\ version \in Nat /\ enc_q \in 0..EncSize /\ tap_q \in 0..TapSize
  BY QueueAssumption DEF Init, WebInit
<1>2. WebTypeOK
  BY <1>1, Zenon DEF Init, WebInit, WebTypeOK
<1>4. TypeOK
  BY <1>1, <1>2, Zenon DEF Init, TypeOK
<1>3. HasTarget
  BY DEF Init, WebInit, HasTarget, Aiming
<1> QED BY <1>3, <1>4

\* A snapshot, or what is left of one, is given to a thread.
LEMMA BroadcastsType ==
    ASSUME TypeOK, HasTarget, NEW t \in Threads, NEW rest \in Seq(Conns),
           Broadcasts(t, rest)
    PROVE  /\ todo' \in [Threads -> Seq(Conns)]
           /\ at' \in [Threads -> Handling \cup Broadcasting \cup Talking \cup
                                  {"none", "loops", "done"}]
           /\ HasTarget'
<1>1. Back(t) \in {"recvs", "ends", "loops"}
  BY DEF Back, Looping
<1>2. todo' = [todo EXCEPT ![t] = rest]
      /\ at' = [at EXCEPT ![t] = IF rest = <<>> THEN Back(t) ELSE "next"]
  BY DEF Broadcasts, Goes
<1>3. todo \in [Threads -> Seq(Conns)]
      /\ at \in [Threads -> Handling \cup Broadcasting \cup Talking \cup
                            {"none", "loops", "done"}]
  BY DEF TypeOK, WebTypeOK
<1> QED BY <1>1, <1>2, <1>3 DEF HasTarget, Aiming, Broadcasting, Talking

\* The steps of the web server, the two threads of the previewer among them.
WebMoves == \/ AcceptEnds \/ \E t \in Threads : Broadcast(t)
            \/ \E c \in Conns : Accepts(c) \/ Browser(c) \/ Connection(c)

\* A step of a broadcast keeps the types, and goes on only with a target.
LEMMA BroadcastType ==
    ASSUME WebTypeOK, HasTarget, TypeOK, NEW u \in Threads, Broadcast(u)
    PROVE  WebTypeOK' /\ HasTarget'
<1> USE ThreadFacts
<1> USE DEF Goes, CloseFd, Aiming, HasTarget, Broadcasting, Talking, Handling
<1>1. CASE BroadcastNext(u)
  <2>1. todo[u] \in Seq(Conns) /\ Tail(todo[u]) \in Seq(Conns)
    BY <1>1 DEF BroadcastNext, WebTypeOK
  <2>2. CASE alive[Target(u)]
    BY <1>1, <2>2 DEF BroadcastNext, WebTypeOK, netVars, httpVars, wsVars
  <2>3. CASE ~alive[Target(u)]
    BY <1>1, <2>1, <2>3, BroadcastsType DEF BroadcastNext, WebTypeOK, netVars, httpVars, wsVars
  <2> QED BY <2>2, <2>3
<1>2. CASE Locks(u)
  BY <1>2 DEF Locks, WebTypeOK, netVars, httpVars, wsVars
<1>3. CASE Sends(u)
  <2>1. todo[u] \in Seq(Conns) /\ Tail(todo[u]) \in Seq(Conns)
    BY <1>3 DEF Sends, WebTypeOK
  <2> QED BY <1>3, <2>1, BroadcastsType DEF Sends, WebTypeOK, netVars, httpVars, wsVars
<1>4. CASE SendFails(u)
  <2>1. todo[u] \in Seq(Conns) /\ Tail(todo[u]) \in Seq(Conns)
    BY <1>4 DEF SendFails, WebTypeOK
  <2>2. Back(u) \in {"recvs", "ends", "loops"}
    BY DEF Back, Looping
  <2> QED BY <1>4, <2>1, <2>2 DEF SendFails, WebTypeOK, httpVars
<1> QED BY <1>1, <1>2, <1>3, <1>4 DEF Broadcast

\* So does every other step of the web server, ...
LEMMA WebStepType ==
    ASSUME TypeOK, HasTarget, WebMoves
    PROVE  WebTypeOK' /\ HasTarget'
<1> USE ThreadFacts
<1> USE DEF Goes, CloseFd, Aiming, HasTarget, Broadcasting, Talking, Handling
<1> SUFFICES ASSUME WebTypeOK PROVE WebTypeOK' /\ HasTarget'
  BY DEF TypeOK
<1>1. ASSUME NEW c \in Conns, PeerChanges(c) PROVE WebTypeOK' /\ HasTarget'
  BY <1>1 DEF PeerChanges, WebTypeOK, httpVars, wsVars
<1>2. ASSUME NEW c \in Conns, Accepts(c) PROVE WebTypeOK' /\ HasTarget'
  BY <1>2 DEF Accepts, WebTypeOK, httpVars, wsVars
<1>3. CASE AcceptEnds
  BY <1>3 DEF AcceptEnds, WebTypeOK, netVars, wsVars
<1>4. ASSUME NEW c \in Conns, Requests(c) \/ RequestFails(c) PROVE WebTypeOK' /\ HasTarget'
  BY <1>4 DEF Requests, RequestFails, WebTypeOK, httpVars, wsVars
<1>5. ASSUME NEW c \in Conns, ViewerWakes(c) PROVE WebTypeOK' /\ HasTarget'
  <2>1. at' \in [Threads -> Handling \cup Broadcasting \cup Talking \cup
                            {"none", "loops", "done"}] /\ HasTarget'
    BY <1>5 DEF ViewerWakes, WebTypeOK
  <2>2. open' \subseteq Conns
    BY <1>5 DEF ViewerWakes, WebTypeOK
  <2>3. last_version' \in [Conns -> Nat] /\ jpg' \in [Conns -> Nat]
    <3>1. version \in Nat /\ last_version \in [Conns -> Nat] /\ jpg \in [Conns -> Nat]
      BY DEF WebTypeOK
    <3>2. \/ UNCHANGED <<last_version, jpg>>
          \/ /\ last_version' = [last_version EXCEPT ![c] = version]
             /\ jpg' = [jpg EXCEPT ![c] = version]
      BY <1>5 DEF ViewerWakes
    <3> QED BY <3>1, <3>2
  <2> QED BY <1>5, <2>1, <2>2, <2>3 DEF ViewerWakes, WebTypeOK, wsVars
<1>6. ASSUME NEW c \in Conns, ViewerShows(c) PROVE WebTypeOK' /\ HasTarget'
  BY <1>6 DEF ViewerShows, WebTypeOK, httpVars, wsVars
<1>7. ASSUME NEW c \in Conns, Shakes(c) PROVE WebTypeOK' /\ HasTarget'
  BY <1>7 DEF Shakes, WebTypeOK, httpVars
<1>8. ASSUME NEW c \in Conns, AddsClient(c) PROVE WebTypeOK' /\ HasTarget'
  BY <1>8 DEF AddsClient, WebTypeOK, netVars, httpVars
<1>9. ASSUME NEW c \in Conns, ThreadStarts(c) PROVE WebTypeOK' /\ HasTarget'
  BY <1>9 DEF ThreadStarts, Looping, WebTypeOK, netVars, httpVars
<1>10. ASSUME NEW c \in Conns, RecvFails(c) \/ ClientEnds(c) PROVE WebTypeOK' /\ HasTarget'
  BY <1>10 DEF RecvFails, ClientEnds, WebTypeOK, netVars, httpVars, wsVars
<1>11. ASSUME NEW c \in Conns, PongSends(c) PROVE WebTypeOK' /\ HasTarget'
  BY <1>11 DEF PongSends, Looping, WebTypeOK, netVars, httpVars, wsVars
<1>12. ASSUME NEW c \in Conns, Receives(c) PROVE WebTypeOK' /\ HasTarget'
  <2>1. UNCHANGED <<netVars, httpVars, ws_running, clients, thread, version>>
    BY <1>12 DEF Receives
  <2>2. CASE Broadcasts(c, clients) /\ UNCHANGED alive
    BY <2>1, <2>2, BroadcastsType DEF WebTypeOK, netVars, httpVars
  <2>3. CASE /\ Goes(c, "pong_locks") /\ todo' = [todo EXCEPT ![c] = <<c>>]
             /\ UNCHANGED alive
    BY <2>1, <2>3 DEF WebTypeOK, netVars, httpVars
  <2>4. CASE /\ alive' = [alive EXCEPT ![c] = FALSE]
             /\ Goes(c, "ends") /\ UNCHANGED todo
    BY <2>1, <2>4 DEF WebTypeOK, netVars, httpVars
  <2> QED BY <1>12, <2>2, <2>3, <2>4 DEF Receives
<1>13. ASSUME NEW u \in Threads, Broadcast(u) PROVE WebTypeOK' /\ HasTarget'
  BY <1>13, BroadcastType
<1> QED BY <1>1, <1>2, <1>3, <1>4, <1>5, <1>6, <1>7, <1>8, <1>9, <1>10, <1>11, <1>12, <1>13
        DEF WebMoves, Browser, Connection

\* The steps of the program itself: the threads of the previewer, the encoder, main.
LEMMA PreviewerType ==
    ASSUME TypeOK, HasTarget, PreviewLoops \/ StatsLoops
    PROVE  TypeOK' /\ HasTarget'
<1> USE ThreadFacts
<1>1. clients \in Seq(Conns) /\ version \in Nat /\ tap_q \in 0..TapSize
  BY DEF TypeOK, WebTypeOK
<1>2. CASE PreviewLoops
  <2>1. at' \in [Threads -> Handling \cup Broadcasting \cup Talking \cup
                            {"none", "loops", "done"}]
        /\ todo' \in [Threads -> Seq(Conns)] /\ HasTarget'
    <3>1. CASE Broadcasts(Preview, clients)
      BY <1>1, <3>1, BroadcastsType
    <3>2. CASE ~Broadcasts(Preview, clients)
      BY <1>2, <3>2 DEF PreviewLoops, Goes, TypeOK, WebTypeOK, HasTarget, Aiming
    <3> QED BY <3>1, <3>2
  <2>2. version' \in Nat /\ tap_q' \in 0..TapSize
    BY <1>1, <1>2, QueueAssumption DEF PreviewLoops
  <2>3. WebTypeOK'
    BY <1>2, <2>1, <2>2 DEF PreviewLoops, TypeOK, WebTypeOK, netVars, httpVars, wsVars
  <2> QED BY <1>2, <2>1, <2>2, <2>3 DEF PreviewLoops, TypeOK, stopVars
<1>3. CASE StatsLoops
  <2>1. at' \in [Threads -> Handling \cup Broadcasting \cup Talking \cup
                            {"none", "loops", "done"}]
        /\ todo' \in [Threads -> Seq(Conns)] /\ HasTarget'
    <3>1. CASE Broadcasts(Stats, clients)
      BY <1>1, <3>1, BroadcastsType
    <3>2. CASE ~Broadcasts(Stats, clients)
      BY <1>3, <3>2 DEF StatsLoops, Goes, TypeOK, WebTypeOK, HasTarget, Aiming
    <3> QED BY <3>1, <3>2
  <2>2. WebTypeOK'
    BY <1>3, <2>1 DEF StatsLoops, TypeOK, WebTypeOK, netVars, httpVars, wsVars
  <2> QED BY <1>3, <2>1, <2>2 DEF StatsLoops, TypeOK, flowVars, queueVars, stopVars
<1> QED BY <1>2, <1>3

\* ... and every step of the rest of the program.
LEMMA ProgramType ==
    ASSUME TypeOK, HasTarget,
           Main \/ Signal \/ Captures \/ Encoding \/ MonitorEnds
    PROVE  TypeOK' /\ HasTarget'
<1> USE ThreadFacts DEF netVars, httpVars, wsVars, flowVars, queueVars, stopVars
<1>1. ASSUME UNCHANGED webVars PROVE WebTypeOK' /\ HasTarget'
  BY <1>1 DEF webVars, TypeOK, WebTypeOK, HasTarget
<1>2. CASE Signal \/ MonitorEnds
  BY <1>1, <1>2, Zenon DEF Signal, MonitorEnds, TypeOK
<1>3. CASE Captures
  <2>1. enc_q' \in 0..EncSize /\ tap_q' \in 0..TapSize
    BY <1>3, QueueAssumption DEF Captures, TryPush, TypeOK
  <2> QED BY <1>1, <1>3, <2>1, Zenon DEF Captures, TypeOK
<1>4. CASE EncoderPops
  <2>1. enc_q' \in 0..EncSize /\ tap_q' \in 0..TapSize
    BY <1>4, QueueAssumption DEF EncoderPops, TypeOK
  <2>2. encoder' \in {"pops", "opens", "done"}
    BY <1>4 DEF EncoderPops
  <2> QED BY <1>1, <1>4, <2>1, <2>2, Zenon DEF EncoderPops, TypeOK
<1>5. CASE EncoderOpens
  <2>1. WebTypeOK' /\ HasTarget'
    BY <1>5 DEF EncoderOpens, TypeOK, WebTypeOK, HasTarget, Aiming
  <2>2. encoder' \in {"pops", "opens", "done"}
    BY <1>5 DEF EncoderOpens
  <2>3. previewing' \in BOOLEAN /\ opened' \in BOOLEAN /\ g_stop' \in BOOLEAN
    BY <1>5, Zenon DEF EncoderOpens, TypeOK
  <2> QED BY <1>5, <2>1, <2>2, <2>3, Zenon DEF EncoderOpens, TypeOK
<1>6. CASE MainPolls \/ MainJoinsMonitor \/ MainJoinsEncoder
  BY <1>1, <1>6, Zenon DEF MainPolls, MainJoinsMonitor, MainJoinsEncoder, Moves,
                           ClosesQueues, TypeOK
<1>7. CASE MainJoinsPreviewer \/ MainJoinsHttp
  <2>1. WebTypeOK' /\ HasTarget'
    BY <1>7, Zenon DEF MainJoinsPreviewer, MainJoinsHttp, TypeOK, WebTypeOK, HasTarget
  <2> QED BY <1>7, <2>1, Zenon DEF MainJoinsPreviewer, MainJoinsHttp, Moves, TypeOK
<1>8. CASE MainClosesClients
  <2>1. WebTypeOK' /\ HasTarget'
    BY <1>8 DEF MainClosesClients, TypeOK, WebTypeOK, HasTarget
  <2>2. joining' \subseteq Conns /\ torn' \subseteq Conns
    BY <1>8 DEF MainClosesClients, Listed, TypeOK, WebTypeOK
  <2> QED BY <1>8, <2>1, <2>2, Zenon DEF MainClosesClients, Moves, TypeOK
<1>9. CASE MainJoinsClients \/ MainJoinsRest
  <2>1. clients' \in Seq(Conns) /\ thread' \in [Conns -> {"none", "joinable", "joined"}]
        /\ joining' \subseteq Conns
    <3>1. thread \in [Conns -> {"none", "joinable", "joined"}]
      BY DEF TypeOK, WebTypeOK
    <3>2. clients' = <<>> /\ joining' = {}
          /\ thread' = [d \in Conns |-> IF d \in ToJoin THEN "joined" ELSE thread[d]]
      BY <1>9 DEF MainJoinsClients, MainJoinsRest, JoinsClients
    <3> QED BY <3>1, <3>2
  <2>2. http_running' \in BOOLEAN
    BY <1>9, Zenon DEF MainJoinsClients, MainJoinsRest, TypeOK, WebTypeOK
  <2>3. WebTypeOK' /\ HasTarget'
    BY <1>9, <2>1, <2>2, Zenon DEF MainJoinsClients, MainJoinsRest, JoinsClients, TypeOK,
                                   WebTypeOK, HasTarget
  <2> QED BY <1>9, <2>1, <2>3, Zenon DEF MainJoinsClients, MainJoinsRest, Moves,
                                         JoinsClients, TypeOK
<1> QED BY <1>2, <1>3, <1>4, <1>5, <1>6, <1>7, <1>8, <1>9 DEF Main, Encoding

\* The steps of the program, by the lemmas above.
LEMMA NextCases ==
    Next => /\ Running
            /\ \/ Main \/ Signal \/ Captures \/ Encoding \/ MonitorEnds
               \/ PreviewLoops \/ StatsLoops \/ Web(WebMoves)
BY ThreadFacts DEF Next, WebMoves, Web, PreviewThread, StatsThread, Accepting,
                     AcceptsNoMore, BrowserComes

\* Every step keeps the types.
LEMMA NextType == TypeOK /\ HasTarget /\ [Next]_vars => (TypeOK /\ HasTarget)'
<1> SUFFICES ASSUME TypeOK, HasTarget, [Next]_vars PROVE TypeOK' /\ HasTarget'
  OBVIOUS
<1>1. CASE Main \/ Signal \/ Captures \/ Encoding \/ MonitorEnds
  BY <1>1, ProgramType
<1>2. CASE PreviewLoops \/ StatsLoops
  BY <1>2, PreviewerType
<1>3. CASE Web(WebMoves)
  <2>1. WebMoves /\ UNCHANGED <<main, flowVars, joining>>
    BY <1>3 DEF Web
  <2>2. WebTypeOK' /\ HasTarget'
    BY <2>1, WebStepType, ThreadFacts DEF WebMoves
  <2>3. torn' \subseteq Conns
    BY <1>3 DEF Web, TypeOK
  <2> QED BY <2>1, <2>2, <2>3, Zenon DEF TypeOK, flowVars, queueVars
<1>4. CASE UNCHANGED vars
  BY <1>4 DEF vars, webVars, netVars, httpVars, wsVars, flowVars, queueVars, stopVars,
              TypeOK, WebTypeOK, HasTarget
<1> QED BY <1>1, <1>2, <1>3, <1>4, NextCases

\* The state of all threads, connections and queues has its type, whatever comes.
THEOREM TypeCorrect == Spec => []TypeOK
<1>1. Spec => [](TypeOK /\ HasTarget)
  BY InitType, NextType, PTL DEF Spec
<1> QED BY <1>1, PTL

-----------------------------------------------------------------------------
\* A connection nobody has made yet has no thread.
Away == \A c \in Conns : peer[c] = "away" => at[c] = "none"

\* A handler starts only for a browser that comes.
LEMMA AwayStep ==
    ASSUME TypeOK, Away, [Next]_vars
    PROVE  Away'
<1> USE ThreadFacts DEF Away, Goes, TypeOK, WebTypeOK
<1>1. CASE Main \/ Signal \/ Captures \/ EncoderPops \/ MonitorEnds
  <2>1. UNCHANGED <<peer, at>>
    BY <1>1 DEF Main, MainPolls, MainJoinsMonitor, MainJoinsEncoder, MainJoinsPreviewer,
                MainClosesClients, MainJoinsClients, MainJoinsHttp, MainJoinsRest,
                JoinsClients, Signal, Captures, EncoderPops, MonitorEnds, webVars, netVars
  <2> QED BY <2>1
<1>2. CASE EncoderOpens
  BY <1>2 DEF EncoderOpens, netVars
<1>3. CASE PreviewLoops \/ StatsLoops
  BY <1>3 DEF PreviewLoops, StatsLoops, Broadcasts, netVars
<1>4. ASSUME NEW t \in Threads, Broadcast(t) PROVE Away'
  BY <1>4 DEF Broadcast, BroadcastNext, Locks, Sends, SendFails, Broadcasts, netVars
<1>5. ASSUME NEW c \in Conns, Accepts(c) \/ Browser(c) PROVE Away'
  BY <1>5 DEF Accepts, Browser, PeerChanges, Requests, Receives, Broadcasts, netVars
<1>6. ASSUME NEW c \in Conns, Connection(c) PROVE Away'
  BY <1>4, <1>6 DEF Connection, RequestFails, ViewerWakes, ViewerShows, Shakes, AddsClient,
                    ThreadStarts, PongSends, RecvFails, ClientEnds, netVars
<1>7. CASE AcceptEnds
  BY <1>7 DEF AcceptEnds, netVars
<1>8. CASE UNCHANGED vars
  BY <1>8 DEF vars, webVars, netVars
<1> QED BY <1>1, <1>2, <1>3, <1>4, <1>5, <1>6, <1>7, <1>8, NextCases
        DEF Encoding, Web, WebMoves

\* What is in the rest of a snapshot was in it.
LEMMA TailElements ==
    ASSUME NEW s \in Seq(Conns), s # <<>>, NEW i \in DOMAIN Tail(s)
    PROVE  \E j \in DOMAIN s : Tail(s)[i] = s[j]
OBVIOUS

\* An entry of a list with one more is an old one or the new one.
LEMMA AppendElements ==
    ASSUME NEW s \in Seq(Conns), NEW c \in Conns, NEW i \in DOMAIN Append(s, c)
    PROVE  Append(s, c)[i] = c \/ \E j \in DOMAIN s : Append(s, c)[i] = s[j]
<1>1. DOMAIN Append(s, c) = 1..(Len(s) + 1) /\ DOMAIN s = 1..Len(s) /\ Len(s) \in Nat
  OBVIOUS
<1>2. CASE i = Len(s) + 1
  BY <1>2
<1>3. CASE i # Len(s) + 1
  BY <1>1, <1>3
<1> QED BY <1>2, <1>3

\* Nobody in a snapshot that is given to a thread is before the handshake.
LEMMA BroadcastsEntered ==
    ASSUME TypeOK, Entered, NEW u \in Threads, NEW rest \in Seq(Conns),
           \A i \in DOMAIN rest : at[rest[i]] \notin Before,
           at[u] \notin Before, Broadcasts(u, rest), UNCHANGED clients
    PROVE  Entered'
<1>1. todo' = [todo EXCEPT ![u] = rest]
      /\ at' = [at EXCEPT ![u] = IF rest = <<>> THEN Back(u) ELSE "next"]
  BY DEF Broadcasts, Goes
<1>2. Back(u) \in {"recvs", "ends", "loops"}
  BY DEF Back, Looping
<1>3. at \in [Threads -> Handling \cup Broadcasting \cup Talking \cup
                        {"none", "loops", "done"}]
      /\ todo \in [Threads -> Seq(Conns)]
  BY DEF TypeOK, WebTypeOK
<1>4. \A c \in Conns : at'[c] \in Before => c # u /\ at[c] \in Before
  BY <1>1, <1>2, <1>3, ThreadFacts DEF Before
<1> QED BY <1>1, <1>3, <1>4 DEF Entered

\* A thread that is not before the handshake goes on, and no snapshot grows.
LEMMA GoesEntered ==
    ASSUME TypeOK, Entered, NEW u \in Threads, NEW place, Goes(u, place),
           at[u] \in Before \/ place \notin Before,
           UNCHANGED <<clients, todo>>
    PROVE  Entered'
BY ThreadFacts DEF Entered, Goes, TypeOK, WebTypeOK

\* A broadcast shortens its snapshot or drops a client from the list.
LEMMA EnteredBroadcast ==
    ASSUME TypeOK, HasTarget, Entered, NEW u \in Threads, Broadcast(u)
    PROVE  Entered'
<1> USE ThreadFacts
<1>1. todo[u] \in Seq(Conns) /\ todo[u] # <<>> /\ at[u] \notin Before
  BY DEF Broadcast, BroadcastNext, Locks, Sends, SendFails, HasTarget, Aiming, Before,
         TypeOK, WebTypeOK
<1>2. Tail(todo[u]) \in Seq(Conns)
  BY <1>1
<1>3. \A i \in DOMAIN Tail(todo[u]) : at[Tail(todo[u])[i]] \notin Before
  BY <1>1, <1>2, TailElements DEF Entered
<1>4. CASE BroadcastNext(u)
  BY <1>1, <1>2, <1>3, <1>4, BroadcastsEntered, GoesEntered
     DEF BroadcastNext, wsVars, Before
<1>5. CASE Locks(u)
  BY <1>5, GoesEntered DEF Locks, wsVars, Before
<1>6. CASE Sends(u)
  BY <1>1, <1>2, <1>3, <1>6, BroadcastsEntered DEF Sends, wsVars
<1>7. CASE SendFails(u)
  <2>1. Back(u) \in {"recvs", "ends", "loops"}
    BY DEF Back, Looping
  <2>2. todo' = [todo EXCEPT ![u] = Tail(@)] /\ UNCHANGED clients
        /\ \E place \in {"recvs", "ends", "loops", "next"} : at' = [at EXCEPT ![u] = place]
    BY <1>7, <2>1 DEF SendFails, Goes
  <2>3. \A c \in Conns : at'[c] \in Before => c # u /\ at[c] \in Before
    BY <2>2 DEF Before, TypeOK, WebTypeOK
  <2> QED BY <1>3, <2>2, <2>3 DEF Entered, TypeOK, WebTypeOK
<1> QED BY <1>4, <1>5, <1>6, <1>7 DEF Broadcast

\* A connection enters the list when its handshake is over, and aims at itself only then.
LEMMA EnteredConnection ==
    ASSUME TypeOK, HasTarget, Entered, Away, NEW c \in Conns,
           Accepts(c) \/ Browser(c) \/ Connection(c)
    PROVE  Entered'
<1> USE ThreadFacts DEF wsVars, Before
<1>1. CASE PeerChanges(c)
  BY <1>1 DEF PeerChanges, Entered
<1>2. CASE Accepts(c)
  <2>1. at[c] \in Before
    BY <1>2 DEF Accepts, Away
  <2> QED BY <1>2, <2>1, GoesEntered DEF Accepts
<1>3. CASE Requests(c) \/ RequestFails(c)
  BY <1>3, GoesEntered DEF Requests, RequestFails
<1>4. CASE ViewerWakes(c) \/ ViewerShows(c)
  BY <1>4, GoesEntered DEF ViewerWakes, ViewerShows
<1>5. CASE Shakes(c)
  BY <1>5, GoesEntered DEF Shakes
<1>6. CASE AddsClient(c)
  <2>1. \A d \in Conns : at'[d] \in Before => d # c /\ at[d] \in Before
    BY <1>6 DEF AddsClient, Goes, TypeOK, WebTypeOK
  <2>2. \A i \in DOMAIN clients' :
          clients'[i] = c \/ \E j \in DOMAIN clients : clients'[i] = clients[j]
    <3>1. clients \in Seq(Conns) /\ clients' = Append(clients, c)
      BY <1>6 DEF AddsClient, TypeOK, WebTypeOK
    <3> QED BY <3>1, AppendElements
  <2> QED BY <1>6, <2>1, <2>2 DEF AddsClient, Entered
<1>7. CASE ThreadStarts(c)
  <2>1. Looping(c) \notin Before
    BY DEF Looping
  <2> QED BY <1>7, <2>1, GoesEntered DEF ThreadStarts
<1>8. CASE PongSends(c)
  <2>1. /\ clients' = clients /\ todo' = [todo EXCEPT ![c] = <<>>]
        /\ \E place \in {"recvs", "ends"} : at' = [at EXCEPT ![c] = place]
    BY <1>8 DEF PongSends, Goes, Looping
  <2>2. \A d \in Conns : at'[d] \in Before => d # c /\ at[d] \in Before
    BY <2>1 DEF TypeOK, WebTypeOK
  <2> QED BY <2>1, <2>2 DEF Entered, TypeOK, WebTypeOK
<1>9. CASE Receives(c)
  <2>1. at[c] \notin Before /\ clients' = clients /\ clients \in Seq(Conns)
    BY <1>9 DEF Receives, TypeOK, WebTypeOK
  <2>2. CASE Broadcasts(c, clients)
    BY <2>1, <2>2, BroadcastsEntered DEF Entered
  <2>3. CASE Goes(c, "pong_locks") /\ todo' = [todo EXCEPT ![c] = <<c>>]
    <3>1. \A d \in Conns : at'[d] \in Before => d # c /\ at[d] \in Before
      BY <2>3 DEF Goes, TypeOK, WebTypeOK
    <3> QED BY <2>1, <2>3, <3>1 DEF Entered, TypeOK, WebTypeOK
  <2>4. CASE Goes(c, "ends") /\ UNCHANGED todo
    BY <2>1, <2>4, GoesEntered
  <2> QED BY <1>9, <2>2, <2>3, <2>4 DEF Receives
<1>10. CASE RecvFails(c) \/ ClientEnds(c)
  BY <1>10, GoesEntered DEF RecvFails, ClientEnds
<1>11. CASE Broadcast(c)
  BY <1>11, EnteredBroadcast
<1> QED BY <1>1, <1>2, <1>3, <1>4, <1>5, <1>6, <1>7, <1>8, <1>9, <1>10, <1>11
        DEF Browser, Connection

\* Every step keeps targets and list to those.
LEMMA EnteredStep ==
    ASSUME TypeOK, HasTarget, Away, Entered, [Next]_vars
    PROVE  Entered'
<1> USE ThreadFacts
<1>0. clients \in Seq(Conns) /\ \A i \in DOMAIN clients : at[clients[i]] \notin Before
  BY DEF Entered, TypeOK, WebTypeOK
<1>1. CASE MainJoinsClients \/ MainJoinsRest
  BY <1>1 DEF MainJoinsClients, MainJoinsRest, JoinsClients, Entered
<1>2. CASE \/ MainPolls \/ MainJoinsMonitor \/ MainJoinsEncoder \/ MainJoinsPreviewer
           \/ MainClosesClients \/ MainJoinsHttp
           \/ Signal \/ Captures \/ EncoderPops \/ MonitorEnds \/ UNCHANGED vars
  <2>1. UNCHANGED <<at, todo, clients>>
    BY <1>2 DEF MainPolls, MainJoinsMonitor, MainJoinsEncoder, MainJoinsPreviewer,
                MainClosesClients, MainJoinsHttp, Signal, Captures, EncoderPops,
                MonitorEnds, vars, webVars, wsVars
  <2> QED BY <2>1 DEF Entered
<1>3. CASE EncoderOpens
  BY <1>3 DEF EncoderOpens, wsVars, Entered, TypeOK, WebTypeOK
<1>4. CASE PreviewLoops
  <2>1. CASE Broadcasts(Preview, clients)
    <3>1. at[Preview] \notin Before /\ UNCHANGED clients
      BY <1>4 DEF PreviewLoops, wsVars, Before
    <3> QED BY <2>1, <3>1, <1>0, BroadcastsEntered
  <2>2. CASE Goes(Preview, "done") /\ UNCHANGED todo
    BY <1>4, <2>2, GoesEntered DEF PreviewLoops, wsVars, Before
  <2> QED BY <1>4, <2>1, <2>2 DEF PreviewLoops
<1>5. CASE StatsLoops
  <2>1. CASE Broadcasts(Stats, clients)
    <3>1. at[Stats] \notin Before /\ UNCHANGED clients
      BY <1>5 DEF StatsLoops, wsVars, Before
    <3> QED BY <2>1, <3>1, <1>0, BroadcastsEntered
  <2>2. CASE Goes(Stats, "done") /\ UNCHANGED todo
    BY <1>5, <2>2, GoesEntered DEF StatsLoops, wsVars, Before
  <2> QED BY <1>5, <2>1, <2>2 DEF StatsLoops
<1>6. CASE WebMoves
  <2>1. CASE AcceptEnds
    BY <2>1 DEF AcceptEnds, wsVars, Entered
  <2> QED BY <1>6, <2>1, EnteredBroadcast, EnteredConnection DEF WebMoves
<1> QED BY <1>1, <1>2, <1>3, <1>4, <1>5, <1>6, NextCases DEF Main, Encoding, Web

-----------------------------------------------------------------------------
\* Only Locks makes a thread one that sends; a step changes one thread.
LEMMA NoNewSender ==
    ASSUME TypeOK, NEW u \in Threads, NEW place, Goes(u, place),
           place \notin {"sends", "pong_sends"},
           \A t \in Threads \ {u} : todo'[t] = todo[t]
    PROVE  \A t \in Threads, c \in Conns : SendsTo(t, c)' => SendsTo(t, c)
BY DEF Goes, SendsTo, Target, TypeOK, WebTypeOK

\* A thread that takes a new target does not send yet.
LEMMA BroadcastsSenders ==
    ASSUME TypeOK, NEW u \in Threads, NEW rest, Broadcasts(u, rest)
    PROVE  \A t \in Threads, c \in Conns : SendsTo(t, c)' => SendsTo(t, c)
<1> DEFINE place == IF rest = <<>> THEN Back(u) ELSE "next"
<1>1. Goes(u, place) /\ \A t \in Threads \ {u} : todo'[t] = todo[t]
  BY DEF Broadcasts, TypeOK, WebTypeOK
<1>2. place \notin {"sends", "pong_sends"}
  BY DEF Back, Looping
<1> HIDE DEF place
<1> QED BY <1>1, <1>2, NoNewSender

\* No step of a connection but taking send_mtx makes a sender.
LEMMA SendersConnection ==
    ASSUME TypeOK, NEW d \in Conns, Accepts(d) \/ Browser(d) \/ Connection(d), ~Broadcast(d),
           ~Locks(d)
    PROVE  \A t \in Threads, c \in Conns : SendsTo(t, c)' => SendsTo(t, c)
<1> USE ThreadFacts
<1>1. CASE PeerChanges(d)
  BY <1>1 DEF PeerChanges, SendsTo, Target
<1>2. CASE Accepts(d) \/ Requests(d) \/ RequestFails(d)
  BY <1>2, NoNewSender DEF Accepts, Requests, RequestFails
<1>3. CASE ViewerWakes(d) \/ ViewerShows(d) \/ Shakes(d) \/ AddsClient(d)
  BY <1>3, NoNewSender DEF ViewerWakes, ViewerShows, Shakes, AddsClient
<1>4. Looping(d) \in {"recvs", "ends"}
  BY DEF Looping
<1>5. CASE ThreadStarts(d) \/ RecvFails(d) \/ ClientEnds(d)
  BY <1>4, <1>5, NoNewSender DEF ThreadStarts, RecvFails, ClientEnds
<1>6. CASE PongSends(d)
  <2>1. \A t \in Threads \ {d} : todo'[t] = todo[t]
    BY <1>6 DEF PongSends, TypeOK, WebTypeOK
  <2> QED BY <1>4, <1>6, <2>1, NoNewSender DEF PongSends
<1>7. CASE Receives(d)
  <2>1. CASE Broadcasts(d, clients)
    BY <2>1, BroadcastsSenders
  <2>2. CASE Goes(d, "pong_locks") /\ todo' = [todo EXCEPT ![d] = <<d>>]
    <3>1. \A t \in Threads \ {d} : todo'[t] = todo[t]
      BY <2>2 DEF TypeOK, WebTypeOK
    <3> QED BY <2>2, <3>1, NoNewSender
  <2>3. CASE Goes(d, "ends") /\ UNCHANGED todo
    BY <2>3, NoNewSender
  <2> QED BY <1>7, <2>1, <2>2, <2>3 DEF Receives
<1> QED BY <1>1, <1>2, <1>3, <1>5, <1>6, <1>7 DEF Browser, Connection

\* send_mtx is taken only while nobody sends to that client.
LEMMA OneSenderLocks ==
    ASSUME TypeOK, OneSender, NEW u \in Threads, Locks(u)
    PROVE  OneSender'
<1>1. \A t \in Threads : t # u => at'[t] = at[t] /\ todo'[t] = todo[t]
  BY DEF Locks, Goes, TypeOK, WebTypeOK
<1>2. todo'[u] = todo[u] /\ MayLock(Target(u))
  BY DEF Locks
<1>3. \A t \in Threads, c \in Conns :
         SendsTo(t, c)' => \/ t # u /\ SendsTo(t, c)
                           \/ t = u /\ MayLock(c)
  BY <1>1, <1>2 DEF SendsTo, Target
<1> QED BY <1>3 DEF OneSender, MayLock

\* No step of a broadcast but taking send_mtx makes a sender.
LEMMA SendersBroadcast ==
    ASSUME TypeOK, NEW u \in Threads, Broadcast(u), ~Locks(u)
    PROVE  \A t \in Threads, c \in Conns : SendsTo(t, c)' => SendsTo(t, c)
<1>1. CASE BroadcastNext(u)
  <2>1. CASE Broadcasts(u, Tail(todo[u]))
    BY <2>1, BroadcastsSenders
  <2>2. CASE Goes(u, "locks") /\ UNCHANGED todo
    BY <2>2, NoNewSender
  <2> QED BY <1>1, <2>1, <2>2 DEF BroadcastNext
<1>2. CASE Sends(u)
  BY <1>2, BroadcastsSenders DEF Sends
<1>3. CASE SendFails(u)
  <2>1. \A t \in Threads \ {u} : todo'[t] = todo[t]
    BY <1>3 DEF SendFails, TypeOK, WebTypeOK
  <2>2. Back(u) \in {"recvs", "ends", "loops"}
    BY DEF Back, Looping
  <2> QED BY <1>3, <2>1, <2>2, NoNewSender DEF SendFails
<1> QED BY <1>1, <1>2, <1>3 DEF Broadcast

\* Every step keeps one sender to each client.
LEMMA OneSenderStep ==
    ASSUME TypeOK, OneSender, [Next]_vars
    PROVE  OneSender'
<1> USE ThreadFacts
<1> DEFINE NoNew == \A t \in Threads, c \in Conns : SendsTo(t, c)' => SendsTo(t, c)
<1>0. ASSUME NoNew PROVE OneSender'
  BY <1>0 DEF OneSender
<1>1. CASE \/ Main \/ Signal \/ Captures \/ EncoderPops \/ MonitorEnds \/ UNCHANGED vars
           \/ AcceptEnds
  <2>1. UNCHANGED <<at, todo>>
    BY <1>1 DEF Main, MainPolls, MainJoinsMonitor, MainJoinsEncoder, MainJoinsPreviewer,
                MainClosesClients, MainJoinsClients, MainJoinsHttp, MainJoinsRest,
                JoinsClients, Signal, Captures, EncoderPops, MonitorEnds, AcceptEnds,
                vars, webVars
  <2>2. NoNew
    BY <2>1 DEF SendsTo, Target
  <2> QED BY <1>0, <2>2
<1>2. CASE EncoderOpens
  <2>1. NoNew
    BY <1>2 DEF EncoderOpens, SendsTo, Target, TypeOK, WebTypeOK
  <2> QED BY <1>0, <2>1
<1>3. CASE PreviewLoops
  <2>1. NoNew
    BY <1>3, BroadcastsSenders, NoNewSender DEF PreviewLoops
  <2> QED BY <1>0, <2>1
<1>4. CASE StatsLoops
  <2>1. NoNew
    BY <1>4, BroadcastsSenders, NoNewSender DEF StatsLoops
  <2> QED BY <1>0, <2>1
<1>5. ASSUME NEW u \in Threads, Broadcast(u) \/ Locks(u) PROVE OneSender'
  <2>1. CASE Locks(u)
    BY <2>1, OneSenderLocks
  <2>2. CASE ~Locks(u)
    <3>1. NoNew
      BY <1>5, <2>2, SendersBroadcast
    <3> QED BY <1>0, <3>1
  <2> QED BY <2>1, <2>2
<1>6. ASSUME NEW d \in Conns, Accepts(d) \/ Browser(d) \/ Connection(d) PROVE OneSender'
  <2>1. CASE Broadcast(d) \/ Locks(d)
    BY <1>5, <2>1
  <2>2. CASE ~Broadcast(d) /\ ~Locks(d)
    <3>1. NoNew
      BY <1>6, <2>2, SendersConnection
    <3> QED BY <1>0, <3>1
  <2> QED BY <2>1, <2>2
<1> QED BY <1>1, <1>2, <1>3, <1>4, <1>5, <1>6, NextCases DEF Encoding, Web, WebMoves

\* During the handshake a connection is no target, so its handler writes alone.
LEMMA WritersAreOne ==
    ASSUME TypeOK, HasTarget, Entered, OneSender
    PROVE  OneWriter
<1> SUFFICES ASSUME NEW c \in Conns PROVE Cardinality(Writers(c)) <= 1
  BY DEF OneWriter
<1>1. ASSUME NEW t \in Threads, SendsTo(t, c) PROVE at[c] # "shakes"
  <2>1. todo[t] \in Seq(Conns) /\ todo[t] # <<>> /\ Head(todo[t]) = c
    BY <1>1 DEF SendsTo, Target, HasTarget, Aiming, TypeOK, WebTypeOK
  <2>2. 1 \in DOMAIN todo[t] /\ todo[t][1] = c
    BY <2>1
  <2> QED BY <2>2, Zenon DEF Entered, Before
<1>2. \A t, u \in Writers(c) : t = u
  BY <1>1, ThreadFacts DEF Writers, OneSender
<1>3. Writers(c) = {} \/ \E t : Writers(c) = {t}
  BY <1>2
<1> QED BY <1>3, FS_EmptySet, FS_Singleton

\* No two threads ever write to one WebSocket connection.
THEOREM AlwaysOneWriter == Spec => []OneWriter
<1> DEFINE IInv == TypeOK /\ HasTarget /\ Away /\ Entered /\ OneSender
<1>1. Init => IInv
  <2> SUFFICES ASSUME Init PROVE IInv
    OBVIOUS
  <2>1. Away /\ OneSender
    BY ThreadFacts DEF Init, WebInit, Away, OneSender, SendsTo
  <2>2. Entered
    BY ThreadFacts DEF Init, WebInit, Entered
  <2> QED BY <2>1, <2>2, InitType
<1>2. IInv /\ [Next]_vars => IInv'
  BY NextType, AwayStep, EnteredStep, OneSenderStep
<1>3. IInv => OneWriter
  BY WritersAreOne
<1> QED BY <1>1, <1>2, <1>3, PTL DEF Spec

-----------------------------------------------------------------------------
\* What the steps of the web server leave alone.
LEMMA WebFrame ==
    ASSUME TypeOK, WebMoves
    PROVE  /\ accepting' => accepting
           /\ \A t \in {Preview, Stats} : Ended(t) => Ended(t)'
<1> USE ThreadFacts DEF Ended, Goes, httpVars, TypeOK, WebTypeOK
<1>1. CASE AcceptEnds
  BY <1>1 DEF AcceptEnds
<1>2. ASSUME NEW u \in Threads, Broadcast(u)
      PROVE  accepting' = accepting /\ \A t \in {Preview, Stats} : Ended(t) => Ended(t)'
  <2>1. ~Ended(u)
    BY <1>2 DEF Broadcast, BroadcastNext, Locks, Sends, SendFails
  <2>2. \A t \in Threads \ {u} : at'[t] = at[t]
    BY <1>2 DEF Broadcast, BroadcastNext, Locks, Sends, SendFails, Broadcasts
  <2>3. accepting' = accepting
    BY <1>2 DEF Broadcast, BroadcastNext, Locks, Sends, SendFails
  <2> QED BY <2>1, <2>2, <2>3
<1>3. ASSUME NEW c \in Conns, Accepts(c) \/ Browser(c) \/ Connection(c), ~Broadcast(c)
      PROVE  accepting' = accepting /\ \A t \in {Preview, Stats} : Ended(t) => Ended(t)'
  <2>1. \A t \in Threads \ {c} : at'[t] = at[t]
    BY <1>3 DEF Accepts, Browser, PeerChanges, Requests, Receives, Broadcasts, Connection,
                RequestFails, ViewerWakes, ViewerShows, Shakes, AddsClient, ThreadStarts,
                PongSends, RecvFails, ClientEnds
  <2>2. accepting' = accepting
    BY <1>3 DEF Accepts, Browser, PeerChanges, Requests, Receives, Connection,
                RequestFails, ViewerWakes, ViewerShows, Shakes, AddsClient, ThreadStarts,
                PongSends, RecvFails, ClientEnds
  <2> QED BY <2>1, <2>2
<1> QED BY <1>1, <1>2, <1>3 DEF WebMoves

\* main goes on only when what it waits for has ended, and that does not start again.
LEMMA OrderStep ==
    ASSUME TypeOK, OrderInv, [Next]_vars
    PROVE  OrderInv'
<1> USE ThreadFacts DEF OrderInv, Past, flowVars, queueVars, stopVars
<1>1. CASE Signal \/ Captures \/ EncoderPops \/ MonitorEnds
  BY <1>1 DEF Signal, Captures, EncoderPops, MonitorEnds, webVars, httpVars, Ended
<1>2. CASE EncoderOpens
  BY <1>2 DEF EncoderOpens, httpVars, Ended, TypeOK
<1>3. CASE PreviewLoops \/ StatsLoops
  <2>1. /\ accepting' = accepting
        /\ UNCHANGED <<main, monitor, encoder, previewing>>
    BY <1>3 DEF PreviewLoops, StatsLoops, httpVars
  <2>2. ~(Ended(Preview) /\ Ended(Stats))
    BY <1>3 DEF PreviewLoops, StatsLoops, Ended
  <2> QED BY <2>1, <2>2
<1>4. CASE Web(WebMoves)
  <2>1. UNCHANGED <<main, monitor, encoder, previewing>>
    BY <1>4 DEF Web
  <2> QED BY <1>4, <2>1, WebFrame DEF Web
<1>5. CASE MainPolls \/ MainJoinsMonitor \/ MainJoinsEncoder
  BY <1>5 DEF MainPolls, MainJoinsMonitor, MainJoinsEncoder, Moves
<1>6. CASE MainJoinsPreviewer \/ MainJoinsHttp
  BY <1>6 DEF MainJoinsPreviewer, PreviewerEnded, MainJoinsHttp, Moves, Ended, httpVars
<1>7. CASE MainClosesClients
  BY <1>7 DEF MainClosesClients, Moves, Ended, httpVars
<1>8. CASE MainJoinsClients \/ MainJoinsRest
  BY <1>8 DEF MainJoinsClients, MainJoinsRest, JoinsClients, Moves, Ended
<1>9. CASE UNCHANGED vars
  BY <1>9 DEF vars, webVars, httpVars, Ended
<1> QED BY <1>1, <1>2, <1>3, <1>4, <1>5, <1>6, <1>7, <1>8, <1>9, NextCases DEF Main, Encoding

\* A connection begins its thread only in AddsClient, and gets it only in ThreadStarts.
LEMMA AdoptionFrame ==
    ASSUME TypeOK, WebMoves, \A c \in Conns : ~AddsClient(c)
    PROVE  /\ Adopted' \subseteq Adopted /\ clients' = clients
           /\ \A c \in Conns : at'[c] = "starts" => at[c] = "starts"
<1> USE ThreadFacts DEF Goes, wsVars, Adopted, TypeOK, WebTypeOK
<1>1. CASE AcceptEnds
  BY <1>1 DEF AcceptEnds
<1>2. \A t \in Threads : Back(t) # "starts" /\ Looping(t) # "starts"
  BY DEF Back, Looping
<1>3. ASSUME NEW u \in Threads, Broadcast(u)
      PROVE  /\ UNCHANGED <<clients, thread>>
             /\ \A c \in Conns : at'[c] = "starts" => at[c] = "starts"
  BY <1>2, <1>3 DEF Broadcast, BroadcastNext, Locks, Sends, SendFails, Broadcasts
<1>4. ASSUME NEW d \in Conns, ThreadStarts(d)
      PROVE  /\ Adopted' \subseteq Adopted /\ clients' = clients
             /\ \A c \in Conns : at'[c] = "starts" => at[c] = "starts"
  BY <1>2, <1>4 DEF ThreadStarts
<1>5. ASSUME NEW d \in Conns, Accepts(d) \/ Browser(d) \/ Connection(d), ~Broadcast(d),
             ~ThreadStarts(d)
      PROVE  /\ UNCHANGED <<clients, thread>>
             /\ \A c \in Conns : at'[c] = "starts" => at[c] = "starts"
  BY <1>2, <1>5 DEF Accepts, Browser, PeerChanges, Requests, Receives, Broadcasts, Connection,
                    RequestFails, ViewerWakes, ViewerShows, Shakes, PongSends, RecvFails,
                    ClientEnds
<1> QED BY <1>1, <1>3, <1>4, <1>5 DEF WebMoves

\* A step of the web server: a client enters the list before its thread starts, and one
\* that enters while main joins is in torn.
LEMMA AdoptionWeb ==
    ASSUME TypeOK, AdoptionInv, Running, Web(WebMoves)
    PROVE  AdoptionInv'
<1>1. UNCHANGED <<main, joining>> /\ torn \subseteq torn' /\ main # "returned"
  BY DEF Web, Running
<1>2. CASE \E c \in Conns : AddsClient(c)
  <2> PICK c \in Conns : AddsClient(c)
    BY <1>2
  <2>1. /\ clients' = Append(clients, c) /\ clients \in Seq(Conns) /\ thread' = thread
        /\ at[c] = "adds" /\ at'[c] = "starts"
        /\ \A d \in Conns \ {c} : at'[d] = at[d]
    BY ThreadFacts DEF AddsClient, Goes, TypeOK, WebTypeOK
  <2>2. Listed' = Listed \cup {c}
    <3>1. \A i \in DOMAIN clients : i \in DOMAIN clients' /\ clients'[i] = clients[i]
      BY <2>1
    <3>2. Len(clients) + 1 \in DOMAIN clients' /\ clients'[Len(clients) + 1] = c
      BY <2>1
    <3>3. \A i \in DOMAIN clients' : clients'[i] \in Listed \cup {c}
      BY <2>1, AppendElements DEF Listed
    <3> QED BY <3>1, <3>2, <3>3 DEF Listed
  <2>3. main \in {"joins_clients", "joins_rest"} => c \in torn'
    BY <2>1 DEF Web
  <2>4. joining \subseteq Conns
    BY DEF TypeOK
  <2>5. Adopted' \subseteq Adopted \cup {c}
    BY <2>1 DEF Adopted
  <2> QED BY <1>1, <2>1, <2>2, <2>3, <2>4, <2>5 DEF AdoptionInv
<1>3. CASE \A c \in Conns : ~AddsClient(c)
  BY <1>1, <1>3, AdoptionFrame DEF AdoptionInv, Listed, Web, TypeOK
<1> QED BY <1>2, <1>3

\* Every step keeps the clients where stop finds them.
LEMMA AdoptionStep ==
    ASSUME TypeOK, AdoptionInv, [Next]_vars
    PROVE  AdoptionInv'
<1> USE ThreadFacts DEF wsVars, flowVars, stopVars
<1>1. CASE Web(WebMoves) /\ Running
  BY <1>1, AdoptionWeb
<1>2. CASE \/ (Signal \/ Captures \/ Encoding \/ MonitorEnds \/ PreviewLoops \/ StatsLoops)
                 /\ Running
           \/ UNCHANGED vars
  <2>1. UNCHANGED <<main, joining, torn, clients, thread>>
    BY <1>2 DEF Signal, Captures, Encoding, EncoderPops, EncoderOpens, MonitorEnds,
                PreviewLoops, StatsLoops, vars, webVars
  <2>2. \A c \in Conns : at'[c] = at[c]
    BY <1>2 DEF Signal, Captures, Encoding, EncoderPops, EncoderOpens, MonitorEnds,
                PreviewLoops, StatsLoops, Broadcasts, Goes, vars, webVars, TypeOK, WebTypeOK
  <2>3. joining \subseteq Conns /\ Adopted' = Adopted /\ Listed' = Listed
    BY <2>1, <2>2 DEF Adopted, Listed, TypeOK
  <2> QED BY <2>1, <2>2, <2>3 DEF AdoptionInv
<1>3. CASE \/ MainPolls \/ MainJoinsMonitor \/ MainJoinsEncoder \/ MainJoinsPreviewer
           \/ MainJoinsHttp
  BY <1>3 DEF MainPolls, MainJoinsMonitor, MainJoinsEncoder, MainJoinsPreviewer,
              MainJoinsHttp, Moves, webVars, AdoptionInv, Adopted, Listed
<1>4. CASE MainClosesClients
  <2>1. /\ joining' = Listed /\ UNCHANGED <<at, thread, clients>>
        /\ torn' = torn \cup {c \in Conns : at[c] = "starts"}
        /\ main' \in {"joins_clients", "joins_rest"}
    BY <1>4 DEF MainClosesClients, Moves
  <2>2. Listed' = Listed /\ Adopted' = Adopted /\ Listed \subseteq Conns
    BY <2>1 DEF Listed, Adopted, TypeOK, WebTypeOK
  <2> QED BY <2>1, <2>2 DEF AdoptionInv
<1>5. CASE MainJoinsClients \/ MainJoinsRest
  <2>1. /\ clients' = <<>> /\ joining' = {} /\ UNCHANGED <<at, torn>>
        /\ main \in {"joins_clients", "joins_rest"}
        /\ thread' = [c \in Conns |-> IF c \in ToJoin THEN "joined" ELSE thread[c]]
        /\ main' \in {"joins_http", "returned"}
    BY <1>5 DEF MainJoinsClients, MainJoinsRest, JoinsClients, Moves
  <2>2. \A c \in Conns \ torn : c \in Adopted => c \in ToJoin /\ at[c] # "starts"
    BY <2>1 DEF AdoptionInv, Adopted, ToJoin
  <2>3. Adopted' \subseteq torn' /\ Listed' = {}
    BY <2>1, <2>2 DEF Adopted, Listed
  <2> QED BY <2>1, <2>3 DEF AdoptionInv, Adopted
<1> QED BY <1>1, <1>2, <1>3, <1>4, <1>5, NextCases DEF Main

\* At first no client is adopted.
LEMMA InitInvs == Init => OrderInv /\ AdoptionInv
BY ThreadFacts DEF Init, WebInit, OrderInv, Past, AdoptionInv, Adopted

\* No client of which the thread was not joined is destroyed, unless its adoption
\* overlapped with WsServer::stop.
THEOREM AlwaysNoAbort == Spec => []NoAbort
<1> DEFINE IInv == TypeOK /\ HasTarget /\ AdoptionInv
<1>1. Init => IInv
  BY InitType, InitInvs
<1>2. IInv /\ [Next]_vars => IInv'
  BY NextType, AdoptionStep
<1>3. IInv => NoAbort
  BY DEF AdoptionInv, Adopted, NoAbort
<1> QED BY <1>1, <1>2, <1>3, PTL DEF Spec

\* Nothing that main is to wait for is left when it returns.
THEOREM AlwaysNoThreadLeft == Spec => []NoThreadLeft
<1> DEFINE IInv == TypeOK /\ HasTarget /\ OrderInv /\ AdoptionInv
<1>1. Init => IInv
  BY InitType, InitInvs
<1>2. IInv /\ [Next]_vars => IInv'
  BY NextType, OrderStep, AdoptionStep
<1>3. IInv => NoThreadLeft
  BY DEF OrderInv, Past, AdoptionInv, NoThreadLeft
<1> QED BY <1>1, <1>2, <1>3, PTL DEF Spec
=============================================================================
