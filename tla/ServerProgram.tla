--------------------------- MODULE ServerProgram ---------------------------
(***************************************************************************)
(* app/server_main.cpp with web/web_previewer.h over WebServer: capture,   *)
(* the encoding thread, the monitor, the preview and statistics threads,   *)
(* and the order in which main shuts them down.  The queues are counted:   *)
(* what they promise is LossyFifo.  What the encoder sends goes to a       *)
(* transport that never makes it wait; the transport's stop is that of     *)
(* TcpServer or LossSimulator.  A step of main goes from one place where   *)
(* it waits or takes a mutex to the next.                                  *)
(*                                                                         *)
(* Closing a descriptor ends the calls that wait on it, as the code        *)
(* assumes (CloseWakes of TcpServer).                                      *)
(***************************************************************************)
EXTENDS WebServer

CONSTANTS EncSize, TapSize,    \* the 8 and 2 places of enc_q and tap_q
          Load                 \* bound: a browser counts two, a JPEG one

ASSUME QueueAssumption == /\ EncSize \in Nat \ {0} /\ TapSize \in Nat \ {0}
                          /\ Load \in Nat

VARIABLES main,       \* where main is
          g_stop,
          capturing,  \* the capture source runs
          enc_q, tap_q, closed,   \* frames inside; both queues are closed
          encoder,    \* where encode_thread is
          opened,     \* its encoder is open
          monitor,    \* monitor_thread runs
          previewing, \* running_ of the WebPreviewer
          joining,    \* snapshot of WsServer::stop
          torn        \* history: clients whose adoption overlapped with that stop

queueVars == <<enc_q, tap_q, closed>>
flowVars == <<g_stop, capturing, queueVars, encoder, opened, monitor, previewing>>
stopVars == <<joining, torn>>
vars == <<webVars, main, flowVars, stopVars>>

TypeOK ==
    /\ WebTypeOK
    /\ main \in {"polls", "joins_monitor", "joins_encoder", "joins_previewer",
                 "closes_clients", "joins_clients", "joins_http", "closes_rest",
                 "joins_rest", "returned"}
    /\ g_stop \in BOOLEAN /\ capturing \in BOOLEAN
    /\ enc_q \in 0..EncSize /\ tap_q \in 0..TapSize /\ closed \in BOOLEAN
    /\ encoder \in {"pops", "opens", "done"} /\ opened \in BOOLEAN
    /\ monitor \in BOOLEAN /\ previewing \in BOOLEAN
    /\ joining \subseteq Conns /\ torn \subseteq Conns

\* All parts have started.
Init ==
    /\ WebInit
    /\ main = "polls" /\ g_stop = FALSE /\ capturing = TRUE
    /\ enc_q = 0 /\ tap_q = 0 /\ closed = FALSE
    /\ encoder = "pops" /\ opened = FALSE
    /\ monitor = TRUE /\ previewing = FALSE
    /\ joining = {} /\ torn = {}

\* on_signal
Signal == /\ ~g_stop /\ g_stop' = TRUE
          /\ UNCHANGED <<webVars, main, capturing, queueVars, encoder, opened, monitor,
                         previewing, stopVars>>

-----------------------------------------------------------------------------
\* try_push to a queue that drops its oldest element; a closed one refuses.
TryPush(q, size) == IF closed \/ q = size THEN q ELSE q + 1

\* The bound on all that browsers and the capture source do.
Loaded == 2 * Cardinality({c \in Conns : peer[c] # "away"}) + version + tap_q

\* The capture callback.
Captures ==
    /\ capturing /\ Loaded < Load
    /\ tap_q' = TryPush(tap_q, TapSize) /\ enc_q' = TryPush(enc_q, EncSize)
    /\ UNCHANGED <<webVars, main, g_stop, capturing, closed, encoder, opened, monitor,
                   previewing, stopVars>>

\* encode_thread: pop, the broadcast of what it encodes, and the test of g_stop.
EncoderPops ==
    /\ encoder = "pops"
    /\ IF enc_q > 0
       THEN /\ enc_q' = enc_q - 1
            /\ encoder' = IF ~opened THEN "opens" ELSE IF g_stop THEN "done" ELSE "pops"
       ELSE /\ closed
            /\ encoder' = "done" /\ UNCHANGED enc_q
    /\ UNCHANGED <<webVars, main, g_stop, capturing, tap_q, closed, opened, monitor,
                   previewing, stopVars>>

\* At the first frame the previewer starts and the encoder opens.  Either may fail.
EncoderOpens ==
    /\ encoder = "opens"
    /\ \/ /\ previewing' = TRUE
          /\ at' = [at EXCEPT ![Preview] = "loops", ![Stats] = "loops"]
       \/ UNCHANGED <<previewing, at>>
    /\ \/ /\ encoder' = (IF g_stop THEN "done" ELSE "pops")
          /\ opened' = TRUE /\ UNCHANGED g_stop
       \/ encoder' = "done" /\ g_stop' = TRUE /\ UNCHANGED opened
    /\ UNCHANGED <<netVars, httpVars, wsVars, todo, version, main, capturing, queueVars,
                   monitor, stopVars>>

\* monitor_thread looks at g_stop every 100 ms.
MonitorEnds ==
    /\ monitor /\ g_stop
    /\ monitor' = FALSE
    /\ UNCHANGED <<webVars, main, g_stop, capturing, queueVars, encoder, opened,
                   previewing, stopVars>>

-----------------------------------------------------------------------------
\* preview_loop: pop_for with the JPEG into the slot of the MJPEG viewers and the
\* snapshot of its broadcast, or the end after 50 ms when running_ is cleared, which
\* may happen while it is in pop_for.
PreviewLoops ==
    /\ at[Preview] = "loops"
    /\ \/ /\ tap_q > 0
          /\ tap_q' = tap_q - 1
          /\ version' = version + 1
          /\ Broadcasts(Preview, clients)
       \/ /\ ~previewing
          /\ Goes(Preview, "done") /\ UNCHANGED <<tap_q, version, todo>>
    /\ UNCHANGED <<netVars, httpVars, wsVars, main, g_stop, capturing, enc_q, closed,
                   encoder, opened, monitor, previewing, stopVars>>

\* stats_loop: a second or a notification, then the test of running_.
StatsLoops ==
    /\ at[Stats] = "loops"
    /\ IF previewing THEN Broadcasts(Stats, clients)
                     ELSE Goes(Stats, "done") /\ UNCHANGED todo
    /\ UNCHANGED <<netVars, httpVars, wsVars, version, main, flowVars, stopVars>>

-----------------------------------------------------------------------------
Moves(from, to) == main = from /\ main' = to

\* main: g_stop, after a signal or a poll of 500 ms; the queues are closed, ...
ClosesTapOnly == UNCHANGED closed
ClosesQueues == closed' = TRUE

MainPolls ==
    /\ Moves("polls", "joins_monitor") /\ g_stop
    /\ ClosesQueues
    /\ UNCHANGED <<webVars, g_stop, capturing, enc_q, tap_q, encoder, opened, monitor,
                   previewing, stopVars>>

\* ... the monitor's receiver stops and its thread is joined, ...
MainJoinsMonitor ==
    /\ Moves("joins_monitor", "joins_encoder") /\ ~monitor
    /\ UNCHANGED <<webVars, flowVars, stopVars>>

\* ... the encoder's thread is joined, the capture stops, the previewer is told to, ...
MainJoinsEncoder ==
    /\ Moves("joins_encoder", "joins_previewer") /\ encoder = "done"
    /\ capturing' = FALSE /\ previewing' = FALSE
    /\ UNCHANGED <<webVars, g_stop, queueVars, encoder, opened, monitor, stopVars>>

\* ... its two threads are joined; WsServer::stop clears running_, ...
Ended(t) == at[t] \in {"none", "done"}
PreviewEnded == Ended(Preview)
PreviewerEnded == Ended(Preview) /\ Ended(Stats)

MainJoinsPreviewer ==
    /\ Moves("joins_previewer", "closes_clients")
    /\ PreviewerEnded
    /\ ws_running' = FALSE
    /\ UNCHANGED <<netVars, httpVars, clients, alive, thread, at, todo, version, flowVars,
                   stopVars>>

\* ... closes the descriptors of a snapshot of clients_, ...
MainClosesClients ==
    /\ Moves("closes_clients", "joins_clients") \/ Moves("closes_rest", "joins_rest")
    /\ joining' = Listed /\ open' = open \ Listed
    /\ torn' = torn \cup {c \in Conns : at[c] = "starts"}
    /\ UNCHANGED <<peer, httpVars, wsVars, at, todo, version, flowVars>>

\* ... joins their threads as far as they have started and clears clients_; ...
ToJoin == {c \in joining : thread[c] = "joinable"}

JoinsClients == /\ \A c \in ToJoin : at[c] = "done"
                /\ thread' = [c \in Conns |-> IF c \in ToJoin THEN "joined" ELSE thread[c]]
                /\ clients' = <<>> /\ joining' = {}
                /\ UNCHANGED <<netVars, accepting, last_version, jpg, ws_running, alive,
                               at, todo, version, flowVars, torn>>

\* ... HttpServer::stop closes its descriptor ...
MainJoinsClients == /\ Moves("joins_clients", "joins_http")
                    /\ JoinsClients /\ http_running' = FALSE

\* ... and joins the accepting thread, no handler.  After the transport's stop main
\* returns, and ~WsServer stops once more.
MainJoinsHttp ==
    /\ Moves("joins_http", "closes_rest") /\ ~accepting
    /\ ws_running' = FALSE
    /\ UNCHANGED <<netVars, httpVars, clients, alive, thread, at, todo, version, flowVars,
                   stopVars>>
MainJoinsRest == /\ Moves("joins_rest", "returned")
                 /\ JoinsClients /\ UNCHANGED http_running

Main == \/ MainPolls \/ MainJoinsMonitor \/ MainJoinsEncoder \/ MainJoinsPreviewer
        \/ MainClosesClients \/ MainJoinsClients \/ MainJoinsHttp \/ MainJoinsRest

-----------------------------------------------------------------------------
BrowserComes(c) == Loaded + 2 <= Load /\ Accepts(c)

\* A step of the web server.  A client that is entered while main joins those of the
\* snapshot is not one of them.
Web(A) == /\ A
          /\ torn' = IF main \in {"joins_clients", "joins_rest"}
                        THEN torn \cup {c \in Conns : at[c] = "adds" /\ at'[c] = "starts"}
                        ELSE torn
          /\ UNCHANGED <<main, flowVars, joining>>

Encoding == EncoderPops \/ EncoderOpens

PreviewThread == PreviewLoops \/ Web(Broadcast(Preview))
StatsThread == StatsLoops \/ Web(Broadcast(Stats))
Accepting == Web(~http_running /\ AcceptEnds)
\* accept fails while the server runs, as long as it makes a difference.
AcceptsNoMore ==
    /\ http_running /\ Loaded + 2 <= Load /\ \E c \in Conns : peer[c] = "away"
    /\ Web(AcceptEnds)

\* The process ends with main.
Running == main # "returned"
Next == /\ Running
        /\ \/ Main \/ Signal \/ Captures \/ Encoding \/ MonitorEnds
           \/ PreviewThread \/ StatsThread \/ Accepting \/ AcceptsNoMore
           \/ \E c \in Conns : Web(BrowserComes(c) \/ Browser(c) \/ Connection(c))

Spec == Init /\ [][Next]_vars

\* Every thread runs, and the previewer's get send_mtx though others want it too.  What
\* browsers do, frames, signals and an early end of accept_loop are not promised.
FairSpec == /\ Spec
            /\ WF_vars(Running /\ Main) /\ WF_vars(Running /\ Encoding)
            /\ WF_vars(Running /\ MonitorEnds)
            /\ WF_vars(Running /\ PreviewThread) /\ WF_vars(Running /\ StatsThread)
            /\ SF_vars(Running /\ Web(Locks(Preview))) /\ SF_vars(Running /\ Web(Locks(Stats)))
            /\ WF_vars(Running /\ Accepting)
            /\ \A c \in Conns : WF_vars(Running /\ Web(Connection(c)))

-----------------------------------------------------------------------------
\* One thread at a time writes to a WebSocket connection, from the response 101 on:
\* adopt, the preview, the statistics, pongs and echoes never write into each other.
Writers(c) == {t \in Threads : SendsTo(t, c)} \cup {t \in {c} : at[t] = "shakes"}
OneWriter == \A c \in Conns : Cardinality(Writers(c)) <= 1

\* No Client is destroyed with its std::thread not joined, which would end the process:
\* one whose thread has ended is still in clients_ or was joined, unless its adoption
\* overlapped with WsServer::stop.
NoAbort == \A c \in Conns \ torn :
              at[c] = "done" /\ thread[c] = "joinable" => c \in Listed

\* When main returns it has waited for every thread but detached handlers and the
\* clients excluded above; a client adopted between the two stops of WsServer is
\* joined by the second.
NoThreadLeft ==
    main = "returned" =>
        /\ ~monitor /\ encoder = "done" /\ ~accepting
        /\ Ended(Preview) /\ Ended(Stats)
        /\ \A c \in Conns \ torn : thread[c] # "joinable"

\* A shutdown ends, from every state, whether a signal or the encoder caused it, unless
\* a WebSocket client stops reading: the previewer's threads may be sending to it, and
\* main waits for them before it closes any client.
Stuck == \E c \in Listed : c \in open /\ peer[c] = "stalls"
ShutdownEnds == <>[](main # "polls") => <>(main = "returned") \/ []<>Stuck

\* A browser that keeps reading the MJPEG stream is shown the newest JPEG in the end,
\* whatever comes while it waits and while an older one is sent to it.
NewestShown == \A c \in Conns :
    <>[](Running /\ at[c] \in {"waits", "shows"} /\ peer[c] = "reads") =>
        <>[](jpg[c] = version)
=============================================================================
