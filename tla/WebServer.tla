----------------------------- MODULE WebServer -----------------------------
(***************************************************************************)
(* web/http_server.h and web/ws_server.h, which share one port: the thread *)
(* that accepts connections, the detached thread that handles each, and    *)
(* the WebSocket server that adopts some of them, reads them in a thread   *)
(* each and sends to all of them.  The slot of the latest JPEG is that of  *)
(* web_previewer.h; who fills it and who broadcasts is in ServerProgram.   *)
(*                                                                         *)
(* A step takes a thread to the next place where it can wait or takes a    *)
(* mutex.  A connection names its threads too: first the handler, then, if *)
(* it is adopted, the client's.  A descriptor is open or closed; that its  *)
(* number is used again, which TcpServer has, is left out, and so are the  *)
(* static pages and the listening mode of WsServer, which nothing uses.    *)
(***************************************************************************)
EXTENDS Integers, Sequences, FiniteSets

CONSTANT NConns          \* bound: connections that browsers make
ASSUME ConnsAssumption == NConns \in Nat

Conns == 1..NConns       \* in the order in which they are accepted
Stats == 0               \* stats_thread_ and thread_ of the WebPreviewer
Preview == -1
Threads == Conns \cup {Stats, Preview}

VARIABLES peer,          \* the browser at the other end
          open,          \* connections whose descriptor is open
          http_running,  \* running_ of HttpServer, and listen_fd_ is open
          accepting,     \* its accept_thread_ runs
          ws_running,    \* running_ of WsServer
          clients,       \* clients_
          alive,         \* Client::alive
          thread,        \* Client::thread, the object
          at,            \* where each thread is
          todo,          \* rest of the snapshot it sends to
          version,       \* sink_.version
          last_version,  \* of the handler of an MJPEG connection
          jpg            \* the version it copied and sends

netVars == <<peer, open>>
httpVars == <<http_running, accepting, last_version, jpg>>
wsVars == <<ws_running, clients, alive, thread>>
webVars == <<netVars, httpVars, wsVars, at, todo, version>>

Handling == {"reads", "waits", "shows", "shakes", "adds", "starts"}
Broadcasting == {"next", "locks", "sends"}
Talking == {"recvs", "pong_locks", "pong_sends", "ends"}

WebTypeOK ==
    /\ peer \in [Conns -> {"away", "reads", "stalls", "gone"}]
    /\ open \subseteq Conns
    /\ http_running \in BOOLEAN /\ accepting \in BOOLEAN /\ ws_running \in BOOLEAN
    /\ clients \in Seq(Conns)
    /\ alive \in [Conns -> BOOLEAN]
    /\ thread \in [Conns -> {"none", "joinable", "joined"}]
    /\ at \in [Threads -> Handling \cup Broadcasting \cup Talking \cup
                          {"none", "loops", "done"}]
    /\ todo \in [Threads -> Seq(Conns)]
    /\ version \in Nat
    /\ last_version \in [Conns -> Nat] /\ jpg \in [Conns -> Nat]

WebInit ==
    /\ peer = [c \in Conns |-> "away"] /\ open = {}
    /\ http_running = TRUE /\ accepting = TRUE
    /\ ws_running = FALSE /\ clients = <<>>
    /\ alive = [c \in Conns |-> TRUE] /\ thread = [c \in Conns |-> "none"]
    /\ at = [t \in Threads |-> "none"] /\ todo = [t \in Threads |-> <<>>]
    /\ version = 0
    /\ last_version = [c \in Conns |-> 0] /\ jpg = [c \in Conns |-> 0]

Goes(t, place) == at' = [at EXCEPT ![t] = place]
CloseFd(c) == open' = open \ {c}
Listed == {clients[i] : i \in DOMAIN clients}

-----------------------------------------------------------------------------
\* A browser stops reading or goes on, or goes away, as long as it makes a difference.
PeerChanges(c) ==
    /\ c \in open
    /\ \/ peer[c] = "reads" /\ peer' = [peer EXCEPT ![c] = "stalls"]
       \/ peer[c] = "stalls" /\ peer' = [peer EXCEPT ![c] = "reads"]
       \/ peer[c] # "gone" /\ peer' = [peer EXCEPT ![c] = "gone"]
    /\ UNCHANGED <<open, httpVars, wsVars, at, todo, version>>

\* accept_loop of HttpServer: a browser connects and its handler starts, ...
Accepts(c) ==
    /\ accepting /\ http_running
    /\ peer[c] = "away" /\ \A d \in Conns : peer[d] = "away" => c <= d
    /\ peer' = [peer EXCEPT ![c] = "reads"] /\ open' = open \cup {c}
    /\ Goes(c, "reads")
    /\ UNCHANGED <<httpVars, wsVars, todo, version>>

\* ... or accept fails: the descriptor is closed, or the system has a reason of its own.
AcceptEnds ==
    /\ accepting
    /\ accepting' = FALSE
    /\ UNCHANGED <<netVars, http_running, last_version, jpg, wsVars, at, todo, version>>

-----------------------------------------------------------------------------
\* handle: the request asks for an upgrade or for the MJPEG stream, or it is dealt with.
Requests(c) ==
    /\ at[c] = "reads" /\ peer[c] = "reads"
    /\ \/ Goes(c, "shakes") /\ UNCHANGED open
       \/ Goes(c, "waits") /\ UNCHANGED open
       \/ Goes(c, "done") /\ CloseFd(c)
    /\ UNCHANGED <<peer, httpVars, wsVars, todo, version>>

\* read_request fails.
RequestFails(c) ==
    /\ at[c] = "reads" /\ peer[c] = "gone"
    /\ Goes(c, "done") /\ CloseFd(c)
    /\ UNCHANGED <<peer, httpVars, wsVars, todo, version>>

\* handle_mjpeg: another version is copied, or running_ is tested after half a second, ...
ViewerWakes(c) ==
    /\ at[c] = "waits"
    /\ \/ /\ version # last_version[c]
          /\ Goes(c, "shows") /\ UNCHANGED open
          /\ last_version' = [last_version EXCEPT ![c] = version]
          /\ jpg' = [jpg EXCEPT ![c] = version]
       \/ /\ version = last_version[c] /\ ~http_running
          /\ Goes(c, "done") /\ CloseFd(c) /\ UNCHANGED <<last_version, jpg>>
    /\ UNCHANGED <<peer, http_running, accepting, wsVars, todo, version>>

\* ... and sent.
ViewerShowsAndMarks(c) ==
    /\ at[c] = "shows" /\ peer[c] # "stalls"
    /\ Goes(c, "waits") /\ UNCHANGED open
    /\ last_version' = [last_version EXCEPT ![c] = version]
    /\ UNCHANGED <<peer, http_running, accepting, jpg, wsVars, todo, version>>
ViewerShows(c) ==
    /\ at[c] = "shows" /\ peer[c] # "stalls"
    /\ \/ http_running /\ Goes(c, "waits") /\ UNCHANGED open
       \/ (~http_running \/ peer[c] = "gone") /\ Goes(c, "done") /\ CloseFd(c)
    /\ UNCHANGED <<peer, httpVars, wsVars, todo, version>>

-----------------------------------------------------------------------------
\* adopt: the response 101 is sent and running_ set, or the connection is closed, ...
Shakes(c) ==
    /\ at[c] = "shakes" /\ peer[c] # "stalls"
    /\ \/ Goes(c, "adds") /\ ws_running' = TRUE /\ UNCHANGED open
       \/ peer[c] = "gone" /\ Goes(c, "done") /\ CloseFd(c) /\ UNCHANGED ws_running
    /\ UNCHANGED <<peer, httpVars, clients, alive, thread, todo, version>>

\* ... it is entered into clients_, ...
AddsClient(c) ==
    /\ at[c] = "adds"
    /\ clients' = Append(clients, c)
    /\ Goes(c, "starts")
    /\ UNCHANGED <<netVars, httpVars, ws_running, alive, thread, todo, version>>

\* client_loop: the test of alive and running_ before each recv.
Looping(c) == IF alive[c] /\ ws_running THEN "recvs" ELSE "ends"

\* ... and its thread starts.
ThreadStarts(c) ==
    /\ at[c] = "starts"
    /\ thread' = [thread EXCEPT ![c] = "joinable"]
    /\ Goes(c, Looping(c))
    /\ UNCHANGED <<netVars, httpVars, ws_running, clients, alive, todo, version>>

-----------------------------------------------------------------------------
Target(t) == Head(todo[t])
SendsTo(t, c) == at[t] \in {"sends", "pong_sends"} /\ Target(t) = c
Back(t) == IF t \in Conns THEN Looping(t) ELSE "loops"

\* broadcast: what is left of the snapshot of clients_; after it a thread returns.
Broadcasts(t, rest) == /\ todo' = [todo EXCEPT ![t] = rest]
                       /\ Goes(t, IF rest = <<>> THEN Back(t) ELSE "next")

\* The next one, unless it is dead, ...
BroadcastNext(t) ==
    /\ at[t] = "next"
    /\ IF alive[Target(t)] THEN Goes(t, "locks") /\ UNCHANGED todo
                           ELSE Broadcasts(t, Tail(todo[t]))
    /\ UNCHANGED <<netVars, httpVars, wsVars, version>>

\* ... send_mtx, which a thread has while it sends, ...
MayLockUnlessPong(c) == \A t \in Threads : SendsTo(t, c) => at[t] = "pong_sends"
MayLock(c) == \A t \in Threads : ~SendsTo(t, c)

Locks(t) ==
    /\ at[t] \in {"locks", "pong_locks"} /\ MayLock(Target(t))
    /\ Goes(t, IF at[t] = "locks" THEN "sends" ELSE "pong_sends")
    /\ UNCHANGED <<netVars, httpVars, wsVars, todo, version>>

\* ... and send_all: a frame can only be written while the browser reads.
Writable(c) == c \in open /\ peer[c] # "stalls"
Broken(c) == c \notin open \/ peer[c] = "gone"

Sends(t) ==
    /\ at[t] = "sends" /\ Writable(Target(t))
    /\ Broadcasts(t, Tail(todo[t]))
    /\ UNCHANGED <<netVars, httpVars, wsVars, version>>

SendFails(t) ==
    /\ at[t] = "sends" /\ Broken(Target(t))
    /\ alive' = [alive EXCEPT ![Target(t)] = FALSE]
    /\ CloseFd(Target(t))
    /\ todo' = [todo EXCEPT ![t] = Tail(@)]
    /\ Goes(t, IF Tail(todo[t]) # <<>> THEN "next"
               ELSE IF Target(t) = t THEN "ends" ELSE Back(t))
    /\ UNCHANGED <<peer, httpVars, ws_running, clients, thread, version>>

\* A pong is sent by the client's own thread, which ignores failures.
PongSends(c) ==
    /\ at[c] = "pong_sends" /\ (Writable(c) \/ Broken(c))
    /\ Goes(c, Looping(c)) /\ todo' = [todo EXCEPT ![c] = <<>>]
    /\ UNCHANGED <<netVars, httpVars, wsVars, version>>

\* client_loop: a message, close, ping, or the text whose echo goes to all (the callback
\* of server_main); others change nothing.
Receives(c) ==
    /\ at[c] = "recvs" /\ c \in open /\ peer[c] \in {"reads", "stalls"}
    /\ \/ /\ alive' = [alive EXCEPT ![c] = FALSE]
          /\ Goes(c, "ends") /\ UNCHANGED todo
       \/ /\ Goes(c, "pong_locks") /\ todo' = [todo EXCEPT ![c] = <<c>>]
          /\ UNCHANGED alive
       \/ Broadcasts(c, clients) /\ UNCHANGED alive
    /\ UNCHANGED <<netVars, httpVars, ws_running, clients, thread, version>>

\* The end of the connection, and of the loop.
RecvFails(c) ==
    /\ at[c] = "recvs" /\ Broken(c)
    /\ Goes(c, "ends")
    /\ UNCHANGED <<netVars, httpVars, wsVars, todo, version>>

ClientEnds(c) ==
    /\ at[c] = "ends"
    /\ Goes(c, "done")
    /\ alive' = [alive EXCEPT ![c] = FALSE]
    /\ CloseFd(c)
    /\ UNCHANGED <<peer, httpVars, ws_running, clients, thread, todo, version>>

-----------------------------------------------------------------------------
\* What a thread does on its own, and what it does when its browser wants something.
Broadcast(t) == BroadcastNext(t) \/ Locks(t) \/ Sends(t) \/ SendFails(t)

Connection(c) ==
    \/ RequestFails(c) \/ ViewerWakes(c) \/ ViewerShows(c)
    \/ Shakes(c) \/ AddsClient(c) \/ ThreadStarts(c)
    \/ Broadcast(c) \/ PongSends(c) \/ RecvFails(c) \/ ClientEnds(c)

Browser(c) == PeerChanges(c) \/ Requests(c) \/ Receives(c)
=============================================================================
