----------------------------- MODULE TcpServer -----------------------------
(***************************************************************************)
(* transport/tcp_server.h: an accepting thread, a sending thread with a    *)
(* queue for each client, a thread that sends statistics to all of them,   *)
(* the encoder thread that broadcasts, and stop.  A packet is written in   *)
(* two calls of send_all, its length and the rest.                         *)
(*                                                                         *)
(* Descriptor numbers are reused, the lowest free one first.  send reads   *)
(* c->fd, finds the connection that has the number, and waits there while  *)
(* the peer does not read.  An element of a client's queue is counted      *)
(* only.  start is in Init.                                                *)
(***************************************************************************)
EXTENDS Integers, Sequences, FiniteSets, FiniteSetsExt

CONSTANTS NConns,     \* bound: connections that clients make
          QueueSize,  \* the 16 places of a client's queue
          CloseWakes  \* the system: close ends the calls blocked on the socket

ASSUME TcpAssumption == /\ NConns \in Nat
                        /\ QueueSize \in Nat \ {0} /\ CloseWakes \in BOOLEAN

Conns == 1..NConns      \* in the order in which they are accepted
Stats == 0              \* stats_thread_
Threads == Conns \cup {Stats}     \* a connection names its sending thread too
Fds == 1..NConns
Closed == 0                       \* the -1 of a descriptor that is closed
Nobody == -1
Nothing == -1
Garbled == -2          \* a client read a length or a rest in the wrong place

VARIABLES peer,        \* the client at the other end of each connection
          sock,        \* descriptor number -> the connection that has it
          running,     \* running_, and listen_fd_ is open
          accepting,   \* accept_thread_: its place, and what accept returned
          clients,     \* clients_, in order
          fd, alive, queue, queue_closed, send_mtx,  \* fields of each Client
          at,          \* where each sending or statistics thread is
          call,        \* what it is sending
          todo,        \* rest of clients_snapshot
          stop,        \* where stop is
          unread,      \* whose length the client has read and waits for the rest
          used,        \* history: descriptor numbers used before
          reused,      \* history: connections whose number was used before
          late         \* history: clients added after stop closed the others

netVars == <<peer, sock, unread, used, reused>>
serverVars == <<running, accepting, clients, late>>
clientVars == <<fd, alive, queue, queue_closed, send_mtx>>
threadVars == <<at, call, todo>>
vars == <<netVars, serverVars, clientVars, threadVars, stop>>

Idle == [client |-> Nobody, piece |-> 1, fd |-> Closed, on |-> Nobody]

Places == {"none", "waits", "next", "pops", "locks", "enters", "sends", "ends", "done"}
Calls == [client : Conns \cup {Nobody}, piece : 1..2, fd : Fds \cup {Closed},
          on : Conns \cup {Nobody}]

TypeOK ==
    /\ peer \in [Conns -> {"away", "there", "gone"}]
    /\ sock \in [Fds -> Conns \cup {Nobody}]
    /\ running \in BOOLEAN
    /\ accepting \in {"tests", "accepts", "done", "adds"}
    /\ clients \in Seq(Conns) /\ todo \in Seq(Conns)
    /\ fd \in [Conns -> Fds \cup {Closed}]
    /\ alive \in [Conns -> BOOLEAN] /\ queue_closed \in [Conns -> BOOLEAN]
    /\ queue \in [Conns -> 0..QueueSize]
    /\ send_mtx \in [Conns -> Threads \cup {Nobody}]
    /\ at \in [Threads -> Places] /\ call \in [Threads -> Calls]
    /\ stop \in {"idle", "begun", "joins_loops", "joins_senders", "returned"}
    /\ unread \in [Conns -> Threads \cup {Nothing, Garbled}]
    /\ used \subseteq Fds /\ reused \subseteq Conns /\ late \subseteq Conns

Init ==
    /\ peer = [c \in Conns |-> "away"] /\ sock = [f \in Fds |-> Nobody]
    /\ running = TRUE /\ accepting = "tests"
    /\ clients = <<>>
    /\ fd = [c \in Conns |-> Closed] /\ alive = [c \in Conns |-> TRUE]
    /\ queue = [c \in Conns |-> 0] /\ queue_closed = [c \in Conns |-> FALSE]
    /\ send_mtx = [c \in Conns |-> Nobody]
    /\ at = [t \in Threads |-> IF t = Stats THEN "waits" ELSE "none"]
    /\ call = [t \in Threads |-> Idle] /\ todo = <<>>
    /\ stop = "idle"
    /\ unread = [c \in Conns |-> Nothing] /\ used = {} /\ reused = {} /\ late = {}

-----------------------------------------------------------------------------
\* A client goes away, as long as it makes a difference.
PeerGoes(c) ==
    /\ peer[c] = "there"
    /\ (\E f \in Fds : sock[f] = c) \/ (\E t \in Threads : call[t].on = c)
    /\ peer' = [peer EXCEPT ![c] = "gone"]
    /\ UNCHANGED <<sock, unread, used, reused, serverVars, clientVars,
                   threadVars, stop>>

\* accept_loop: the test of running_ and the call of accept.
AcceptTests ==
    /\ accepting = "tests"
    /\ accepting' = IF running THEN "accepts" ELSE "done"
    /\ UNCHANGED <<running, clients, late, netVars, clientVars, threadVars, stop>>

\* A client connects and accept returns the connection; its sending thread starts.
Accepts(c) ==
    LET f == Min({g \in Fds : sock[g] = Nobody})
    IN  /\ accepting = "accepts" /\ peer[c] = "away"
        /\ c = Min({d \in Conns : peer[d] = "away"})
        /\ running \/ ~CloseWakes
        /\ peer' = [peer EXCEPT ![c] = "there"]
        /\ sock' = [sock EXCEPT ![f] = c]
        /\ fd' = [fd EXCEPT ![c] = f]
        /\ at' = [at EXCEPT ![c] = "pops"]
        /\ accepting' = "adds"
        /\ used' = used \cup {f}
        /\ reused' = IF f \in used THEN reused \cup {c} ELSE reused
        /\ UNCHANGED <<unread, running, clients, late, alive, queue,
                       queue_closed, send_mtx, call, todo, stop>>

\* accept fails: once stop has closed the descriptor, and while the server runs for a
\* reason of the system's (too many open files, an aborted connection).
AcceptFails ==
    /\ accepting = "accepts"
    /\ running \/ CloseWakes
    /\ accepting' = "done"
    /\ UNCHANGED <<running, clients, late, netVars, clientVars, threadVars, stop>>

AddsClient ==
    LET c == Max({d \in Conns : peer[d] # "away"}) IN
    /\ accepting = "adds"
    /\ clients' = Append(clients, c)
    /\ late' = IF stop \in {"idle", "begun"} THEN late ELSE late \cup {c}
    /\ accepting' = "tests"
    /\ UNCHANGED <<running, netVars, clientVars, threadVars, stop>>

-----------------------------------------------------------------------------
\* try_push to a queue that drops its oldest element, counted.
Enqueue(q) == IF q < QueueSize THEN q + 1 ELSE q

Listed == {clients[i] : i \in DOMAIN clients}

\* broadcast; the program calls it no more once it calls stop.
Broadcast ==
    /\ stop = "idle"
    /\ queue' = [c \in Conns |-> IF c \in Listed /\ alive[c] /\ ~queue_closed[c]
                                 THEN Enqueue(queue[c]) ELSE queue[c]]
    /\ UNCHANGED <<fd, alive, queue_closed, send_mtx, at, call, todo, netVars,
                   serverVars, stop>>

\* send_loop: the next frame, or the end when the queue is closed and empty.
Pops(c) ==
    /\ at[c] = "pops"
    /\ queue[c] > 0 \/ queue_closed[c]
    /\ IF queue[c] > 0
       THEN /\ at' = [at EXCEPT ![c] = "locks"]
            /\ call' = [call EXCEPT ![c] = [Idle EXCEPT !.client = c]]
            /\ queue' = [queue EXCEPT ![c] = @ - 1]
       ELSE /\ at' = [at EXCEPT ![c] = "ends"]
            /\ UNCHANGED <<call, queue>>
    /\ UNCHANGED <<fd, alive, queue_closed, send_mtx, todo, netVars,
                   serverVars, stop>>

\* close_fd of the clients C: their numbers become free.
CloseFds(C) ==
    /\ sock' = [f \in Fds |-> IF \E c \in C : fd[c] = f THEN Nobody ELSE sock[f]]
    /\ fd' = [c \in Conns |-> IF c \in C THEN Closed ELSE fd[c]]
    /\ UNCHANGED <<peer, unread, used, reused>>

\* The end of send_loop.
Ends(c) ==
    /\ at[c] = "ends"
    /\ at' = [at EXCEPT ![c] = "done"]
    /\ alive' = [alive EXCEPT ![c] = FALSE]
    /\ CloseFds({c})
    /\ UNCHANGED <<queue, queue_closed, send_mtx, call, todo, serverVars, stop>>

-----------------------------------------------------------------------------
\* stats_loop: a wait of a second, the test of running_, the snapshot.
StatsWakes ==
    /\ at[Stats] = "waits"
    /\ IF running
       THEN /\ at' = [at EXCEPT ![Stats] = "next"]
            /\ todo' = clients
       ELSE /\ at' = [at EXCEPT ![Stats] = "done"]
            /\ UNCHANGED todo
    /\ UNCHANGED <<call, netVars, serverVars, clientVars, stop>>

\* The next client of the snapshot; the loop is over after the last one.
StatsNext ==
    /\ at[Stats] = "next"
    /\ IF todo = <<>>
       THEN /\ at' = [at EXCEPT ![Stats] = IF running THEN "waits" ELSE "done"]
            /\ UNCHANGED <<todo, call>>
       ELSE /\ todo' = Tail(todo)
            /\ at' = [at EXCEPT ![Stats] = IF alive[Head(todo)] THEN "locks" ELSE "next"]
            /\ call' = [call EXCEPT ![Stats] = [Idle EXCEPT !.client = Head(todo)]]
    /\ UNCHANGED <<netVars, serverVars, clientVars, stop>>

-----------------------------------------------------------------------------
MayLockAlways(c) == TRUE
MayLock(c) == send_mtx[c] = Nobody

\* send_mtx is taken; the statistics thread looks at alive again.  send_all is
\* called with the value c->fd has: it may be stale when send looks it up.
Locks(t) ==
    LET c == call[t].client
    IN  /\ at[t] = "locks"
        /\ MayLock(c)
        /\ IF t = Stats /\ ~alive[c]
           THEN at' = [at EXCEPT ![t] = "next"] /\ UNCHANGED <<send_mtx, call>>
           ELSE /\ at' = [at EXCEPT ![t] = "enters"]
                /\ send_mtx' = [send_mtx EXCEPT ![c] = t]
                /\ call' = [call EXCEPT ![t].fd = fd[c]]
        /\ UNCHANGED <<fd, alive, queue, queue_closed, todo, netVars,
                       serverVars, stop>>

OnSocket(f) == IF f = Closed THEN Nobody ELSE sock[f]

\* send looks up what has the number ...
Enters(t) ==
    /\ at[t] = "enters"
    /\ OnSocket(call[t].fd) # Nobody
    /\ at' = [at EXCEPT ![t] = "sends"]
    /\ call' = [call EXCEPT ![t].on = OnSocket(call[t].fd)]
    /\ UNCHANGED <<todo, netVars, serverVars, clientVars, stop>>

\* TcpClient::loop at the other end: a length and what belongs to it make a packet.
\* (Its own stop and its queue are not modelled.)
Read(c, t, piece) ==
    CASE unread[c] = Nothing /\ piece = 1 -> t
      [] unread[c] = t /\ piece = 2       -> Nothing
      [] OTHER                            -> Garbled

Unlock(t) == send_mtx' = [send_mtx EXCEPT ![call[t].client] = Nobody]

\* ... and writes, if the peer is there and reads.
Writes(t) ==
    LET on == call[t].on
    IN  /\ at[t] = "sends"
        /\ peer[on] = "there"
        /\ unread' = [unread EXCEPT ![on] = Read(on, t, call[t].piece)]
        /\ IF call[t].piece = 1
           THEN /\ call' = [call EXCEPT ![t] =
                              [client |-> call[t].client, piece |-> 2,
                               fd |-> fd[call[t].client], on |-> Nobody]]
                /\ at' = [at EXCEPT ![t] = "enters"]
                /\ UNCHANGED send_mtx
           ELSE /\ at' = [at EXCEPT ![t] = IF t = Stats THEN "next" ELSE "pops"]
                /\ call' = [call EXCEPT ![t] = Idle]
                /\ Unlock(t)
        /\ UNCHANGED <<peer, sock, used, reused, fd, alive, queue, queue_closed,
                       todo, serverVars, stop>>

\* A send fails: the number is closed, the peer has gone, or the socket was closed
\* meanwhile and the system says so.
Broken(t) ==
    \/ at[t] = "enters" /\ OnSocket(call[t].fd) = Nobody
    \/ at[t] = "sends" /\ \/ peer[call[t].on] = "gone"
                          \/ CloseWakes /\ OnSocket(call[t].fd) # call[t].on

SendFails(t) ==
    /\ t # Stats /\ Broken(t)
    /\ at' = [at EXCEPT ![t] = "ends"]
    /\ call' = [call EXCEPT ![t] = Idle]
    /\ Unlock(t)
    /\ UNCHANGED <<fd, alive, queue, queue_closed, todo, netVars, serverVars, stop>>

StatsFails ==
    LET c == call[Stats].client
    IN  /\ Broken(Stats)
        /\ at' = [at EXCEPT ![Stats] = "next"]
        /\ call' = [call EXCEPT ![Stats] = Idle]
        /\ Unlock(Stats)
        /\ alive' = [alive EXCEPT ![c] = FALSE]
        /\ queue_closed' = [queue_closed EXCEPT ![c] = TRUE]
        /\ CloseFds({c})
        /\ UNCHANGED <<queue, todo, serverVars, stop>>

-----------------------------------------------------------------------------
\* stop: running_ and the descriptor accept waits on go together, nothing can tell
\* which went first; ...
StopBegins == /\ stop = "idle" /\ stop' = "begun"
              /\ running' = FALSE
              /\ UNCHANGED <<accepting, clients, late, netVars, clientVars, threadVars>>

\* ... then, with mtx_, the queues and descriptors of the clients; ...
QueuesLeftOpen(C) == queue_closed
QueuesClosed(C) == [c \in Conns |-> queue_closed[c] \/ c \in C]

StopClosesClients ==
    /\ stop = "begun" /\ stop' = "joins_loops"
    /\ queue_closed' = QueuesClosed(Listed)
    /\ CloseFds(Listed)
    /\ UNCHANGED <<alive, queue, send_mtx, serverVars, threadVars>>

\* ... then it waits for the accepting and the statistics thread ...
StopJoinsLoops ==
    /\ stop = "joins_loops" /\ stop' = "joins_senders"
    /\ accepting = "done" /\ at[Stats] = "done"
    /\ UNCHANGED <<netVars, serverVars, clientVars, threadVars>>

\* ... and for the sending threads of the clients there are by now.
ToJoinAlive == {c \in Listed : alive[c]}
ToJoin == Listed

StopReturns == /\ stop = "joins_senders"
               /\ \A c \in ToJoin : at[c] = "done"
               /\ stop' = "returned"
               /\ clients' = <<>>
               /\ UNCHANGED <<running, accepting, late, netVars, clientVars,
                              threadVars>>

Stopping == StopBegins \/ StopClosesClients \/ StopJoinsLoops \/ StopReturns

Accepting == AcceptTests \/ (~running /\ AcceptFails) \/ AddsClient

Sender(c) == Pops(c) \/ Ends(c) \/ Locks(c) \/ Enters(c) \/ SendFails(c)
StatsLoop == StatsWakes \/ StatsNext \/ Locks(Stats) \/ Enters(Stats) \/ StatsFails

Next == \/ \E c \in Conns : Accepts(c) \/ PeerGoes(c) \/ Sender(c)
        \/ \E t \in Threads : Writes(t)
        \/ Accepting \/ AcceptFails \/ StatsLoop \/ Broadcast \/ Stopping

\* Every thread runs; but a client that is there need not read, nobody has to call
\* stop, clients come and go as they like, and accept need not fail while it waits.
Spec == Init /\ [][Next]_vars
FairSpec == /\ Spec
            /\ WF_vars(Accepting) /\ WF_vars(StatsLoop)
            /\ \A c \in Conns : WF_vars(Sender(c))
            /\ WF_vars(stop # "idle" /\ Stopping)

-----------------------------------------------------------------------------
\* A client reads whole packets, its frames and the statistics one after the
\* other, though two threads write to it, unless its descriptor number was
\* another client's before.
FramesWhole == \A c \in Conns \ reused : unread[c] # Garbled

\* When stop returns no thread of the server is left, not even that of a client
\* that came during stop.
NoThreadLeft ==
    stop = "returned" => /\ accepting = "done" /\ at[Stats] = "done"
                         /\ \A c \in Conns : at[c] \in {"none", "done"}

\* stop returns, from every state and with clients that stopped reading, unless a
\* client was accepted while it was closing the others, and provided that close
\* wakes whoever waits on a socket.
StopEnds == (stop # "idle" /\ CloseWakes) ~> (stop = "returned" \/ late # {})
=============================================================================
