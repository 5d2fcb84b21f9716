-------------------------- MODULE TcpServer_proofs --------------------------
(***************************************************************************)
(* Theorems about TcpServer, for every number of connections and size of   *)
(* the queues, whether close wakes or not.                                 *)
(***************************************************************************)
EXTENDS TcpServer, FiniteSetTheorems, WellFoundedInduction, TLAPS

Accepted == {c \in Conns : peer[c] # "away"}
Engaged(t) == at[t] \in {"locks", "enters", "sends"}
Holding(t) == at[t] \in {"enters", "sends"}

\* Descriptors: a connection that is open has a number of its own.
FdInv == /\ \A c \in Conns : fd[c] # Closed => sock[fd[c]] = c /\ fd[c] \in used
         /\ \A f \in Fds : sock[f] # Nobody => fd[sock[f]] = f

\* A connection has a thread from its accept on; nothing knows of it before.
KnownInv == /\ \A c \in Conns : c \in Accepted <=> at[c] # "none"
            /\ \A c \in Conns \ Accepted : fd[c] = Closed /\ unread[c] = Nothing
            /\ Listed \subseteq Accepted
            /\ \A i \in DOMAIN todo : todo[i] \in Accepted
            /\ \A t \in Threads :
                  /\ Engaged(t) => call[t].client \in Accepted
                  /\ at[t] = "sends" => call[t].on \in Accepted
                  /\ t # Stats /\ Engaged(t) => call[t].client = t
                  /\ at[t] = "locks" => call[t].piece = 1

\* Connections are accepted in order, and listed all but the last.
ListInv == /\ \A c \in Accepted, d \in Conns : d < c => d \in Accepted
           /\ accepting = "adds" => \E c \in Accepted : \A d \in Accepted : d <= c
           /\ stop # "returned" =>
                 \A c \in Accepted : \/ c \in Listed
                                     \/ accepting = "adds" /\ \A d \in Accepted : d <= c

StopInv == /\ stop \in {"joins_senders", "returned"} =>
                 accepting = "done" /\ at[Stats] = "done"
           /\ stop = "returned" => \A c \in Conns : at[c] \in {"none", "done"}

MutexInv == \A t \in Threads : Holding(t) => send_mtx[call[t].client] = t

\* A send goes to the connection of its client, or the number was closed meanwhile
\* and is another's by now.
CallInv == \A t \in Threads :
    LET c == call[t].client
        f == call[t].fd
    IN  /\ Holding(t) => fd[c] \in {Closed, f} /\ (f # Closed => f \in used)
        /\ at[t] = "enters" /\ f # Closed => sock[f] \in {Nobody, c} \cup reused
        /\ at[t] = "sends" => /\ call[t].on = c \/ call[t].on \in reused
                              /\ call[t].on = c \/ fd[c] = Closed

\* A client that read a length waits for the rest of the same packet, whose sender
\* holds the mutex, unless nothing can be written to the client any more.
ReadInv == \A c \in Conns \ reused :
    /\ unread[c] # Garbled
    /\ \A t \in Threads : at[t] = "sends" /\ call[t].on = c =>
          IF call[t].piece = 2 THEN unread[c] = t
                               ELSE unread[c] = Nothing \/ peer[c] = "gone"
    /\ \A t \in Threads : at[t] = "enters" /\ call[t].client = c /\ call[t].piece = 2
                          /\ fd[c] # Closed => unread[c] = t
    /\ \/ unread[c] = Nothing \/ peer[c] = "gone" \/ fd[c] = Closed
       \/ \E t \in Threads : /\ Holding(t) /\ call[t].client = c /\ call[t].piece = 2
                             /\ unread[c] = t

IInv == TypeOK /\ FdInv /\ KnownInv /\ ListInv /\ StopInv /\ MutexInv /\ CallInv /\ ReadInv

\* No number or mark is mistaken for another.
LEMMA ConnFacts ==
    /\ Threads = Conns \cup {Stats} /\ Stats \notin Conns
    /\ Closed \notin Fds /\ Nobody \notin Conns /\ Nobody \notin Threads
    /\ Nothing \notin Threads /\ Garbled \notin Threads /\ Nothing # Garbled
    /\ Conns = Fds /\ \A c \in Conns : c \in Nat
  BY TcpAssumption DEF Threads, Conns, Stats, Closed, Fds, Nobody, Nothing, Garbled

\* The call of a thread that writes nothing.
LEMMA IdleType ==
    /\ Idle \in Calls
    /\ \A c \in Conns : [Idle EXCEPT !.client = c] \in Calls
    /\ \A c \in Conns, k \in 1..2, f \in Fds \cup {Closed} :
          [client |-> c, piece |-> k, fd |-> f, on |-> Nobody] \in Calls
  BY DEF Idle, Calls

\* A client goes away: nothing can be half read by it any more.
LEMMA PeerGoesStep ==
    ASSUME IInv, NEW c \in Conns, PeerGoes(c)
    PROVE  IInv'
<1>1. TypeOK'
  BY ConnFacts DEF IInv, TypeOK, PeerGoes, serverVars, clientVars, threadVars, Listed
<1>2. FdInv'
  BY ConnFacts
     DEF IInv, TypeOK, FdInv, PeerGoes, serverVars, clientVars, threadVars, Listed
<1>3. KnownInv'
  BY ConnFacts
     DEF IInv, TypeOK, KnownInv, Accepted, Engaged, PeerGoes, serverVars, clientVars,
         threadVars, Listed
<1>4. ListInv'
  BY ConnFacts
     DEF IInv, TypeOK, ListInv, KnownInv, Accepted, PeerGoes, serverVars, clientVars,
         threadVars, Listed
<1>5. StopInv'
  BY ConnFacts
     DEF IInv, TypeOK, StopInv, KnownInv, Accepted, PeerGoes, serverVars, clientVars,
         threadVars, Listed
<1>6. MutexInv'
  BY ConnFacts
     DEF IInv, TypeOK, MutexInv, KnownInv, Engaged, Holding, PeerGoes, serverVars,
         clientVars, threadVars, Listed
<1>7. CallInv'
  BY ConnFacts
     DEF IInv, TypeOK, CallInv, KnownInv, FdInv, Holding, Engaged, Accepted,
         PeerGoes, serverVars, clientVars, threadVars, Listed
<1>8. ReadInv'
  BY ConnFacts
     DEF IInv, TypeOK, ReadInv, CallInv, KnownInv, FdInv, MutexInv, Holding, Engaged,
         Accepted, PeerGoes, serverVars, clientVars, threadVars, Listed
<1> QED BY <1>1, <1>2, <1>3, <1>4, <1>5, <1>6, <1>7, <1>8 DEF IInv

\* accept_loop between two accepts: no connection changes.
LEMMA AcceptStep ==
    ASSUME IInv, AcceptTests \/ AcceptFails
    PROVE  IInv'
<1>0. /\ UNCHANGED <<peer, sock, unread, used, reused, fd, send_mtx, clients, todo, at,
                     call, stop>>
      /\ accepting \in {"tests", "accepts"} /\ accepting' \in {"accepts", "done"}
  BY DEF AcceptTests, AcceptFails, netVars, clientVars, threadVars
<1>1. TypeOK'
  BY ConnFacts
     DEF IInv, TypeOK, AcceptTests, AcceptFails, netVars, clientVars, threadVars,
         Listed
<1>2. FdInv'
  BY ConnFacts
     DEF IInv, TypeOK, FdInv, AcceptTests, AcceptFails, netVars, clientVars,
         threadVars, Listed
<1>3. KnownInv'
  BY <1>0, ConnFacts DEF IInv, KnownInv, Accepted, Engaged, Listed
<1>4. ListInv'
  BY ConnFacts
     DEF IInv, TypeOK, ListInv, KnownInv, Accepted, AcceptTests, AcceptFails,
         netVars, clientVars, threadVars, Listed
<1>5. StopInv'
  BY ConnFacts
     DEF IInv, TypeOK, StopInv, KnownInv, Accepted, AcceptTests, AcceptFails,
         netVars, clientVars, threadVars, Listed
<1>6. MutexInv'
  BY ConnFacts
     DEF IInv, TypeOK, MutexInv, KnownInv, Engaged, Holding, AcceptTests,
         AcceptFails, netVars, clientVars, threadVars, Listed
<1>7. CallInv'
  BY ConnFacts
     DEF IInv, TypeOK, CallInv, KnownInv, FdInv, Holding, Engaged, Accepted,
         AcceptTests, AcceptFails, netVars, clientVars, threadVars, Listed
<1>8. ReadInv'
  BY <1>0, ConnFacts
     DEF IInv, ReadInv, CallInv, KnownInv, FdInv, MutexInv, Holding, Engaged,
         Accepted, Listed
<1> QED BY <1>1, <1>2, <1>3, <1>4, <1>5, <1>6, <1>7, <1>8 DEF IInv

\* broadcast touches queues only.
LEMMA BroadcastStep ==
    ASSUME IInv, Broadcast
    PROVE  IInv'
<1>1. TypeOK'
  <2>1. \A q \in 0..QueueSize : Enqueue(q) \in 0..QueueSize
    BY TcpAssumption DEF Enqueue
  <2> QED BY <2>1 DEF IInv, TypeOK, Broadcast, netVars, serverVars
<1>2. FdInv'
  BY ConnFacts DEF IInv, TypeOK, FdInv, Broadcast, Enqueue, netVars, serverVars, Listed
<1>3. KnownInv'
  BY ConnFacts
     DEF IInv, TypeOK, KnownInv, Accepted, Engaged, Broadcast, Enqueue, netVars,
         serverVars, Listed
<1>4. ListInv'
  BY ConnFacts
     DEF IInv, TypeOK, ListInv, KnownInv, Accepted, Broadcast, Enqueue, netVars,
         serverVars, Listed
<1>5. StopInv'
  BY ConnFacts
     DEF IInv, TypeOK, StopInv, KnownInv, Accepted, Broadcast, Enqueue, netVars,
         serverVars, Listed
<1>6. MutexInv'
  BY ConnFacts
     DEF IInv, TypeOK, MutexInv, KnownInv, Engaged, Holding, Broadcast, Enqueue,
         netVars, serverVars, Listed
<1>7. CallInv'
  BY ConnFacts
     DEF IInv, TypeOK, CallInv, KnownInv, FdInv, Holding, Engaged, Accepted,
         Broadcast, Enqueue, netVars, serverVars, Listed
<1>8. ReadInv'
  BY ConnFacts
     DEF IInv, TypeOK, ReadInv, CallInv, KnownInv, FdInv, MutexInv, Holding, Engaged,
         Accepted, Broadcast, Enqueue, netVars, serverVars, Listed
<1> QED BY <1>1, <1>2, <1>3, <1>4, <1>5, <1>6, <1>7, <1>8 DEF IInv

\* A sender takes a frame and aims at its own client.
LEMMA PopsStep ==
    ASSUME IInv, NEW c \in Conns, Pops(c)
    PROVE  IInv'
<1>0. /\ \A u \in Threads \ {c} : at'[u] = at[u] /\ call'[u] = call[u]
      /\ at[c] = "pops" /\ c \in Threads
      /\ \/ at'[c] = "locks" /\ call'[c].client = c /\ call'[c].piece = 1
         \/ at'[c] = "ends"
      /\ UNCHANGED <<peer, sock, unread, used, reused, fd, send_mtx, clients, todo,
                     accepting, stop>>
  BY ConnFacts DEF IInv, TypeOK, Pops, netVars, serverVars, Idle
<1>1. TypeOK'
  <2>1. queue[c] \in 0..QueueSize /\ QueueSize \in Nat
    BY TcpAssumption DEF IInv, TypeOK
  <2>2. queue' \in [Conns -> 0..QueueSize]
    <3>1. CASE queue[c] > 0
      <4>1. queue' = [queue EXCEPT ![c] = @ - 1] /\ queue[c] - 1 \in 0..QueueSize
        BY <2>1, <3>1 DEF Pops
      <4> QED BY <4>1 DEF IInv, TypeOK
    <3>2. CASE ~(queue[c] > 0)
      BY <3>2 DEF Pops, IInv, TypeOK
    <3> QED BY <3>1, <3>2
  <2>3. at' \in [Threads -> Places]
    BY DEF IInv, TypeOK, Pops, Places
  <2>4. call' \in [Threads -> Calls]
    <3>1. [Idle EXCEPT !.client = c] \in Calls /\ call \in [Threads -> Calls]
      BY IdleType DEF IInv, TypeOK
    <3>2. call' = call \/ call' = [call EXCEPT ![c] = [Idle EXCEPT !.client = c]]
      BY DEF Pops
    <3> HIDE DEF Calls
    <3> QED BY <3>1, <3>2
  <2> QED BY <2>2, <2>3, <2>4 DEF IInv, TypeOK, Pops, netVars, serverVars
<1>2. FdInv'
  BY <1>0, ConnFacts DEF IInv, FdInv, Listed
<1>3. KnownInv'
  BY <1>0, ConnFacts DEF IInv, KnownInv, Accepted, Engaged, Listed
<1>4. ListInv'
  BY <1>0, ConnFacts DEF IInv, ListInv, KnownInv, Accepted, Listed
<1>5. StopInv'
  BY <1>0, ConnFacts DEF IInv, StopInv, KnownInv, Accepted, Listed
<1>6. MutexInv'
  BY <1>0, ConnFacts DEF IInv, MutexInv, KnownInv, Engaged, Holding, Listed
<1>7. CallInv'
  BY <1>0, ConnFacts
     DEF IInv, CallInv, KnownInv, FdInv, Holding, Engaged, Accepted, Listed
<1>8. ReadInv'
  BY <1>0, ConnFacts
     DEF IInv, ReadInv, CallInv, KnownInv, FdInv, MutexInv, Holding, Engaged,
         Accepted, Listed
<1> QED BY <1>1, <1>2, <1>3, <1>4, <1>5, <1>6, <1>7, <1>8 DEF IInv

\* A sender ends and closes its descriptor: who still aims at that number fails.
LEMMA EndsStep ==
    ASSUME IInv, NEW c \in Conns, Ends(c)
    PROVE  IInv'
<1>1. TypeOK'
  BY ConnFacts DEF IInv, TypeOK, Ends, CloseFds, serverVars, Places, Listed
<1>2. FdInv'
  BY ConnFacts DEF IInv, TypeOK, FdInv, Ends, CloseFds, serverVars, Places, Listed
<1>3. KnownInv'
  BY ConnFacts
     DEF IInv, TypeOK, KnownInv, Accepted, Engaged, Ends, CloseFds, serverVars,
         Places, Listed
<1>4. ListInv'
  BY ConnFacts
     DEF IInv, TypeOK, ListInv, KnownInv, Accepted, Ends, CloseFds, serverVars,
         Places, Listed
<1>5. StopInv'
  BY ConnFacts
     DEF IInv, TypeOK, StopInv, KnownInv, Accepted, Ends, CloseFds, serverVars,
         Places, Listed
<1>6. MutexInv'
  BY ConnFacts
     DEF IInv, TypeOK, MutexInv, KnownInv, Engaged, Holding, Ends, CloseFds,
         serverVars, Places, Listed
<1>7. CallInv'
  BY ConnFacts
     DEF IInv, TypeOK, CallInv, KnownInv, FdInv, Holding, Engaged, Accepted, Ends,
         CloseFds, serverVars, Places, Listed
<1>8. ReadInv'
  BY ConnFacts
     DEF IInv, TypeOK, ReadInv, CallInv, KnownInv, FdInv, MutexInv, Holding, Engaged,
         Accepted, Ends, CloseFds, serverVars, Places, Listed
<1> QED BY <1>1, <1>2, <1>3, <1>4, <1>5, <1>6, <1>7, <1>8 DEF IInv

\* The statistics thread takes its snapshot of clients that are listed, ...
LEMMA StatsWakesStep ==
    ASSUME IInv, StatsWakes
    PROVE  IInv'
<1>0. /\ \A u \in Threads \ {Stats} : at'[u] = at[u]
      /\ at[Stats] = "waits" /\ Stats \in Threads /\ at'[Stats] \in {"next", "done"}
      /\ todo' \in {todo, clients}
      /\ UNCHANGED <<peer, sock, unread, used, reused, fd, send_mtx, clients, call,
                     accepting, stop>>
  BY ConnFacts DEF IInv, TypeOK, StatsWakes, netVars, serverVars, clientVars
<1>1. TypeOK'
  BY ConnFacts
     DEF IInv, TypeOK, StatsWakes, netVars, serverVars, clientVars, Places, Listed
<1>2. FdInv'
  BY ConnFacts
     DEF IInv, TypeOK, FdInv, StatsWakes, netVars, serverVars, clientVars, Places,
         Listed
<1>3. KnownInv'
  BY ConnFacts
     DEF IInv, TypeOK, KnownInv, Accepted, Engaged, StatsWakes, netVars, serverVars,
         clientVars, Places, Listed
<1>4. ListInv'
  BY ConnFacts
     DEF IInv, TypeOK, ListInv, KnownInv, Accepted, StatsWakes, netVars, serverVars,
         clientVars, Places, Listed
<1>5. StopInv'
  BY ConnFacts
     DEF IInv, TypeOK, StopInv, KnownInv, Accepted, StatsWakes, netVars, serverVars,
         clientVars, Places, Listed
<1>6. MutexInv'
  BY ConnFacts
     DEF IInv, TypeOK, MutexInv, KnownInv, Engaged, Holding, StatsWakes, netVars,
         serverVars, clientVars, Places, Listed
<1>7. CallInv'
  BY ConnFacts
     DEF IInv, TypeOK, CallInv, KnownInv, FdInv, Holding, Engaged, Accepted,
         StatsWakes, netVars, serverVars, clientVars, Places, Listed
<1>8. ReadInv'
  BY <1>0, ConnFacts
     DEF IInv, ReadInv, CallInv, KnownInv, FdInv, MutexInv, Holding, Engaged,
         Accepted, Listed
<1> QED BY <1>1, <1>2, <1>3, <1>4, <1>5, <1>6, <1>7, <1>8 DEF IInv

\* ... and aims at the first one left.
LEMMA StatsNextStep ==
    ASSUME IInv, StatsNext
    PROVE  IInv'
<1>0. /\ \A u \in Threads \ {Stats} : at'[u] = at[u] /\ call'[u] = call[u]
      /\ at[Stats] = "next" /\ Stats \in Threads
      /\ \/ at'[Stats] \in {"waits", "next", "done"}
         \/ /\ at'[Stats] = "locks" /\ todo # <<>>
            /\ call'[Stats].client = Head(todo) /\ call'[Stats].piece = 1
      /\ todo' = todo \/ (todo # <<>> /\ todo' = Tail(todo))
      /\ UNCHANGED <<peer, sock, unread, used, reused, fd, send_mtx, clients,
                     accepting, stop>>
  <2>1. /\ at \in [Threads -> Places] /\ call \in [Threads -> Calls] /\ Stats \in Threads
        /\ at[Stats] = "next"
        /\ UNCHANGED <<peer, sock, unread, used, reused, fd, send_mtx, clients,
                       accepting, stop>>
    BY ConnFacts DEF IInv, TypeOK, StatsNext, netVars, serverVars, clientVars
  <2>2. CASE todo = <<>>
    BY <2>1, <2>2 DEF StatsNext
  <2>3. CASE todo # <<>>
    BY <2>1, <2>3 DEF StatsNext, Idle
  <2> QED BY <2>1, <2>2, <2>3
<1>1. TypeOK'
  <2>1. todo # <<>> => Head(todo) \in Conns /\ Tail(todo) \in Seq(Conns)
    BY DEF IInv, TypeOK
  <2>2. at' \in [Threads -> Places] /\ call' \in [Threads -> Calls] /\ todo' \in Seq(Conns)
    BY <2>1, IdleType DEF IInv, TypeOK, StatsNext, Places
  <2> QED BY <2>2 DEF IInv, TypeOK, StatsNext, netVars, serverVars, clientVars
<1>2. FdInv'
  BY <1>0, ConnFacts DEF IInv, FdInv, Listed
<1>3. KnownInv'
  <2>1. todo \in Seq(Conns) /\ \A i \in DOMAIN todo : todo[i] \in Accepted
    BY DEF IInv, TypeOK, KnownInv
  <2>2. todo # <<>> => /\ Head(todo) \in Accepted
                       /\ \A i \in DOMAIN Tail(todo) : Tail(todo)[i] \in Accepted
    <3>1. ASSUME todo # <<>>
          PROVE  /\ Head(todo) = todo[1] /\ 1 \in DOMAIN todo
                 /\ \A i \in DOMAIN Tail(todo) : Tail(todo)[i] = todo[i + 1]
                                                /\ i + 1 \in DOMAIN todo
      BY <2>1, <3>1
    <3> QED BY <2>1, <3>1
  <2>3. \A i \in DOMAIN todo' : todo'[i] \in Accepted
    BY <1>0, <2>1, <2>2
  <2>4. Accepted' = Accepted
    BY <1>0 DEF Accepted
  <2>5. ASSUME NEW u \in Threads
        PROVE  /\ Engaged(u)' => call'[u].client \in Accepted
               /\ at'[u] = "sends" => call'[u].on \in Accepted
               /\ u # Stats /\ Engaged(u)' => call'[u].client = u
               /\ at'[u] = "locks" => call'[u].piece = 1
    BY <1>0, <2>2 DEF IInv, KnownInv, Engaged
  <2>6. /\ \A c \in Conns : c \in Accepted <=> at'[c] # "none"
        /\ \A c \in Conns \ Accepted : fd'[c] = Closed /\ unread'[c] = Nothing
        /\ Listed' \subseteq Accepted
    BY <1>0, ConnFacts DEF IInv, KnownInv, Listed
  <2> HIDE DEF Engaged
  <2> QED BY <2>3, <2>4, <2>5, <2>6 DEF KnownInv
<1>4. ListInv'
  BY <1>0, ConnFacts DEF IInv, ListInv, KnownInv, Accepted, Listed
<1>5. StopInv'
  BY <1>0, ConnFacts DEF IInv, StopInv, KnownInv, Accepted, Listed
<1>6. MutexInv'
  BY <1>0, ConnFacts DEF IInv, MutexInv, KnownInv, Engaged, Holding, Listed
<1>7. CallInv'
  BY <1>0, ConnFacts
     DEF IInv, CallInv, KnownInv, FdInv, Holding, Engaged, Accepted, Listed
<1>8. ReadInv'
  BY <1>0, ConnFacts
     DEF IInv, ReadInv, CallInv, KnownInv, FdInv, MutexInv, Holding, Engaged,
         Accepted, Listed
<1> QED BY <1>1, <1>2, <1>3, <1>4, <1>5, <1>6, <1>7, <1>8 DEF IInv

\* A thread gets send_mtx and reads the descriptor: no packet is half read then.
LEMMA LocksStep ==
    ASSUME IInv, NEW t \in Threads, Locks(t)
    PROVE  IInv'
<1>0. LET c == call[t].client IN
      /\ \A u \in Threads \ {t} : at'[u] = at[u] /\ call'[u] = call[u]
      /\ at[t] = "locks" /\ call'[t].client = c /\ call'[t].piece = call[t].piece
      /\ c \in Conns /\ send_mtx[c] = Nobody
      /\ \/ at'[t] = "next" /\ send_mtx' = send_mtx /\ t = Stats
         \/ /\ at'[t] = "enters" /\ call'[t].fd = fd[c]
            /\ send_mtx'[c] = t /\ \A d \in Conns \ {c} : send_mtx'[d] = send_mtx[d]
      /\ UNCHANGED <<peer, sock, unread, used, reused, fd, clients, todo, accepting, stop>>
  <2>1. call[t].client \in Conns
    BY DEF IInv, KnownInv, Engaged, Accepted, Locks
  <2>2. /\ at \in [Threads -> Places] /\ call \in [Threads -> Calls]
        /\ send_mtx \in [Conns -> Threads \cup {Nobody}]
    BY DEF IInv, TypeOK
  <2> QED BY <2>1, <2>2 DEF Locks, MayLock, netVars, serverVars, Calls
<1>1. TypeOK'
  <2>1. call[t].client \in Conns /\ call[t] \in Calls
    BY DEF IInv, KnownInv, TypeOK, Engaged, Accepted, Locks
  <2>2. fd[call[t].client] \in Fds \cup {Closed}
    BY <2>1 DEF IInv, TypeOK
  <2>3. at' \in [Threads -> Places] /\ send_mtx' \in [Conns -> Threads \cup {Nobody}]
    BY <2>1 DEF IInv, TypeOK, Locks, Places
  <2>4. call' \in [Threads -> Calls]
    <3>1. [call[t] EXCEPT !.fd = fd[call[t].client]] \in Calls
      BY <2>1, <2>2 DEF Calls
    <3>2. call' = call
          \/ call' = [call EXCEPT ![t] = [call[t] EXCEPT !.fd = fd[call[t].client]]]
      BY DEF Locks, IInv, TypeOK
    <3> QED BY <3>1, <3>2 DEF IInv, TypeOK
  <2> QED BY <2>3, <2>4 DEF IInv, TypeOK, Locks, netVars, serverVars
<1>2. FdInv'
  BY <1>0, ConnFacts DEF IInv, FdInv, Listed
<1>3. KnownInv'
  BY <1>0, ConnFacts DEF IInv, KnownInv, Accepted, Engaged, Listed
<1>4. ListInv'
  BY <1>0, ConnFacts DEF IInv, ListInv, KnownInv, Accepted, Listed
<1>5. StopInv'
  BY <1>0, ConnFacts DEF IInv, StopInv, KnownInv, Accepted, Listed
<1>6. MutexInv'
  <2>1. ASSUME NEW u \in Threads, u # t, Holding(u)
        PROVE  call[u].client # call[t].client /\ call[u].client \in Conns
    BY <1>0, <2>1, ConnFacts DEF IInv, MutexInv, KnownInv, Engaged, Holding, Accepted
  <2>2. ASSUME NEW u \in Threads, u # t, Holding(u)' PROVE send_mtx'[call'[u].client] = u
    <3>1. Holding(u) /\ call'[u] = call[u]
      BY <1>0, <2>2 DEF Holding
    <3>2. send_mtx[call[u].client] = u
      BY <3>1 DEF IInv, MutexInv
    <3> QED BY <1>0, <2>1, <2>2, <3>1, <3>2
  <2>3. Holding(t)' => send_mtx'[call'[t].client] = t
    BY <1>0, ConnFacts DEF Holding
  <2> HIDE DEF Holding
  <2> QED BY <2>2, <2>3 DEF MutexInv
<1>7. CallInv'
  BY <1>0, ConnFacts
     DEF IInv, CallInv, KnownInv, FdInv, Holding, Engaged, Accepted, Listed
<1>8. ReadInv'
  BY <1>0, ConnFacts
     DEF IInv, ReadInv, CallInv, KnownInv, FdInv, MutexInv, Holding, Engaged,
         Accepted, Listed
<1> QED BY <1>1, <1>2, <1>3, <1>4, <1>5, <1>6, <1>7, <1>8 DEF IInv

\* The number is looked up: it is the client's, or reused, or the send fails.
LEMMA EntersStep ==
    ASSUME IInv, NEW t \in Threads, Enters(t)
    PROVE  IInv'
<1>0. LET c == call[t].client
          f == call[t].fd
      IN
      /\ \A u \in Threads \ {t} : at'[u] = at[u] /\ call'[u] = call[u]
      /\ at[t] = "enters" /\ at'[t] = "sends"
      /\ call'[t].client = c /\ call'[t].piece = call[t].piece /\ call'[t].fd = f
      /\ f # Closed /\ f \in Fds /\ call'[t].on = sock[f] /\ sock[f] # Nobody
      /\ sock[f] \in Conns
      /\ UNCHANGED <<peer, sock, unread, used, reused, fd, send_mtx, clients, todo,
                     accepting, stop>>
  <2>1. /\ at \in [Threads -> Places] /\ call \in [Threads -> Calls]
        /\ sock \in [Fds -> Conns \cup {Nobody}] /\ call[t].fd \in Fds \cup {Closed}
    BY DEF IInv, TypeOK, Calls
  <2> QED BY <2>1 DEF Enters, OnSocket, netVars, serverVars, clientVars, Calls
<1>1. TypeOK'
  <2>1. OnSocket(call[t].fd) \in Conns /\ call[t] \in Calls
    BY <1>0 DEF IInv, TypeOK, OnSocket
  <2>2. at' \in [Threads -> Places] /\ call' \in [Threads -> Calls]
    BY <2>1 DEF IInv, TypeOK, Enters, Places, Calls
  <2> QED BY <2>2 DEF IInv, TypeOK, Enters, netVars, serverVars, clientVars
<1>2. FdInv'
  BY <1>0, ConnFacts DEF IInv, FdInv, Listed
<1>3. KnownInv'
  <2>1. sock[call[t].fd] \in Accepted
    BY <1>0 DEF IInv, KnownInv, FdInv
  <2> QED BY <1>0, <2>1, ConnFacts DEF IInv, KnownInv, Accepted, Engaged, Listed
<1>4. ListInv'
  BY <1>0, ConnFacts DEF IInv, ListInv, KnownInv, Accepted, Listed
<1>5. StopInv'
  BY <1>0, ConnFacts DEF IInv, StopInv, KnownInv, Accepted, Listed
<1>6. MutexInv'
  BY <1>0, ConnFacts DEF IInv, MutexInv, KnownInv, Engaged, Holding, Listed
<1>7. CallInv'
  BY <1>0, ConnFacts
     DEF IInv, CallInv, KnownInv, FdInv, Holding, Engaged, Accepted, Listed
<1>8. ReadInv'
  BY <1>0, ConnFacts
     DEF IInv, ReadInv, CallInv, KnownInv, FdInv, MutexInv, Holding, Engaged,
         Accepted, Listed
<1> QED BY <1>1, <1>2, <1>3, <1>4, <1>5, <1>6, <1>7, <1>8 DEF IInv

\* A piece arrives: it follows the piece of the same thread, or the number was reused.
LEMMA WritesStep ==
    ASSUME IInv, NEW t \in Threads, Writes(t)
    PROVE  IInv'
<1>0. LET c  == call[t].client
          on == call[t].on
      IN
      /\ \A u \in Threads \ {t} : at'[u] = at[u] /\ call'[u] = call[u]
      /\ at[t] = "sends" /\ peer[on] = "there" /\ on \in Conns /\ c \in Conns
      /\ unread'[on] = Read(on, t, call[t].piece)
      /\ \A d \in Conns \ {on} : unread'[d] = unread[d]
      /\ \/ /\ call[t].piece = 1 /\ at'[t] = "enters" /\ send_mtx' = send_mtx
            /\ call'[t].client = c /\ call'[t].piece = 2 /\ call'[t].fd = fd[c]
         \/ /\ call[t].piece = 2 /\ at'[t] = IF t = Stats THEN "next" ELSE "pops"
            /\ \A d \in Conns \ {c} : send_mtx'[d] = send_mtx[d]
      /\ UNCHANGED <<peer, sock, used, reused, fd, clients, todo, accepting, stop>>
  <2>1. call[t].client \in Conns /\ call[t].on \in Conns
    BY DEF IInv, KnownInv, Engaged, Accepted, Writes
  <2>2. /\ at \in [Threads -> Places] /\ call \in [Threads -> Calls]
        /\ send_mtx \in [Conns -> Threads \cup {Nobody}]
        /\ unread \in [Conns -> Threads \cup {Nothing, Garbled}]
    BY DEF IInv, TypeOK
  <2>3. call[t].piece \in 1..2
    BY <2>2 DEF Calls
  <2>4. CASE call[t].piece = 1
    BY <2>1, <2>2, <2>4 DEF Writes, serverVars, Idle
  <2>5. CASE call[t].piece # 1
    BY <2>1, <2>2, <2>3, <2>5 DEF Writes, Unlock, serverVars
  <2> QED BY <2>4, <2>5
<1>1. TypeOK'
  <2>1. call[t] \in Calls /\ call[t].client \in Conns /\ call[t].on \in Conns
    BY <1>0 DEF IInv, TypeOK
  <2>2. fd[call[t].client] \in Fds \cup {Closed}
    BY <2>1 DEF IInv, TypeOK
  <2>3. call' \in [Threads -> Calls]
    <3>1. CASE call[t].piece = 1
      <4> DEFINE next == [client |-> call[t].client, piece |-> 2,
                       fd |-> fd[call[t].client], on |-> Nobody]
      <4>1. next \in Calls
        <5>1. 2 \in 1..2
          OBVIOUS
        <5> QED BY <2>1, <2>2, <5>1, IdleType
      <4>2. call' = [call EXCEPT ![t] = next]
        BY <3>1 DEF Writes, IInv, TypeOK
      <4> HIDE DEF next
      <4> QED BY <4>1, <4>2 DEF IInv, TypeOK
    <3>2. CASE call[t].piece # 1
      BY <3>2, IdleType DEF IInv, TypeOK, Writes
    <3> QED BY <3>1, <3>2
  <2>4. at' \in [Threads -> Places] /\ send_mtx' \in [Conns -> Threads \cup {Nobody}]
    BY <2>1 DEF IInv, TypeOK, Writes, Unlock, Places
  <2>5. unread' \in [Conns -> Threads \cup {Nothing, Garbled}]
    BY <2>1 DEF IInv, TypeOK, Writes, Read
  <2> QED BY <2>3, <2>4, <2>5 DEF IInv, TypeOK, Writes, serverVars
<1>2. FdInv'
  BY <1>0, ConnFacts DEF IInv, FdInv, Listed
<1>3. KnownInv'
  BY <1>0, ConnFacts DEF IInv, KnownInv, Accepted, Engaged, Listed
<1>4. ListInv'
  BY <1>0, ConnFacts DEF IInv, ListInv, KnownInv, Accepted, Listed
<1>5. StopInv'
  BY <1>0, ConnFacts DEF IInv, StopInv, KnownInv, Accepted, Listed
<1>6. MutexInv'
  <2>1. ASSUME NEW u \in Threads, u # t, Holding(u)
        PROVE  call[u].client # call[t].client /\ call[u].client \in Conns
    BY <1>0, <2>1, ConnFacts DEF IInv, MutexInv, KnownInv, Engaged, Holding, Accepted
  <2>2. ASSUME NEW u \in Threads, u # t, Holding(u)' PROVE send_mtx'[call'[u].client] = u
    <3>1. Holding(u) /\ call'[u] = call[u]
      BY <1>0, <2>2 DEF Holding
    <3>2. send_mtx[call[u].client] = u
      BY <3>1 DEF IInv, MutexInv
    <3> QED BY <1>0, <2>1, <2>2, <3>1, <3>2
  <2>3. Holding(t)' => send_mtx'[call'[t].client] = t
    BY <1>0, ConnFacts DEF Holding, IInv, MutexInv
  <2> HIDE DEF Holding
  <2> QED BY <2>2, <2>3 DEF MutexInv
<1>7. CallInv'
  BY <1>0, ConnFacts
     DEF IInv, CallInv, KnownInv, FdInv, Holding, Engaged, Accepted, Listed
<1>8. ReadInv'
  <2> DEFINE on == call[t].on
             c  == call[t].client
  <2>0. /\ CallInv /\ MutexInv /\ KnownInv /\ ReadInv /\ Holding(t) /\ FdInv
        /\ t # Nothing /\ t # Garbled /\ t \in Threads
    BY <1>0, ConnFacts DEF IInv, Holding
  <2>1. ASSUME NEW d \in Conns \ reused, d # on, NEW u \in Threads,
               Holding(u)', call'[u].client = d, u = t
        PROVE  fd[d] = Closed
    BY <1>0, <2>0, <2>1 DEF CallInv, Holding
  <2>2. ASSUME NEW d \in Conns \ reused, d # on PROVE
          /\ unread'[d] # Garbled
          /\ \A u \in Threads : at'[u] = "sends" /\ call'[u].on = d =>
                IF call'[u].piece = 2 THEN unread'[d] = u
                                      ELSE unread'[d] = Nothing \/ peer'[d] = "gone"
          /\ \A u \in Threads : at'[u] = "enters" /\ call'[u].client = d
                                /\ call'[u].piece = 2 /\ fd'[d] # Closed => unread'[d] = u
          /\ \/ unread'[d] = Nothing \/ peer'[d] = "gone" \/ fd'[d] = Closed
             \/ \E u \in Threads : /\ Holding(u)' /\ call'[u].client = d
                                   /\ call'[u].piece = 2 /\ unread'[d] = u
    <3>1. unread'[d] = unread[d] /\ peer'[d] = peer[d] /\ fd'[d] = fd[d]
      BY <1>0, <2>2
    <3>2. c = d => fd[d] = Closed
      BY <1>0, <2>0, <2>2 DEF CallInv
    <3> QED BY <1>0, <2>0, <2>2, <3>1, <3>2 DEF ReadInv, Holding
  <2>3. ASSUME on \notin reused PROVE
          /\ unread'[on] # Garbled
          /\ \A u \in Threads : at'[u] = "sends" /\ call'[u].on = on =>
                IF call'[u].piece = 2 THEN unread'[on] = u
                                      ELSE unread'[on] = Nothing \/ peer'[on] = "gone"
          /\ \A u \in Threads : at'[u] = "enters" /\ call'[u].client = on
                                /\ call'[u].piece = 2 /\ fd'[on] # Closed => unread'[on] = u
          /\ \/ unread'[on] = Nothing \/ peer'[on] = "gone" \/ fd'[on] = Closed
             \/ \E u \in Threads : /\ Holding(u)' /\ call'[u].client = on
                                   /\ call'[u].piece = 2 /\ unread'[on] = u
    <3>1. on = c /\ send_mtx[c] = t
      BY <1>0, <2>0, <2>3 DEF CallInv, MutexInv
    <3>2. ASSUME NEW u \in Threads, u # t, Holding(u) PROVE call[u].client # c
      BY <2>0, <3>1, <3>2 DEF MutexInv
    <3>3. ASSUME NEW u \in Threads, u # t, at[u] = "sends" PROVE call[u].on # on
      BY <2>0, <2>3, <3>1, <3>2, <3>3 DEF CallInv, Holding
    <3>4. CASE call[t].piece = 1
      <4>1. unread[on] = Nothing
        BY <1>0, <2>0, <2>3, <3>4 DEF ReadInv
      <4>2. unread'[on] = t /\ at'[t] = "enters" /\ call'[t].piece = 2 /\ call'[t].client = on
        BY <1>0, <3>1, <3>4, <4>1 DEF Read
      <4> QED BY <1>0, <2>0, <3>2, <3>3, <3>1, <4>2 DEF Holding
    <3>5. CASE call[t].piece = 2
      <4>1. unread[on] = t
        BY <1>0, <2>0, <2>3, <3>5 DEF ReadInv
      <4>2. unread'[on] = Nothing /\ at'[t] \in {"next", "pops"}
        BY <1>0, <2>0, <3>5, <4>1 DEF Read
      <4> QED BY <1>0, <2>0, <3>1, <3>2, <3>3, <4>2, ConnFacts DEF Holding
    <3> QED BY <1>0, <3>4, <3>5
  <2>4. reused' = reused
    BY <1>0
  <2> HIDE DEF Holding
  <2> QED BY <2>2, <2>3, <2>4 DEF ReadInv
<1> QED BY <1>1, <1>2, <1>3, <1>4, <1>5, <1>6, <1>7, <1>8 DEF IInv

\* A sender whose send broke ends, and its descriptor with it.
LEMMA SendFailsStep ==
    ASSUME IInv, NEW t \in Threads, SendFails(t)
    PROVE  IInv'
<1>1. TypeOK'
  <2>1. at' \in [Threads -> Places] /\ call' \in [Threads -> Calls]
        /\ send_mtx' \in [Conns -> Threads \cup {Nobody}]
    BY IdleType DEF IInv, TypeOK, SendFails, Unlock, Places
  <2> QED BY <2>1 DEF IInv, TypeOK, SendFails, netVars, serverVars
<1>2. FdInv'
  BY ConnFacts
     DEF IInv, TypeOK, FdInv, SendFails, Broken, OnSocket, Unlock, Idle, netVars,
         serverVars, Calls, Places, Listed
<1>3. KnownInv'
  BY ConnFacts
     DEF IInv, TypeOK, KnownInv, Accepted, Engaged, SendFails, Broken, OnSocket,
         Unlock, Idle, netVars, serverVars, Calls, Places, Listed
<1>4. ListInv'
  BY ConnFacts
     DEF IInv, TypeOK, ListInv, KnownInv, Accepted, SendFails, Broken, OnSocket,
         Unlock, Idle, netVars, serverVars, Calls, Places, Listed
<1>5. StopInv'
  BY ConnFacts
     DEF IInv, TypeOK, StopInv, KnownInv, Accepted, SendFails, Broken, OnSocket,
         Unlock, Idle, netVars, serverVars, Calls, Places, Listed
<1>6. MutexInv'
  BY ConnFacts
     DEF IInv, TypeOK, MutexInv, KnownInv, Engaged, Holding, SendFails, Broken,
         OnSocket, Unlock, Idle, netVars, serverVars, Calls, Places, Listed
<1>7. CallInv'
  BY ConnFacts
     DEF IInv, TypeOK, CallInv, KnownInv, FdInv, Holding, Engaged, Accepted,
         SendFails, Broken, OnSocket, Unlock, Idle, netVars, serverVars, Calls,
         Places, Listed
<1>8. ReadInv'
  BY ConnFacts
     DEF IInv, TypeOK, ReadInv, CallInv, KnownInv, FdInv, MutexInv, Holding, Engaged,
         Accepted, SendFails, Broken, OnSocket, Unlock, Idle, netVars, serverVars,
         Calls, Places, Listed
<1> QED BY <1>1, <1>2, <1>3, <1>4, <1>5, <1>6, <1>7, <1>8 DEF IInv

\* The statistics thread gives a client up after a send that broke.
LEMMA StatsFailsStep ==
    ASSUME IInv, StatsFails
    PROVE  IInv'
<1>0. LET c == call[Stats].client IN
      /\ c \in Conns
      /\ sock' = [f \in Fds |-> IF fd[c] = f THEN Nobody ELSE sock[f]]
      /\ fd' = [d \in Conns |-> IF d = c THEN Closed ELSE fd[d]]
      /\ used' = used
  <2>1. at[Stats] \in {"enters", "sends"} /\ Stats \in Threads
    BY ConnFacts DEF StatsFails, Broken
  <2>2. call[Stats].client \in Conns
    BY <2>1 DEF IInv, KnownInv, Engaged, Accepted
  <2> QED BY <2>2 DEF StatsFails, CloseFds
<1>1. TypeOK'
  <2>1. at' \in [Threads -> Places] /\ call' \in [Threads -> Calls]
        /\ send_mtx' \in [Conns -> Threads \cup {Nobody}]
    BY IdleType DEF IInv, TypeOK, StatsFails, Unlock, Places
  <2>2. fd' \in [Conns -> Fds \cup {Closed}] /\ sock' \in [Fds -> Conns \cup {Nobody}]
    BY DEF IInv, TypeOK, StatsFails, CloseFds
  <2> QED BY <2>1, <2>2 DEF IInv, TypeOK, StatsFails, CloseFds, serverVars
<1>2. FdInv'
  <2>1. /\ sock \in [Fds -> Conns \cup {Nobody}] /\ fd \in [Conns -> Fds \cup {Closed}]
        /\ FdInv
    BY DEF IInv, TypeOK
  <2> QED BY <1>0, <2>1, ConnFacts DEF FdInv
<1>3. KnownInv'
  BY ConnFacts
     DEF IInv, TypeOK, KnownInv, Accepted, Engaged, StatsFails, CloseFds, Broken,
         OnSocket, Unlock, Idle, serverVars, Calls, Places, Listed
<1>4. ListInv'
  BY ConnFacts
     DEF IInv, TypeOK, ListInv, KnownInv, Accepted, StatsFails, CloseFds, Broken,
         OnSocket, Unlock, Idle, serverVars, Calls, Places, Listed
<1>5. StopInv'
  BY ConnFacts
     DEF IInv, TypeOK, StopInv, KnownInv, Accepted, StatsFails, CloseFds, Broken,
         OnSocket, Unlock, Idle, serverVars, Calls, Places, Listed
<1>6. MutexInv'
  BY ConnFacts
     DEF IInv, TypeOK, MutexInv, KnownInv, Engaged, Holding, StatsFails, CloseFds,
         Broken, OnSocket, Unlock, Idle, serverVars, Calls, Places, Listed
<1>7. CallInv'
  BY ConnFacts
     DEF IInv, TypeOK, CallInv, KnownInv, FdInv, Holding, Engaged, Accepted,
         StatsFails, CloseFds, Broken, OnSocket, Unlock, Idle, serverVars, Calls,
         Places, Listed
<1>8. ReadInv'
  BY ConnFacts
     DEF IInv, TypeOK, ReadInv, CallInv, KnownInv, FdInv, MutexInv, Holding, Engaged,
         Accepted, StatsFails, CloseFds, Broken, OnSocket, Unlock, Idle, serverVars,
         Calls, Places, Listed
<1> QED BY <1>1, <1>2, <1>3, <1>4, <1>5, <1>6, <1>7, <1>8 DEF IInv

\* stop closes the listening descriptor: no connection changes.
LEMMA StopBeginsStep ==
    ASSUME IInv, StopBegins
    PROVE  IInv'
<1>1. TypeOK'
  BY ConnFacts DEF IInv, TypeOK, StopBegins, netVars, clientVars, threadVars, Listed
<1>2. FdInv'
  BY ConnFacts
     DEF IInv, TypeOK, FdInv, StopBegins, netVars, clientVars, threadVars, Listed
<1>3. KnownInv'
  BY ConnFacts
     DEF IInv, TypeOK, KnownInv, Accepted, Engaged, StopBegins, netVars, clientVars,
         threadVars, Listed
<1>4. ListInv'
  BY ConnFacts
     DEF IInv, TypeOK, ListInv, KnownInv, Accepted, StopBegins, netVars, clientVars,
         threadVars, Listed
<1>5. StopInv'
  BY ConnFacts
     DEF IInv, TypeOK, StopInv, KnownInv, Accepted, StopBegins, netVars, clientVars,
         threadVars, Listed
<1>6. MutexInv'
  BY ConnFacts
     DEF IInv, TypeOK, MutexInv, KnownInv, Engaged, Holding, StopBegins, netVars,
         clientVars, threadVars, Listed
<1>7. CallInv'
  BY ConnFacts
     DEF IInv, TypeOK, CallInv, KnownInv, FdInv, Holding, Engaged, Accepted,
         StopBegins, netVars, clientVars, threadVars, Listed
<1>8. ReadInv'
  BY ConnFacts
     DEF IInv, TypeOK, ReadInv, CallInv, KnownInv, FdInv, MutexInv, Holding, Engaged,
         Accepted, StopBegins, netVars, clientVars, threadVars, Listed
<1> QED BY <1>1, <1>2, <1>3, <1>4, <1>5, <1>6, <1>7, <1>8 DEF IInv

\* stop closes the clients: a packet that is half read stays so.
LEMMA StopClosesStep ==
    ASSUME IInv, StopClosesClients
    PROVE  IInv'
<1>0. /\ sock' = [f \in Fds |-> IF \E c \in Listed : fd[c] = f THEN Nobody ELSE sock[f]]
      /\ fd' = [c \in Conns |-> IF c \in Listed THEN Closed ELSE fd[c]]
      /\ used' = used
  BY DEF StopClosesClients, CloseFds
<1>1. TypeOK'
  BY ConnFacts
     DEF IInv, TypeOK, StopClosesClients, QueuesClosed, CloseFds, serverVars,
         threadVars, Listed
<1>2. FdInv'
  <2>1. /\ sock \in [Fds -> Conns \cup {Nobody}] /\ fd \in [Conns -> Fds \cup {Closed}]
        /\ FdInv
    BY DEF IInv, TypeOK
  <2>2. ASSUME NEW c \in Conns, fd'[c] # Closed PROVE sock'[fd'[c]] = c /\ fd'[c] \in used
    <3>1. c \notin Listed /\ fd'[c] = fd[c] /\ fd[c] \in Fds /\ sock[fd[c]] = c
          /\ fd[c] \in used
      BY <1>0, <2>1, <2>2 DEF FdInv
    <3>2. ASSUME NEW d \in Listed PROVE fd[d] # fd[c]
      <4>1. d \in Conns /\ d # c
        BY <3>1 DEF IInv, KnownInv, Accepted
      <4> QED BY <2>1, <3>1, <4>1, ConnFacts DEF FdInv
    <3> QED BY <1>0, <3>1, <3>2
  <2>3. ASSUME NEW f \in Fds, sock'[f] # Nobody PROVE fd'[sock'[f]] = f
    <3>1. sock'[f] = sock[f] /\ \A d \in Listed : fd[d] # f
      BY <1>0, <2>3
    <3> QED BY <1>0, <2>1, <2>3, <3>1 DEF FdInv
  <2> QED BY <1>0, <2>2, <2>3 DEF FdInv
<1>3. KnownInv'
  BY ConnFacts
     DEF IInv, TypeOK, KnownInv, Accepted, Engaged, StopClosesClients, QueuesClosed,
         CloseFds, serverVars, threadVars, Listed
<1>4. ListInv'
  BY ConnFacts
     DEF IInv, TypeOK, ListInv, KnownInv, Accepted, StopClosesClients, QueuesClosed,
         CloseFds, serverVars, threadVars, Listed
<1>5. StopInv'
  BY ConnFacts
     DEF IInv, TypeOK, StopInv, KnownInv, Accepted, StopClosesClients, QueuesClosed,
         CloseFds, serverVars, threadVars, Listed
<1>6. MutexInv'
  BY ConnFacts
     DEF IInv, TypeOK, MutexInv, KnownInv, Engaged, Holding, StopClosesClients,
         QueuesClosed, CloseFds, serverVars, threadVars, Listed
<1>7. CallInv'
  BY ConnFacts
     DEF IInv, TypeOK, CallInv, KnownInv, FdInv, Holding, Engaged, Accepted,
         StopClosesClients, QueuesClosed, CloseFds, serverVars, threadVars, Listed
<1>8. ReadInv'
  BY ConnFacts
     DEF IInv, TypeOK, ReadInv, CallInv, KnownInv, FdInv, MutexInv, Holding, Engaged,
         Accepted, StopClosesClients, QueuesClosed, CloseFds, serverVars, threadVars,
         Listed
<1> QED BY <1>1, <1>2, <1>3, <1>4, <1>5, <1>6, <1>7, <1>8 DEF IInv

\* stop joins accept_loop and the statistics thread.
LEMMA StopJoinsStep ==
    ASSUME IInv, StopJoinsLoops
    PROVE  IInv'
<1>1. TypeOK'
  BY ConnFacts
     DEF IInv, TypeOK, StopJoinsLoops, netVars, serverVars, clientVars, threadVars,
         Listed
<1>2. FdInv'
  BY ConnFacts
     DEF IInv, TypeOK, FdInv, StopJoinsLoops, netVars, serverVars, clientVars,
         threadVars, Listed
<1>3. KnownInv'
  BY ConnFacts
     DEF IInv, TypeOK, KnownInv, Accepted, Engaged, StopJoinsLoops, netVars,
         serverVars, clientVars, threadVars, Listed
<1>4. ListInv'
  BY ConnFacts
     DEF IInv, TypeOK, ListInv, KnownInv, Accepted, StopJoinsLoops, netVars,
         serverVars, clientVars, threadVars, Listed
<1>5. StopInv'
  BY ConnFacts
     DEF IInv, TypeOK, StopInv, KnownInv, Accepted, StopJoinsLoops, netVars,
         serverVars, clientVars, threadVars, Listed
<1>6. MutexInv'
  BY ConnFacts
     DEF IInv, TypeOK, MutexInv, KnownInv, Engaged, Holding, StopJoinsLoops, netVars,
         serverVars, clientVars, threadVars, Listed
<1>7. CallInv'
  BY ConnFacts
     DEF IInv, TypeOK, CallInv, KnownInv, FdInv, Holding, Engaged, Accepted,
         StopJoinsLoops, netVars, serverVars, clientVars, threadVars, Listed
<1>8. ReadInv'
  BY ConnFacts
     DEF IInv, TypeOK, ReadInv, CallInv, KnownInv, FdInv, MutexInv, Holding, Engaged,
         Accepted, StopJoinsLoops, netVars, serverVars, clientVars, threadVars,
         Listed
<1> QED BY <1>1, <1>2, <1>3, <1>4, <1>5, <1>6, <1>7, <1>8 DEF IInv

\* stop joined the senders of all clients, and no other connection was accepted.
LEMMA StopReturnsStep ==
    ASSUME IInv, StopReturns
    PROVE  IInv'
<1>1. TypeOK'
  BY ConnFacts
     DEF IInv, TypeOK, StopReturns, ToJoin, netVars, clientVars, threadVars, Listed
<1>2. FdInv'
  BY ConnFacts
     DEF IInv, TypeOK, FdInv, StopReturns, ToJoin, netVars, clientVars, threadVars,
         Listed
<1>3. KnownInv'
  BY ConnFacts
     DEF IInv, TypeOK, KnownInv, Accepted, Engaged, StopReturns, ToJoin, netVars,
         clientVars, threadVars, Listed
<1>4. ListInv'
  BY ConnFacts
     DEF IInv, TypeOK, ListInv, KnownInv, Accepted, StopReturns, ToJoin, netVars,
         clientVars, threadVars, Listed
<1>5. StopInv'
  <2>1. accepting = "done" /\ at[Stats] = "done"
    BY DEF IInv, StopInv, StopReturns
  <2>2. \A c \in Conns : at[c] \in {"none", "done"}
    BY <2>1 DEF IInv, ListInv, KnownInv, Accepted, StopReturns, ToJoin
  <2> QED BY <2>1, <2>2 DEF StopInv, StopReturns, threadVars
<1>6. MutexInv'
  BY ConnFacts
     DEF IInv, TypeOK, MutexInv, KnownInv, Engaged, Holding, StopReturns, ToJoin,
         netVars, clientVars, threadVars, Listed
<1>7. CallInv'
  BY ConnFacts
     DEF IInv, TypeOK, CallInv, KnownInv, FdInv, Holding, Engaged, Accepted,
         StopReturns, ToJoin, netVars, clientVars, threadVars, Listed
<1>8. ReadInv'
  BY ConnFacts
     DEF IInv, TypeOK, ReadInv, CallInv, KnownInv, FdInv, MutexInv, Holding, Engaged,
         Accepted, StopReturns, ToJoin, netVars, clientVars, threadVars, Listed
<1> QED BY <1>1, <1>2, <1>3, <1>4, <1>5, <1>6, <1>7, <1>8 DEF IInv


\* A set of natural numbers has a least element, and it is Min.
LEMMA MinFacts ==
    ASSUME NEW S \in SUBSET Nat, S # {}
    PROVE  Min(S) \in S /\ \A x \in S : Min(S) <= x
<1> DEFINE less == OpToRel(<, Nat)
<1>1. \A x, y \in Nat : x < y => <<x, y>> \in less
  BY DEF OpToRel
<1> HIDE DEF less
<1>2. PICK x \in S : \A y \in S : <<y, x>> \notin less
  <2>1. IsWellFoundedOn(less, Nat)
    BY NatLessThanWellFounded DEF less
  <2> QED BY <2>1, WFMin, Zenon
<1>3. \A y \in S : ~(y < x)
  BY <1>1, <1>2, Zenon
<1>4. \A y \in S : x <= y
  BY <1>3
<1> QED BY <1>4 DEF Min

\* There is a number for every connection.
LEMMA FreeNumber ==
    ASSUME IInv, NEW c \in Conns \ Accepted
    PROVE  \E f \in Fds : sock[f] = Nobody
<1> SUFFICES ASSUME \A f \in Fds : sock[f] # Nobody PROVE FALSE
  OBVIOUS
<1> DEFINE Others == Conns \ {c}
<1>1. \A f \in Fds : sock[f] \in Conns /\ fd[sock[f]] = f
  BY DEF IInv, TypeOK, FdInv
<1>2. \A f \in Fds : sock[f] # c
  BY <1>1, ConnFacts DEF IInv, KnownInv
<1>3. sock \in [Fds -> Others]
  BY <1>1, <1>2 DEF IInv, TypeOK
<1>4. sock \in Injection(Fds, Others)
  BY <1>1, <1>3 DEF Injection, IsInjective
<1>5. IsFiniteSet(Conns) /\ Cardinality(Conns) \in Nat
  <2>1. 1 \in Int /\ NConns \in Int
    BY TcpAssumption
  <2> QED BY <2>1, FS_Interval, FS_CardinalityType DEF Conns
<1>6. IsFiniteSet(Others) /\ Cardinality(Others) = Cardinality(Conns) - 1
  BY <1>5, FS_RemoveElement
<1>7. Cardinality(Fds) <= Cardinality(Others)
  BY <1>4, <1>6, FS_Injection
<1> QED BY <1>5, <1>6, <1>7, ConnFacts

\* accept: a connection that nothing knows of, with a number that is free; if the number
\* was used before, stale copies of it now lead to this connection.
LEMMA AcceptsStep ==
    ASSUME IInv, NEW c \in Conns, Accepts(c)
    PROVE  IInv'
<1> DEFINE f == Min({g \in Fds : sock[g] = Nobody})
<1>0. /\ f \in Fds /\ sock[f] = Nobody
      /\ c \notin Accepted /\ Accepted' = Accepted \cup {c}
      /\ \A d \in Conns \ Accepted : c <= d
  <2>1. c \notin Accepted
    BY DEF Accepts, Accepted
  <2>2. f \in Fds /\ sock[f] = Nobody
    <3>1. {g \in Fds : sock[g] = Nobody} \subseteq Nat
      BY ConnFacts
    <3>2. {g \in Fds : sock[g] = Nobody} # {}
      BY <2>1, FreeNumber
    <3>3. f \in {g \in Fds : sock[g] = Nobody}
      BY <3>1, <3>2, MinFacts
    <3> QED BY <3>3
  <2>3. \A d \in Conns \ Accepted : c <= d
    <3> DEFINE A == {d \in Conns : peer[d] = "away"}
    <3>1. A = Conns \ Accepted /\ c = Min(A)
      BY DEF Accepted, Accepts
    <3>2. A \subseteq Nat /\ A # {}
      BY <2>1, <3>1, ConnFacts
    <3> HIDE DEF A
    <3> QED BY <3>1, <3>2, MinFacts
  <2>4. Accepted' = Accepted \cup {c}
    BY DEF Accepts, Accepted, IInv, TypeOK
  <2> QED BY <2>1, <2>2, <2>3, <2>4
<1>1. /\ sock' = [sock EXCEPT ![f] = c] /\ fd' = [fd EXCEPT ![c] = f]
      /\ peer' = [peer EXCEPT ![c] = "there"] /\ at' = [at EXCEPT ![c] = "pops"]
      /\ accepting = "accepts" /\ accepting' = "adds" /\ used' = used \cup {f}
      /\ reused' = IF f \in used THEN reused \cup {c} ELSE reused
      /\ UNCHANGED <<unread, running, clients, late, alive, queue, queue_closed,
                     send_mtx, call, todo, stop>>
  BY DEF Accepts
<1> HIDE DEF f
<1>2. TypeOK'
  BY <1>0, <1>1, ConnFacts DEF IInv, TypeOK, Places
<1>3. FdInv'
  <2>1. /\ c \in Conns /\ fd[c] = Closed /\ FdInv
        /\ sock \in [Fds -> Conns \cup {Nobody}] /\ fd \in [Conns -> Fds \cup {Closed}]
    BY <1>0 DEF IInv, KnownInv, TypeOK
  <2>2. ASSUME NEW d \in Conns, fd'[d] # Closed PROVE sock'[fd'[d]] = d /\ fd'[d] \in used'
    <3>1. CASE d = c
      BY <1>0, <1>1, <2>1, <3>1
    <3>2. CASE d # c
      <4>1. fd'[d] = fd[d] /\ sock[fd[d]] = d /\ fd[d] \in used /\ fd[d] \in Fds
        BY <1>1, <2>1, <2>2, <3>2 DEF FdInv
      <4>2. fd[d] # f
        BY <1>0, <4>1, ConnFacts
      <4> QED BY <1>1, <2>1, <4>1, <4>2
    <3> QED BY <3>1, <3>2
  <2>3. ASSUME NEW g \in Fds, sock'[g] # Nobody PROVE fd'[sock'[g]] = g
    <3>1. CASE g = f
      BY <1>1, <2>1, <3>1
    <3>2. CASE g # f
      <4>1. sock'[g] = sock[g] /\ sock[g] \in Conns /\ fd[sock[g]] = g
        BY <1>1, <2>1, <2>3, <3>2 DEF FdInv
      <4>2. sock[g] # c
        BY <2>1, <4>1, ConnFacts
      <4> QED BY <1>1, <2>1, <4>1, <4>2
    <3> QED BY <3>1, <3>2
  <2> QED BY <2>2, <2>3 DEF FdInv
<1>4. KnownInv'
  <2>1. /\ at'[c] = "pops" /\ \A t \in Threads \ {c} : at'[t] = at[t]
        /\ \A d \in Conns \ {c} : fd'[d] = fd[d]
        /\ c \in Threads
    BY <1>1, ConnFacts DEF IInv, TypeOK
  <2> QED BY <1>0, <1>1, <2>1, ConnFacts DEF IInv, KnownInv, Engaged, Listed
<1>5. stop # "returned"
  BY <1>1 DEF IInv, StopInv
<1>6. ListInv'
  <2>1. \A d \in Accepted : d <= c
    <3>1. ASSUME NEW d \in Accepted PROVE d <= c
      <4>1. d \in Conns /\ d \in Nat /\ c \in Nat
        BY ConnFacts DEF Accepted
      <4>2. ~(c < d)
        BY <1>0, <4>1 DEF IInv, ListInv
      <4> QED BY <4>1, <4>2
    <3> QED BY <3>1
  <2>2. \A d \in Conns : d < c => d \in Accepted
    <3>1. ASSUME NEW d \in Conns, d < c PROVE d \in Accepted
      BY <1>0, <3>1, ConnFacts
    <3> QED BY <3>1
  <2>3. \A d \in Accepted : d \in Listed
    BY <1>1, <1>5 DEF IInv, ListInv
  <2>4. c <= c
    BY ConnFacts
  <2>5. \A d \in Accepted, e \in Conns : e < d => e \in Accepted
    BY DEF IInv, ListInv
  <2>6. Listed' = Listed
    BY <1>1 DEF Listed
  <2> QED BY <1>0, <1>1, <2>1, <2>2, <2>3, <2>4, <2>5, <2>6 DEF ListInv
<1>7. StopInv'
  BY <1>1, <1>5 DEF IInv, StopInv
<1>8. ASSUME NEW t \in Threads
      PROVE  /\ Holding(t)' => Holding(t) /\ at'[t] = at[t] /\ t # c
             /\ Holding(t) => Holding(t)' /\ at'[t] = at[t]
             /\ Holding(t) => call[t].client \in Accepted
             /\ at[t] = "sends" => call[t].on \in Accepted
  BY <1>0, <1>1, ConnFacts DEF IInv, TypeOK, KnownInv, Holding, Engaged
<1>9. MutexInv'
  <2> HIDE DEF Holding
  <2> QED BY <1>1, <1>8 DEF IInv, MutexInv
<1>10. \A d \in Conns \ {c} : fd'[d] = fd[d] /\ peer'[d] = peer[d]
  BY <1>1 DEF IInv, TypeOK
<1>11. CallInv'
  <2>1. ASSUME NEW t \in Threads, Holding(t)
        PROVE  LET d == call[t].client
                   h == call[t].fd
               IN  /\ fd'[d] \in {Closed, h} /\ (h # Closed => h \in used')
                   /\ at[t] = "enters" /\ h # Closed => sock'[h] \in {Nobody, d} \cup reused'
                   /\ at[t] = "sends" => /\ call[t].on = d \/ call[t].on \in reused'
                                         /\ call[t].on = d \/ fd'[d] = Closed
    <3>1. call[t].client \in Conns \ {c} /\ call[t].fd \in Fds \cup {Closed}
      BY <1>0, <1>8, <2>1 DEF Accepted, IInv, TypeOK, Calls
    <3>2. fd'[call[t].client] = fd[call[t].client]
      BY <1>10, <3>1
    <3>3. ASSUME call[t].fd # Closed
          PROVE  sock'[call[t].fd] \in {sock[call[t].fd]} \cup (reused' \cap {c})
      <4>1. call[t].fd \in used /\ call[t].fd \in Fds
        BY <2>1, <3>1, <3>3 DEF IInv, CallInv
      <4> QED BY <1>1, <4>1 DEF IInv, TypeOK
    <3>4. reused \subseteq reused' /\ used \subseteq used'
      BY <1>1
    <3> QED BY <2>1, <3>2, <3>3, <3>4 DEF IInv, CallInv
  <2> HIDE DEF Holding
  <2> SUFFICES ASSUME NEW t \in Threads
               PROVE  LET d == call'[t].client
                          h == call'[t].fd
                      IN  /\ Holding(t)' => /\ fd'[d] \in {Closed, h}
                                            /\ h # Closed => h \in used'
                          /\ at'[t] = "enters" /\ h # Closed
                                => sock'[h] \in {Nobody, d} \cup reused'
                          /\ at'[t] = "sends" => /\ call'[t].on = d \/ call'[t].on \in reused'
                                                 /\ call'[t].on = d \/ fd'[d] = Closed
    BY Zenon DEF CallInv
  <2>2. call' = call /\ (at'[t] \in {"enters", "sends"} => Holding(t) /\ at'[t] = at[t])
    BY <1>1, <1>8 DEF Holding
  <2>3. Holding(t)' => Holding(t)
    BY <1>8
  <2> QED BY <2>1, <2>2, <2>3
<1>12. ReadInv'
  <2>1. ASSUME NEW t \in Threads, Holding(t)'
        PROVE  /\ Holding(t) /\ at'[t] = at[t] /\ call[t].client # c
               /\ at[t] = "sends" => call[t].on # c
    BY <1>0, <1>8, <2>1
  <2>2. unread[c] = Nothing /\ Nothing # Garbled
    BY <1>0, ConnFacts DEF IInv, KnownInv
  <2>3. \A t \in Threads : at'[t] = "enters" \/ at'[t] = "sends" => Holding(t)'
    BY DEF Holding
  <2>4. \A t \in Threads : Holding(t) => Holding(t)'
    BY <1>8
  <2>5. reused \subseteq reused'
    BY <1>1
  <2> HIDE DEF Holding
  <2> QED BY <1>1, <1>10, <2>1, <2>2, <2>3, <2>4, <2>5 DEF IInv, ReadInv
<1> QED BY <1>2, <1>3, <1>4, <1>6, <1>7, <1>9, <1>11, <1>12 DEF IInv

\* Nothing is left out of clients_: the connection accepted last is added.
LEMMA AddsStep ==
    ASSUME IInv, AddsClient
    PROVE  IInv'
<1> DEFINE c == Max({d \in Conns : peer[d] # "away"})
<1>0. c \in Accepted /\ c \in Conns /\ \A d \in Accepted : d <= c
  <2>1. \E m \in Accepted : \A d \in Accepted : d <= m
    BY DEF IInv, ListInv, AddsClient
  <2>2. \E m \in Accepted : \A d \in Accepted : m >= d
    BY <2>1, ConnFacts DEF Accepted
  <2>3. c = Max(Accepted)
    BY DEF Accepted
  <2>4. c \in Accepted /\ \A d \in Accepted : c >= d
    <3> HIDE DEF c, Accepted
    <3> QED BY <2>2, <2>3 DEF Max
  <2> QED BY <2>4, ConnFacts DEF Accepted
<1>1. /\ clients' = Append(clients, c) /\ accepting = "adds" /\ accepting' = "tests"
      /\ late' \in {late, late \cup {c}}
      /\ UNCHANGED <<running, netVars, clientVars, threadVars, stop>>
  BY DEF AddsClient
<1> HIDE DEF c
<1>2. clients' \in Seq(Conns) /\ Listed' = Listed \cup {c}
  <2>1. clients \in Seq(Conns)
    BY DEF IInv, TypeOK
  <2> QED BY <1>0, <1>1, <2>1 DEF Listed
<1>3. UNCHANGED <<running, peer, sock, unread, used, reused, fd, alive, queue, queue_closed,
                  send_mtx, at, call, todo, stop>>
  BY <1>1 DEF netVars, clientVars, threadVars
<1>4. TypeOK'
  BY <1>0, <1>1, <1>2, <1>3 DEF IInv, TypeOK
<1>5. FdInv' /\ MutexInv' /\ CallInv' /\ ReadInv'
  BY <1>3 DEF IInv, FdInv, MutexInv, CallInv, ReadInv, Holding
<1>6. KnownInv'
  BY <1>0, <1>2, <1>3 DEF IInv, KnownInv, Accepted, Engaged
<1>7. ListInv'
  <2>1. Accepted' = Accepted
    BY <1>3 DEF Accepted
  <2>2. \A d \in Accepted : d <= c => d = c \/ d \in Listed
    <3>1. ASSUME NEW d \in Accepted, d \notin Listed PROVE d = c
      <4>1. stop # "returned"
        BY <1>1 DEF IInv, StopInv
      <4>2. c <= d
        BY <1>0, <3>1, <4>1 DEF IInv, ListInv
      <4>3. c \in Nat /\ d \in Nat /\ d <= c
        BY <1>0, ConnFacts DEF Accepted
      <4> QED BY <4>2, <4>3
    <3> QED BY <3>1
  <2> QED BY <1>0, <1>1, <1>2, <1>3, <2>1, <2>2 DEF IInv, ListInv
<1>8. StopInv'
  BY <1>1, <1>3 DEF IInv, StopInv
<1> QED BY <1>4, <1>5, <1>6, <1>7, <1>8 DEF IInv

-----------------------------------------------------------------------------
\* At first nobody has connected.
LEMMA InitInv == Init => IInv
<1> SUFFICES ASSUME Init PROVE IInv
  OBVIOUS
<1>1. TypeOK
  BY TcpAssumption, IdleType, ConnFacts DEF Init, TypeOK, Places
<1>2. \A t \in Threads : at[t] \in {"none", "waits"}
  BY DEF Init
<1>3. Accepted = {} /\ Listed = {} /\ todo = <<>>
  BY DEF Init, Accepted, Listed
<1>4. FdInv /\ StopInv /\ ListInv
  BY <1>3, ConnFacts DEF Init, FdInv, StopInv, ListInv
<1>5. KnownInv
  <2>1. \A c \in Conns : at[c] = "none" /\ fd[c] = Closed /\ unread[c] = Nothing
    BY ConnFacts DEF Init
  <2> QED BY <1>2, <1>3, <2>1 DEF KnownInv, Engaged
<1>6. MutexInv /\ CallInv /\ ReadInv
  <2>1. \A t \in Threads : ~Holding(t)
    BY <1>2 DEF Holding
  <2>2. \A t \in Threads : at[t] # "enters" /\ at[t] # "sends"
    BY <1>2
  <2>3. \A c \in Conns : unread[c] = Nothing /\ unread[c] # Garbled
    BY ConnFacts DEF Init
  <2> HIDE DEF Holding
  <2> QED BY <2>1, <2>2, <2>3 DEF MutexInv, CallInv, ReadInv
<1> QED BY <1>1, <1>4, <1>5, <1>6 DEF IInv

\* Every step keeps the invariant.
LEMMA NextInv == IInv /\ [Next]_vars => IInv'
<1> SUFFICES ASSUME IInv, [Next]_vars PROVE IInv'
  OBVIOUS
<1>1. ASSUME NEW c \in Conns, Accepts(c) \/ PeerGoes(c) PROVE IInv'
  BY <1>1, AcceptsStep, PeerGoesStep
<1>2. ASSUME NEW c \in Conns, Sender(c) PROVE IInv'
  <2>1. c \in Threads
    BY ConnFacts
  <2> QED BY <1>2, <2>1, PopsStep, EndsStep, LocksStep, EntersStep, SendFailsStep
     DEF Sender
<1>3. ASSUME NEW t \in Threads, Writes(t) PROVE IInv'
  BY <1>3, WritesStep
<1>4. CASE Accepting \/ AcceptFails
  BY <1>4, AcceptStep, AddsStep DEF Accepting
<1>5. CASE StatsLoop
  <2>1. Stats \in Threads
    BY ConnFacts
  <2> QED BY <1>5, <2>1, StatsWakesStep, StatsNextStep, LocksStep, EntersStep,
             StatsFailsStep DEF StatsLoop
<1>6. CASE Broadcast
  BY <1>6, BroadcastStep
<1>7. CASE Stopping
  BY <1>7, StopBeginsStep, StopClosesStep, StopJoinsStep, StopReturnsStep DEF Stopping
<1>8. CASE UNCHANGED vars
  <2>1. UNCHANGED <<netVars, serverVars, clientVars, threadVars, stop>>
    BY <1>8 DEF vars
  <2>2. UNCHANGED <<peer, sock, unread, used, reused, running, accepting, clients, late, fd,
                    alive, queue, queue_closed, send_mtx, at, call, todo, stop>>
    BY <2>1 DEF netVars, serverVars, clientVars, threadVars
  <2>3. TypeOK'
    BY <2>2 DEF IInv, TypeOK
  <2>4. FdInv' /\ KnownInv' /\ ListInv' /\ StopInv'
    BY <2>2 DEF IInv, FdInv, KnownInv, ListInv, StopInv, Accepted, Engaged, Listed
  <2>5. MutexInv' /\ CallInv' /\ ReadInv'
    BY <2>2 DEF IInv, MutexInv, CallInv, ReadInv, Holding
  <2> QED BY <2>3, <2>4, <2>5 DEF IInv
<1> QED BY <1>1, <1>2, <1>3, <1>4, <1>5, <1>6, <1>7, <1>8 DEF Next

\* The invariant holds throughout.
LEMMA AlwaysInv == Spec => []IInv
  BY InitInv, NextInv, PTL DEF Spec

\* Type correctness of the TCP server.
THEOREM TypeCorrect == Spec => []TypeOK
<1>1. IInv => TypeOK
  BY DEF IInv
<1> QED BY <1>1, AlwaysInv, PTL

\* A client never reads a torn packet, though its sending thread and the statistics
\* thread write to it, unless it got the descriptor number of another one.
THEOREM AlwaysFramesWhole == Spec => []FramesWhole
<1>1. IInv => FramesWhole
  BY DEF IInv, ReadInv, FramesWhole
<1> QED BY <1>1, AlwaysInv, PTL

\* When stop has returned, every thread of the server has ended, whoever came meanwhile.
THEOREM AlwaysNoThreadLeft == Spec => []NoThreadLeft
<1>1. IInv => NoThreadLeft
  BY DEF IInv, StopInv, NoThreadLeft
<1> QED BY <1>1, AlwaysInv, PTL
=============================================================================
