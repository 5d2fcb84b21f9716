------------------------------ MODULE UdpLink ------------------------------
(***************************************************************************)
(* The UDP link: one server, its clients and the network between them.     *)
(***************************************************************************)
EXTENDS UdpServer, UdpReceiver

CONSTANT Prompt   \* a tick passes only while nothing is on its way
ASSUME PromptAssumption == Prompt \in BOOLEAN

VARIABLE owed     \* history: client -> frames broadcast since it registered

vars == <<wireVars, serverVars, receiverVars, owed>>

TypeOK == WireType /\ ServerType /\ ReceiverType
          /\ owed \in [Clients -> SUBSET Frames]

Init == /\ WireInit /\ ServerInit /\ ReceiverInit
        /\ owed = [c \in Clients |-> {}]

-----------------------------------------------------------------------------
Broadcast == /\ BroadcastFrame
             /\ owed' = [c \in Clients |->
                            IF c \in clients THEN owed[c] \cup {frame} ELSE owed[c]]
             /\ UNCHANGED receiverVars

ServerStep == /\ Emit \/ SkipFrame
              /\ UNCHANGED <<receiverVars, owed>>

Ping(c) == HandlePing(c) /\ UNCHANGED <<receiverVars, owed>>

Answer(n) == HandleNack(n) /\ UNCHANGED <<receiverVars, owed>>

Deliver(c, p) == Receive(c, p) /\ UNCHANGED <<serverVars, owed>>

Drop == /\ \/ \E c \in Clients, p \in Packets : Lose(c, p)
           \/ \E n \in nacks : LoseNack(n)
        /\ UNCHANGED <<serverVars, receiverVars, owed>>

Quiet == nacks = {} /\ \A c \in Clients, p \in Packets : net[c][p] = 0

Tick == /\ Prompt => Quiet /\ ~sending
        /\ GroupsAge
        /\ UNCHANGED <<wireVars, serverVars, owed>>

Next == \/ Broadcast \/ ServerStep
        \/ \E c \in Clients : Ping(c)
        \/ \E n \in nacks : Answer(n)
        \/ \E c \in Clients, p \in Packets : Deliver(c, p)
        \/ Drop
        \/ Tick

Spec == Init /\ [][Next]_vars

\* The encoder thread and the server's receiving thread run, every packet that
\* is not dropped arrives and time passes.  No client has to ping and nothing
\* has to be dropped.
Fairness == /\ WF_vars(Broadcast) /\ WF_vars(ServerStep)
            /\ \A n \in Requests : WF_vars(Answer(n))
            /\ \A c \in Clients, p \in Packets : WF_vars(Deliver(c, p))
            /\ WF_vars(Tick)

FairSpec == Spec /\ Fairness

-----------------------------------------------------------------------------
HandedFrames(c) == {f[1] : f \in handed[c]}

\* What reaches the jitter buffer is what the encoder produced, fragment for
\* fragment, in place, whether received or recovered from the parity packet,
\* under loss, duplication, reordering and groups that start over.  At most zeros
\* follow at the end of the frame: a recovered last fragment is as long as the
\* longest one, every other one as long as it was sent.
ZerosAtEnd(g) == [Payload(g) EXCEPT ![LastOf(g)] = Padded(@, Longest(Payload(g)))]
Intact == \A c \in Clients : \A f \in handed[c] :
              f[2] \in {Payload(f[1]), ZerosAtEnd(f[1])}

\* A group that could be finished is never left waiting for another packet: each
\* group in groups_ lacks a fragment, and at least two of its packets.
NoReadyGroupWaits ==
    \A c \in Clients : \A g \in DOMAIN groups[c] :
        /\ ~Complete(groups[c][g])
        /\ Cardinality(Holes(groups[c][g].known)) >= 2

\* No frame gets lost in the receiver: one of which every packet was emitted, and
\* none is on its way any more, was handed over, or its group was given up, or at
\* least two of its packets were dropped.
OneLossCostsNothing ==
    \A c \in Clients : \A g \in owed[c] :
        g < frame /\ (\A p \in Packets : p[1] = g => net[c][p] = 0)
          => \/ g \in HandedFrames(c) \cup given_up[c]
             \/ Cardinality({p \in dropped[c] : p[1] = g}) >= 2

\* A packet that was emitted less than CacheSize packets ago can be sent again,
\* whatever was retransmitted in between: the requests for it find it in the
\* cache.
EmittedOf(g) == CASE g < frame -> Seqs(g)
                  [] g = frame /\ sending ->
                       IF next_seq = FecSeq THEN Data(g) ELSE 0..(next_seq - 1)
                  [] OTHER -> {}

RecentAnswerable ==
    \A n \in nacks :
        MapThenSumSet(LAMBDA g : Cardinality(EmittedOf(g)), n[1]..NFrames) <= CacheSize
          => {n[1]} \X (n[2] \cap EmittedOf(n[1])) \subseteq Found(n)

\* One parity packet makes up for one lost packet: a frame broadcast to a client
\* is handed to its jitter buffer unless two of its packets were dropped on the
\* way to that client, NACKs or not.
FecSuffices ==
    \A c \in Clients : \A g \in Frames :
        (g \in owed[c]) ~> (\/ g \in HandedFrames(c)
                            \/ Cardinality({p \in dropped[c] : p[1] = g}) >= 2)

\* Over a prompt network the recovery machinery comes to rest unless something is
\* dropped: groups that start over after their frame is complete cause NACKs and
\* retransmissions, but not for ever.
NothingDropped == \A c \in Clients : dropped[c] = {}

RecoveryEnds == <>[]Quiet \/ <>(~NothingDropped)

\* Over a prompt network no group is given up, whatever is dropped, those that
\* start over after their frame is complete included.
NothingGivenUp == Prompt => \A c \in Clients : given_up[c] = {}

\* "A NACK is triggered by a gap, throttled, and storms are prevented": over a
\* network that drops and delays nothing NACKs end, however many clients there
\* are.  (Each retransmission goes to every client, where it starts the group of a
\* complete frame over.)
NoNackStorm == RecoveryEnds
=============================================================================
