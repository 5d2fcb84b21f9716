---------------------------- MODULE UdpReceiver ----------------------------
(***************************************************************************)
(* receiver/udp_receiver.h, the receiving thread: collects the packets of  *)
(* each frame in a group, recovers one missing fragment by FEC, asks for   *)
(* more by NACK, gives a group up after a while and hands complete frames  *)
(* to the jitter buffer.                                                   *)
(***************************************************************************)
EXTENDS UdpWire, Fec

CONSTANTS NackInterval, \* the 10 ms between two NACKs of a group, in ticks
          GiveUpAge,    \* the 250 ms after which a group is given up, in ticks
          Chunk,        \* payload_size of send_frame
          LastSize      \* bytes of the last fragment of each frame
ASSUME AgeAssumption == NackInterval \in Nat /\ GiveUpAge \in Nat
ASSUME SizeAssumption == Chunk \in Nat \ {0} /\ LastSize \in [Frames -> 1..Chunk]

VARIABLES groups,       \* client -> groups_: frame -> group
          handed,       \* history: client -> frames handed to jb_, with content
          given_up      \* history: client -> frames whose fragments net_lost counts

receiverVars == <<groups, handed, given_up>>

\* What the server puts into fragment k of frame g: all but the last are full.
LastOf(g) == Fragments[g] - 1
Payload(g) ==
    [k \in Data(g) |-> [terms |-> {<<g, k>>},
                        size  |-> IF k = LastOf(g) THEN LastSize[g] ELSE Chunk]]
Content(p) == IF p[2] = FecSeq THEN Parity(Payload(p[1])) ELSE Payload(p[1])[p[2]]

Terms(g) == {g} \X Data(g)
Bytes(g) == [terms : SUBSET Terms(g), size : 0..Chunk]
Groups(g) == [known : [Seqs(g) -> Bytes(g)],         \* frags and parity
              age : 0..(GiveUpAge + 1),              \* since first_recv_us
              nacked : 0..NackInterval]              \* since last_nack_us

ReceiverType ==
    /\ DOMAIN groups = Clients /\ DOMAIN handed = Clients
    /\ \A c \in Clients : /\ DOMAIN groups[c] \subseteq Frames
                          /\ \A g \in DOMAIN groups[c] : groups[c][g] \in Groups(g)
    /\ given_up \in [Clients -> SUBSET Frames]

ReceiverInit == /\ groups = [c \in Clients |-> [g \in {} |-> 0]]
                /\ handed = [c \in Clients |-> {}]
                /\ given_up = [c \in Clients |-> {}]

-----------------------------------------------------------------------------
\* The group of a packet that is the first of its frame (last_nack_us is 0).
NewGroup(g) == [known |-> [k \in Seqs(g) |-> Nothing], age |-> 0, nacked |-> NackInterval]

\* on_media: the packet's place is filled; a duplicate fragment changes nothing.
FiledAnew(c, p) == [NewGroup(p[1]) EXCEPT !.known[p[2]] = Content(p)]
Filed(c, p) ==
    LET old == IF p[1] \in DOMAIN groups[c] THEN groups[c][p[1]] ELSE NewGroup(p[1])
    IN  [old EXCEPT !.known[p[2]] = Content(p)]

Missing(group) == Holes(group.known) \ {FecSeq}

Complete(group) == Missing(group) = {}

\* Exactly one fragment is missing and the parity packet is there.
ByFecUnlessLast(group) == Recoverable(group.known) /\ FecSeq \notin Holes(group.known)
                          /\ Missing(group) # {0}
ByFec(group) == Recoverable(group.known) /\ FecSeq \notin Holes(group.known)

Assembled(group, g) ==
    [k \in Data(g) |-> (IF Complete(group) THEN group.known
                                           ELSE Recovered(group.known))[k]]

WithoutGroup(c, g) == [h \in DOMAIN groups[c] \ {g} |-> groups[c][h]]
WithGroup(c, g, group) ==
    [h \in DOMAIN groups[c] \cup {g} |-> IF h = g THEN group ELSE groups[c][h]]

\* finish: the group is forgotten and the frame goes to the jitter buffer.
Finish(c, g, group) ==
    /\ groups' = [groups EXCEPT ![c] = WithoutGroup(c, g)]
    /\ handed' = [handed EXCEPT ![c] = @ \cup {<<g, Assembled(group, g)>>}]
    /\ UNCHANGED <<given_up, nacks>>

\* send_nack, unless the last one is younger than the interval; a NACK beyond
\* the bound of the network is lost.
NackDueAlways(group) == TRUE
NackDue(group) == group.nacked >= NackInterval

SendNack(g, group) ==
    LET n == <<g, Missing(group)>>
    IN  nacks' = IF NackDue(group) /\ (n \in nacks \/ Cardinality(nacks) < MaxNacks)
                 THEN nacks \cup {n} ELSE nacks

TooOldByNackClock(group) == group.nacked >= NackInterval
TooOld(group) == group.age > GiveUpAge

\* try_finalize of a group that cannot be finished yet.
KeepWaiting(c, g, group) ==
    /\ SendNack(g, group)
    /\ IF TooOld(group)
       THEN /\ groups' = [groups EXCEPT ![c] = WithoutGroup(c, g)]
            /\ given_up' = [given_up EXCEPT ![c] = @ \cup {g}]
       ELSE /\ groups' = [groups EXCEPT ![c] = WithGroup(c, g,
                  IF NackDue(group) THEN [group EXCEPT !.nacked = 0] ELSE group)]
            /\ UNCHANGED given_up
    /\ UNCHANGED handed

Receive(c, p) ==
    LET group == Filed(c, p)
    IN  /\ net[c][p] > 0
        /\ net' = [net EXCEPT ![c][p] = @ - 1]
        /\ UNCHANGED dropped
        /\ IF Complete(group) \/ ByFec(group)
           THEN Finish(c, p[1], group)
           ELSE KeepWaiting(c, p[1], group)

\* Time passes for the groups; no thread looks at them.
Older(age, cap) == IF age < cap THEN age + 1 ELSE age

GroupsAge ==
    /\ groups' = [c \in Clients |-> [g \in DOMAIN groups[c] |->
                    [groups[c][g] EXCEPT !.age = Older(@, GiveUpAge + 1),
                                         !.nacked = Older(@, NackInterval)]]]
    /\ UNCHANGED <<handed, given_up>>
=============================================================================
