------------------------------ MODULE UdpWire ------------------------------
(***************************************************************************)
(* What the UDP server and its receivers share: the packets of the frames  *)
(* and the network between them.  A frame g is cut into Fragments[g] data  *)
(* fragments and one parity packet; a packet is <<g, k>> with k a fragment *)
(* number or FecSeq.  Packets travel to every client by themselves, so     *)
(* they may overtake each other; the simulator and the network may drop    *)
(* them; a retransmission adds a copy.  The simulator delays nothing here  *)
(* (delay_ms = jitter_ms = 0): that part of it is LossSimulator.tla.       *)
(***************************************************************************)
EXTENDS Integers, FiniteSets

CONSTANTS NFrames,      \* bound: number of frames the encoder produces
          Fragments,    \* data fragments of each frame
          Clients,      \* the receivers
          SimLossy,     \* loss_rate > 0: the simulator drops packets
          NetLossy,     \* the network drops packets
          MaxCopies,    \* bound: copies of a packet on the way to a client
          MaxNacks      \* bound: NACKs on the way, a further one is dropped

Frames == 1..NFrames
FecSeq == 65535         \* UdpHeader::kFecSeq

ASSUME WireAssumption ==
    /\ NFrames \in Nat
    /\ Fragments \in [Frames -> 1..(FecSeq - 1)]
    /\ IsFiniteSet(Clients)
    /\ SimLossy \in BOOLEAN /\ NetLossy \in BOOLEAN
    /\ MaxCopies \in Nat \ {0} /\ MaxNacks \in Nat

Data(g)  == 0 .. (Fragments[g] - 1)
Seqs(g)  == Data(g) \cup {FecSeq}
Packets  == UNION {{g} \X Seqs(g) : g \in Frames}
Requests == UNION {{g} \X SUBSET Data(g) : g \in Frames}

VARIABLES net,     \* client -> packet -> number of copies on the way
          nacks,   \* NACK packets on the way to the server: <<frame, fragments>>
          dropped  \* history: client -> packets of which it missed a copy

wireVars == <<net, nacks, dropped>>

WireType == /\ net \in [Clients -> [Packets -> 0..MaxCopies]]
            /\ nacks \subseteq Requests
            /\ dropped \in [Clients -> SUBSET Packets]

WireInit == /\ net = [c \in Clients |-> [p \in Packets |-> 0]]
            /\ nacks = {}
            /\ dropped = [c \in Clients |-> {}]

\* Copies of the packets P, one each, set out to the clients C.
SetOut(C, P) ==
    [c \in Clients |-> [p \in Packets |->
        IF c \in C /\ p \in P THEN net[c][p] + 1 ELSE net[c][p]]]

Room(C, P) == \A c \in C, p \in P : net[c][p] < MaxCopies

\* LossSimulator::inject of the packets P for the clients C: each is dropped, for
\* all of them, or set out to all of them.
Inject(C, P) ==
    \E sent \in (IF SimLossy THEN SUBSET P ELSE {P}) :
        /\ Room(C, sent)
        /\ net' = SetOut(C, sent)
        /\ dropped' = [c \in Clients |->
                         IF c \in C THEN dropped[c] \cup (P \ sent) ELSE dropped[c]]

\* The network drops a packet or a NACK.
Lose(c, p) == /\ NetLossy
              /\ net[c][p] > 0
              /\ net' = [net EXCEPT ![c][p] = @ - 1]
              /\ dropped' = [dropped EXCEPT ![c] = @ \cup {p}]
              /\ UNCHANGED nacks

LoseNack(n) == /\ NetLossy
               /\ n \in nacks
               /\ nacks' = nacks \ {n}
               /\ UNCHANGED <<net, dropped>>
=============================================================================
