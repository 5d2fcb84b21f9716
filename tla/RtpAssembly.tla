---------------------------- MODULE RtpAssembly ----------------------------
(***************************************************************************)
(* receiver/rtp_receiver.h behind its jitter buffer: the assembling thread *)
(* collects the packets of a frame, emits the frame at its last packet or  *)
(* sets it aside until its parity packet repairs it, while the receiving   *)
(* thread stores the parity packets.  A step of the assembling thread      *)
(* looks a frame up in fec_ once: where a frame begins, at its last packet *)
(* and for each of the zombies.                                            *)
(*                                                                         *)
(* The frames are those of transport/rtp_server.h.  A packet is <<g, k>>,  *)
(* the k-th packet of frame g; capture_ms and the time stamp are g.  The   *)
(* jitter buffer delivers some packets in order and passes over the rest,  *)
(* as InOrderStream says; its 16-bit numbers do not wrap here.             *)
(***************************************************************************)
EXTENDS Integers, Sequences, Fec

CONSTANTS NFrames,     \* bound: number of frames the server sends
          Count,       \* packets of each frame
          Starts,      \* those of them with the beginning of a NAL unit
          Mtu,         \* bytes of the longest packet, cfg_.udp_mtu
          Bytes,       \* those of each packet of each frame
          XorNum(_),   \* exclusive or of a set of packet numbers
          FecLimit,    \* the 64 entries of fec_
          GiveUpAge    \* the 250 ms after which a frame is given up, in ticks

Frames  == 1..NFrames
Data(g) == 0 .. (Count[g] - 1)
Packets == UNION {{g} \X Data(g) : g \in Frames}

ASSUME FramesAssumption ==
    /\ NFrames \in Nat
    /\ Count \in [Frames -> Nat \ {0}]
    /\ \A g \in Frames : Starts[g] \subseteq Data(g) /\ 0 \in Starts[g]

\* A packet that does not end its NAL unit is full.
UnitEnd(g, k) == k + 1 \notin Data(g) \ Starts[g]
ASSUME BytesAssumption ==
    /\ Mtu \in Nat \ {0}
    /\ \A g \in Frames : \A k \in Data(g) :
           Bytes[g][k] \in 1..Mtu /\ (~UnitEnd(g, k) => Bytes[g][k] = Mtu)
ASSUME LimitAssumption == FecLimit \in Nat \ {0} /\ GiveUpAge \in Nat

\* seq_ of the server: packets are numbered through.
First(g) == Cardinality({q \in Packets : q[1] < g})
Num(p) == First(p[1]) + p[2]

ASSUME XorAssumption == \A p \in Packets : XorNum({Num(p)}) = Num(p)

Payload(g) == [k \in Data(g) |-> [terms |-> {<<g, k>>}, size |-> Bytes[g][k]]]

VARIABLES popped,    \* history: the packets the jitter buffer delivered
          cur,       \* cur_
          zombies,   \* zombies_
          at,        \* assemble_loop: at "pop", "ending" a frame or "expiring"
          it,        \* the zombie that expire_zombies comes to
          fec,       \* the frames whose parity packet is in fec_
          storing,   \* the frame whose parity recv_loop is just storing, or 0
          awaited,   \* the frames whose parity packet has not come
          net_lost,  \* Metrics::net_lost, by frame
          out,       \* history: what was pushed to the queue out
          in_time    \* history: frames that ended with their parity in fec_

vars == <<popped, cur, zombies, at, it, fec, storing, awaited, net_lost, out, in_time>>

FrameState == [frame : Frames, raws : SUBSET Nat, marker_seen : BOOLEAN,
               age : 0..(GiveUpAge + 1)]
NotStarted == [frame |-> 0, raws |-> {}, marker_seen |-> FALSE, age |-> 0]

TypeOK ==
    /\ popped \subseteq Packets
    /\ cur \in FrameState \cup {NotStarted}
    /\ zombies \in Seq(FrameState)
    /\ at \in {"pop", "ending", "expiring"}
    /\ it \in 1..(Len(zombies) + 1)
    /\ cur # NotStarted => cur.raws \subseteq Data(cur.frame) /\ cur.raws # {}
    /\ fec \subseteq Frames /\ Cardinality(fec) <= FecLimit
    /\ storing \in Frames \cup {0}
    /\ awaited \subseteq Frames
    /\ net_lost \in [Frames -> Nat]
    /\ in_time \subseteq Frames

Init == /\ popped = {} /\ cur = NotStarted /\ zombies = <<>>
        /\ at = "pop" /\ it = 1
        /\ fec = {} /\ storing = 0 /\ awaited = Frames
        /\ net_lost = [g \in Frames |-> 0]
        /\ out = <<>> /\ in_time = {}

-----------------------------------------------------------------------------
\* The part of a frame between its first and its last packet that came.
Slots(f) == Min(f.raws) .. Max(f.raws)
Missed(f) == Cardinality(Slots(f)) - Cardinality(f.raws)

Complete(f) == Missed(f) = 0 /\ f.marker_seen

HealableUnmarked(f, seen) == Missed(f) = 1 /\ f.frame \in seen
Healable(f, seen) == Missed(f) = 1 /\ f.frame \in seen /\ f.marker_seen

\* fec_recover over the packets that came and the parity packet: what it puts
\* into the empty slot.
RecoveryNoParity(f) == [terms |-> XorOver(TermsOf(Payload(f.frame)), f.raws),
                        size  |-> Longest(Payload(f.frame))]
Recovery(f) ==
    LET known == [k \in Slots(f) \cup {-1} |->
                    CASE k = -1       -> Parity(Payload(f.frame))
                      [] k \in f.raws -> Payload(f.frame)[k]
                      [] OTHER        -> Nothing]
    IN  Recovered(known)[CHOOSE k \in Slots(f) : k \notin f.raws]

\* emit, the slots: a recovered packet goes where its own number says, which is
\* the exclusive or of the numbers of the packets in it.
Ordered(f, extra) ==
    [k \in Slots(f) |->
        IF /\ extra.size # 0
           /\ XorNum({Num(p) : p \in extra.terms}) = Num(<<f.frame, k>>) THEN extra
        ELSE IF k \in f.raws THEN Payload(f.frame)[k] ELSE Nothing]

\* emit, the NAL units: a fragment counts only behind the beginning of its unit,
\* or if it is the exclusive or of several packets, which looks like a unit.
Garbage(d) == Cardinality(d.terms) > 1
Kept(f, ordered, k) ==
    LET units == {a \in Slots(f) : a <= k /\
                    (Garbage(ordered[a]) \/ (a \in Starts[f.frame] /\ ordered[a].size # 0))}
    IN  /\ ordered[k].size # 0
        /\ units # {}
        /\ \/ Max(units) = k
           \/ /\ ~Garbage(ordered[Max(units)])
              /\ Max(units) = Max({a \in Starts[f.frame] : a <= k})

\* emit: nothing is pushed if no unit is left.
Emission(f, extra) ==
    LET ordered == Ordered(f, extra)
        kept == {k \in Slots(f) : Kept(f, ordered, k)}
    IN  IF kept = {} THEN <<>>
        ELSE <<[frame |-> f.frame, units |-> [k \in kept |-> ordered[k]]]>>

-----------------------------------------------------------------------------
\* net_lost grows by the packets of the frame that are missing, and the parity
\* packet that repaired a frame is erased.
CountedButOne(lost, f) == [lost EXCEPT ![f.frame] = @ + Missed(f) - 1]
Counted(lost, f) == [lost EXCEPT ![f.frame] = @ + Missed(f)]
ConsumedNot(entries, g) == entries
Consumed(entries, g) == entries \ {g}

\* The entries that a lookup in fec_ finds.  It does not take fec_mtx_: while
\* recv_loop is inserting it may miss an entry that is there.
Lookups == IF storing = 0 THEN {fec} ELSE SUBSET fec

\* What finalize_frame and expire_zombies do with a frame.
EmitsComplete(f) == /\ Complete(f)
                    /\ out' = out \o Emission(f, Nothing)
                    /\ UNCHANGED <<fec, net_lost>>

EmitsHealed(f) == /\ \E seen \in Lookups : Healable(f, seen)
                  /\ out' = out \o Emission(f, Recovery(f))
                  /\ fec' = Consumed(fec, f.frame)
                  /\ UNCHANGED net_lost

CannotEmit(f) == /\ ~Complete(f)
                 /\ \E seen \in Lookups : ~Healable(f, seen)
                 /\ UNCHANGED <<fec, out>>

GivesUp(f) == net_lost' = Counted(net_lost, f)

-----------------------------------------------------------------------------
(* assemble_loop *)

IsMarker(p) == p[2] = Count[p[1]] - 1

\* The jitter buffer keeps the order.
Before(q, p) == q[1] < p[1] \/ (q[1] = p[1] /\ q[2] < p[2])

Filed(f, p) == [f EXCEPT !.raws = @ \cup {p[2]}, !.marker_seen = @ \/ IsMarker(p)]

\* A packet with the time stamp of cur_ is filed there.
Continues(p) == /\ cur.frame = p[1]
                /\ cur' = Filed(cur, p)
                /\ UNCHANGED <<fec, net_lost, out>>

\* A packet with another one ends cur_ and begins a new frame.
Begins(p) == /\ cur.frame # p[1]
             /\ \/ cur = NotStarted /\ UNCHANGED <<fec, net_lost, out>>
                \/ cur # NotStarted /\ EmitsComplete(cur)
                \/ cur # NotStarted /\ EmitsHealed(cur)
                \/ cur # NotStarted /\ CannotEmit(cur) /\ GivesUp(cur)
             /\ cur' = Filed([NotStarted EXCEPT !.frame = p[1]], p)

Pop(p) == /\ at = "pop"
          /\ \A q \in popped : Before(q, p)
          /\ popped' = popped \cup {p}
          /\ Continues(p) \/ Begins(p)
          /\ at' = IF IsMarker(p) THEN "ending" ELSE "expiring"
          /\ UNCHANGED <<zombies, it, storing, awaited, in_time>>

\* finalize_frame at the last packet: a frame that is emitted stays in cur_.
Ends == /\ at = "ending"
        /\ \/ /\ EmitsComplete(cur) \/ EmitsHealed(cur)
              /\ UNCHANGED <<cur, zombies>>
           \/ /\ CannotEmit(cur)
              /\ IF cur.age < GiveUpAge
                 THEN zombies' = Append(zombies, cur) /\ UNCHANGED net_lost
                 ELSE GivesUp(cur) /\ UNCHANGED zombies
              /\ cur' = NotStarted
        /\ at' = "expiring"
        /\ in_time' = IF storing = 0 /\ cur.frame \in fec
                      THEN in_time \cup {cur.frame} ELSE in_time
        /\ UNCHANGED <<popped, it, storing, awaited>>

-----------------------------------------------------------------------------
(* expire_zombies, one after the other: a zombie that its parity packet    *)
(* repairs is emitted, one that is too old is given up.                    *)

Without(i) == [k \in 1 .. (Len(zombies) - 1) |->
                  IF k < i THEN zombies[k] ELSE zombies[k + 1]]

HealsZombie == /\ at = "expiring" /\ it \in DOMAIN zombies
               /\ EmitsHealed(zombies[it])
               /\ zombies' = Without(it)
               /\ UNCHANGED <<popped, cur, at, it, storing, awaited, in_time>>

PassesZombie == /\ at = "expiring" /\ it \in DOMAIN zombies
                /\ CannotEmit(zombies[it])
                /\ IF zombies[it].age > GiveUpAge
                   THEN GivesUp(zombies[it]) /\ zombies' = Without(it) /\ UNCHANGED it
                   ELSE it' = it + 1 /\ UNCHANGED <<net_lost, zombies>>
                /\ UNCHANGED <<popped, cur, at, storing, awaited, in_time>>

ExpireEnds == /\ at = "expiring" /\ it = Len(zombies) + 1
              /\ at' = "pop" /\ it' = 1
              /\ UNCHANGED <<popped, cur, zombies, fec, storing, awaited, net_lost, out,
                             in_time>>

-----------------------------------------------------------------------------
\* recv_loop with a parity packet: under fec_mtx_ it is inserted, and the oldest
\* entry makes room.
StoreBegins(g) == /\ storing = 0 /\ g \in awaited
                  /\ storing' = g
                  /\ awaited' = awaited \ {g}
                  /\ UNCHANGED <<popped, cur, zombies, at, it, fec, net_lost, out,
                                 in_time>>

RoomMade(entries) ==
    IF Cardinality(entries) > FecLimit THEN entries \ {Min(entries)} ELSE entries

StoreEnds == /\ storing # 0
             /\ fec' = RoomMade(fec \cup {storing})
             /\ storing' = 0
             /\ UNCHANGED <<popped, cur, zombies, at, it, awaited, net_lost, out, in_time>>

Older(f) == [f EXCEPT !.age = IF @ <= GiveUpAge THEN @ + 1 ELSE @]

\* Time passes; expire_zombies reads the clock once.
Tick == /\ at # "expiring"
        /\ cur' = IF cur = NotStarted THEN cur ELSE Older(cur)
        /\ zombies' = [i \in DOMAIN zombies |-> Older(zombies[i])]
        /\ UNCHANGED <<popped, at, it, fec, storing, awaited, net_lost, out, in_time>>

Next == \/ \E p \in Packets : Pop(p)
        \/ Ends
        \/ HealsZombie \/ PassesZombie \/ ExpireEnds
        \/ \E g \in Frames : StoreBegins(g)
        \/ StoreEnds
        \/ Tick

Spec == Init /\ [][Next]_vars

-----------------------------------------------------------------------------
Came(g)   == {k \in Data(g) : <<g, k>> \in popped}
Ended(g)  == <<g, Count[g] - 1>> \in popped
Ending(g) == at = "ending" /\ cur.frame = g
Leaves(g) == {i \in DOMAIN out : out[i].frame = g}
Waits(g)  == \E i \in DOMAIN zombies : zombies[i].frame = g

\* What leaves of a frame with all its packets: they are as they were sent, but zeros
\* follow one that the parity packet brought back, up to the length of the longest, and
\* only where its NAL unit ends.
Restored(g) ==
    [k \in Data(g) |-> IF k \in Came(g) \/ ~UnitEnd(g, k) THEN Payload(g)[k]
                       ELSE Padded(Payload(g)[k], Longest(Payload(g)))]
Whole(i) == out[i].units = Restored(out[i].frame)

\* A frame of which the first packet came leaves whole, received or repaired, at once or
\* from the zombies.
Intact == \A i \in DOMAIN out : 0 \in Came(out[i].frame) => Whole(i)

\* A frame of which both ends came is emitted, waits for its parity packet, or
\* its missing packets are counted: none disappears without a trace.
NoneDisappears ==
    \A g \in Frames : 0 \in Came(g) /\ Ended(g) /\ ~Ending(g) =>
        Leaves(g) # {} \/ Waits(g) \/ net_lost[g] = Count[g] - Cardinality(Came(g))

\* A frame that lacks one packet between its ends leaves at its last packet if its
\* parity packet was there by then.
InnerLossRepaired ==
    \A g \in in_time : /\ 0 \in Came(g)
                       /\ Cardinality(Came(g)) = Count[g] - 1
                       => \E i \in Leaves(g) : Whole(i)

\* A frame leaves more than once only if it was received without a gap, and
\* behind a newer one only if it was not.
Gapless(g) == \A k \in Data(g) : k >= Min(Came(g)) => k \in Came(g)
OutputOrder ==
    \A i, j \in DOMAIN out : i < j =>
        /\ out[i].frame = out[j].frame => /\ Gapless(out[i].frame)
                                          /\ Cardinality(Leaves(out[i].frame)) = 2
        /\ out[i].frame > out[j].frame => ~Gapless(out[j].frame)
=============================================================================
