--------------------------- MODULE UdpLink_proofs ---------------------------
(***************************************************************************)
(* Theorems about UdpLink, for any number of frames, fragments and clients *)
(* and any bounds, cache and ages.                                         *)
(***************************************************************************)
EXTENDS UdpLink, LossSimulator, Fec_proofs

\* The fragments of a frame, and its packets, are finitely many.
LEMMA FrameFacts ==
    ASSUME NEW g \in Frames
    PROVE  /\ g \in Nat /\ Fragments[g] \in 1..(FecSeq - 1)
           /\ Data(g) \subseteq Nat /\ IsFiniteSet(Data(g)) /\ 0 \in Data(g)
           /\ FecSeq \notin Data(g)
           /\ IsFiniteSet(Seqs(g))
           /\ Cardinality(Data(g)) = Fragments[g]
<1>1. g \in Nat /\ Fragments[g] \in 1..(FecSeq - 1)
  BY WireAssumption DEF Frames
<1>2. IsFiniteSet(Data(g)) /\ Cardinality(Data(g)) = Fragments[g]
  <2>1. 0 \in Int /\ Fragments[g] - 1 \in Int /\ ~(0 > Fragments[g] - 1)
        /\ (Fragments[g] - 1) - 0 + 1 = Fragments[g]
    BY <1>1
  <2>2. IsFiniteSet(0 .. (Fragments[g] - 1))
        /\ Cardinality(0 .. (Fragments[g] - 1)) = Fragments[g]
    BY <2>1, FS_Interval
  <2> QED BY <2>2 DEF Data
<1>3. IsFiniteSet(Seqs(g))
  BY <1>2, FS_AddElement DEF Seqs
<1>4. Data(g) \subseteq Nat /\ 0 \in Data(g) /\ FecSeq \notin Data(g)
  <2> DEFINE last == Fragments[g] - 1
  <2>1. last \in Nat /\ last < FecSeq /\ FecSeq \in Nat
    <3>1. FecSeq \in Nat
      BY DEF FecSeq
    <3> QED BY <1>1, <3>1
  <2>2. Data(g) = 0..last
    BY DEF Data
  <2> HIDE DEF last
  <2> QED BY <2>1, <2>2
<1> QED BY <1>1, <1>2, <1>3, <1>4

\* A packet is a pair of a frame and one of its numbers.
LEMMA PacketFacts ==
    /\ \A p \in Packets : p = <<p[1], p[2]>> /\ p[1] \in Frames /\ p[2] \in Seqs(p[1])
    /\ \A g \in Frames : \A k \in Seqs(g) : <<g, k>> \in Packets
BY DEF Packets

\* A NACK is a pair of a frame and some of its fragments.
LEMMA RequestFacts ==
    /\ \A n \in Requests : n[1] \in Frames /\ n[2] \subseteq Data(n[1])
    /\ \A g \in Frames : \A M \in SUBSET Data(g) : <<g, M>> \in Requests
BY DEF Requests

-----------------------------------------------------------------------------
\* The fragments of a frame are packets, all full but the last; the longest is as long
\* as each of the others.
LEMMA PayloadFacts ==
    ASSUME NEW g \in Frames
    PROVE  /\ DOMAIN Payload(g) = Data(g)
           /\ \A k \in Data(g) : /\ IsPacket(Payload(g)[k])
                                 /\ Payload(g)[k].terms = {<<g, k>>}
                                 /\ Payload(g)[k].size \in 1..Chunk
                                 /\ k # LastOf(g) => Payload(g)[k].size = Longest(Payload(g))
           /\ Longest(Payload(g)) \in 1..Chunk
<1>1. Chunk \in Nat \ {0} /\ LastSize[g] \in 1..Chunk
  BY SizeAssumption
<1>2. DOMAIN Payload(g) = Data(g)
  BY DEF Payload
<1>3. ASSUME NEW k \in Data(g)
      PROVE  /\ IsPacket(Payload(g)[k])
             /\ Payload(g)[k].terms = {<<g, k>>}
             /\ Payload(g)[k].size \in 1..Chunk
             /\ k # LastOf(g) => Payload(g)[k].size = Chunk
  BY <1>1 DEF Payload, IsPacket
<1>4. /\ \A k \in Data(g) : Payload(g)[k].size <= Longest(Payload(g))
      /\ \E k \in Data(g) : Payload(g)[k].size = Longest(Payload(g))
  <2>1. \A k \in Data(g) : Payload(g)[k].size \in Nat
    BY <1>1, <1>3
  <2> QED BY <1>2, <2>1, FrameFacts, LongestFacts
<1>5. Longest(Payload(g)) \in 1..Chunk
  BY <1>3, <1>4
<1>6. \A k \in Data(g) : k # LastOf(g) => Payload(g)[k].size = Longest(Payload(g))
  BY <1>1, <1>3, <1>4, <1>5
<1> QED BY <1>2, <1>3, <1>5, <1>6

\* The parity packet of a frame holds every term of it and is as long as its longest
\* fragment.
LEMMA ParityFacts ==
    ASSUME NEW g \in Frames
    PROVE  Parity(Payload(g)) = [terms |-> Terms(g), size |-> Longest(Payload(g))]
<1> DEFINE own == TermsOf(Payload(g))
<1>0. DOMAIN own = Data(g) /\ \A k \in Data(g) : own[k] = {<<g, k>>}
  BY PayloadFacts DEF TermsOf
<1>1. XorOver(own, Data(g)) = OddTerms(own, Data(g))
  BY FrameFacts, XorOverCounts
<1>2. ASSUME NEW k \in Data(g)
      PROVE  Cardinality(Holders(own, Data(g), <<g, k>>)) = 1
  <2>1. Holders(own, Data(g), <<g, k>>) = {k}
    BY <1>0 DEF Holders
  <2> QED BY <2>1, FS_Singleton
<1>3. UNION {own[i] : i \in Data(g)} = Terms(g)
  BY <1>0 DEF Terms
<1>4. ASSUME NEW t \in Terms(g)
      PROVE  Cardinality(Holders(own, Data(g), t)) % 2 = 1
  <2>1. PICK k \in Data(g) : t = <<g, k>>
    BY DEF Terms
  <2> QED BY <2>1, <1>2
<1>5. XorOver(own, Data(g)) = Terms(g)
  BY <1>1, <1>3, <1>4 DEF OddTerms
<1> QED BY <1>5, PayloadFacts DEF Parity, XorOfAll

\* What a packet carries: bytes of its frame, at least one.
LEMMA ContentFacts ==
    ASSUME NEW g \in Frames, NEW k \in Seqs(g)
    PROVE  /\ Content(<<g, k>>) \in Bytes(g) /\ Content(<<g, k>>).size # 0
           /\ k \in Data(g) => Content(<<g, k>>) = Payload(g)[k]
           /\ k = FecSeq => Content(<<g, k>>) = Parity(Payload(g))
<1> DEFINE p == <<g, k>>
<1>0. p[1] = g /\ p[2] = k /\ Chunk \in Nat
  BY SizeAssumption
<1>1. CASE k \in Data(g)
  <2>1. k # FecSeq
    BY <1>1, FrameFacts
  <2>2. Content(p) = Payload(g)[k]
    BY <1>0, <2>1, Zenon DEF Content
  <2>3. Payload(g)[k] \in Bytes(g) /\ Payload(g)[k].size # 0
    <3>1. /\ Payload(g)[k] = [terms |-> {<<g, k>>}, size |-> Payload(g)[k].size]
          /\ Payload(g)[k].size \in 1..Chunk
      BY <1>1, PayloadFacts, Zenon DEF IsPacket
    <3>2. {<<g, k>>} \in SUBSET Terms(g) /\ Payload(g)[k].size \in 0..Chunk
          /\ Payload(g)[k].size # 0
      BY <1>0, <1>1, <3>1 DEF Terms
    <3>3. [terms |-> {<<g, k>>}, size |-> Payload(g)[k].size] \in Bytes(g)
      BY <3>2 DEF Bytes
    <3> QED BY <3>1, <3>2, <3>3, Zenon
  <2> QED BY <1>1, <2>1, <2>2, <2>3
<1>2. CASE k = FecSeq
  <2>1. Content(p) = Parity(Payload(g))
    BY <1>0, <1>2, Zenon DEF Content
  <2>2. k \notin Data(g)
    BY <1>2, FrameFacts
  <2>3. Parity(Payload(g)) \in Bytes(g) /\ Parity(Payload(g)).size # 0
    BY <1>0, ParityFacts, PayloadFacts DEF Bytes
  <2> QED BY <1>2, <2>1, <2>2, <2>3
<1> QED BY <1>1, <1>2 DEF Seqs

-----------------------------------------------------------------------------
\* What a group knows of a packet is nothing or what the server put into it.
Genuine(g, group) == \A k \in Seqs(g) : group.known[k] \in {Nothing, Content(<<g, k>>)}

\* The holes of a group are numbers of its frame, finitely many.
LEMMA HoleFacts ==
    ASSUME NEW g \in Frames, NEW group \in Groups(g)
    PROVE  /\ DOMAIN group.known = Seqs(g)
           /\ Holes(group.known) \subseteq Seqs(g) /\ IsFiniteSet(Holes(group.known))
           /\ Cardinality(Holes(group.known)) \in Nat
           /\ Missing(group) \subseteq Data(g)
           /\ \A k \in Seqs(g) : k \in Holes(group.known) <=> group.known[k].size = 0
<1>1. DOMAIN group.known = Seqs(g)
  BY DEF Groups
<1>2. Holes(group.known) \subseteq Seqs(g)
      /\ \A k \in Seqs(g) : k \in Holes(group.known) <=> group.known[k].size = 0
  BY <1>1 DEF Holes
<1>3. IsFiniteSet(Holes(group.known)) /\ Cardinality(Holes(group.known)) \in Nat
  BY <1>2, FrameFacts, FS_Subset, FS_CardinalityType
<1>4. Missing(group) \subseteq Data(g)
  BY <1>2 DEF Missing, Seqs
<1> QED BY <1>1, <1>2, <1>3, <1>4

\* A group that can neither be completed nor recovered lacks two of its packets.
LEMMA NotReady ==
    ASSUME NEW g \in Frames, NEW group \in Groups(g), ~Complete(group), ~ByFec(group)
    PROVE  Cardinality(Holes(group.known)) >= 2
<1> DEFINE H == Holes(group.known)
<1>1. IsFiniteSet(H) /\ Cardinality(H) \in Nat
  BY HoleFacts
<1>2. PICK k \in H : k # FecSeq
  BY DEF Complete, Missing
<1>3. Cardinality(H) # 0
  BY <1>1, <1>2, FS_EmptySet
<1>4. Cardinality(H) # 1
  <2>1. ASSUME Cardinality(H) = 1 PROVE FALSE
    <3>1. FecSeq \in H
      BY <2>1 DEF ByFec, Recoverable
    <3>2. \E x : H = {x}
      BY <1>1, <2>1, FS_Singleton
    <3> QED BY <1>2, <3>1, <3>2
  <2> QED BY <2>1
<1> QED BY <1>1, <1>3, <1>4

\* The frame that finish hands over is the one the server cut into packets, but for the
\* zeros behind a recovered last fragment.
LEMMA AssembledIsPayload ==
    ASSUME NEW g \in Frames, NEW group \in Groups(g), Genuine(g, group),
           Complete(group) \/ ByFec(group)
    PROVE  Assembled(group, g) \in {Payload(g), ZerosAtEnd(g)}
<1> DEFINE known == group.known
<1>1. DOMAIN known = Seqs(g) /\ \A k \in Seqs(g) : k \in Holes(known) <=> known[k].size = 0
  BY HoleFacts
<1>0. \A k \in Seqs(g) : k \in Holes(known) <=> known[k] = Nothing
  <2>1. ASSUME NEW k \in Seqs(g)
        PROVE  k \in Holes(known) <=> known[k] = Nothing
    <3>1. known[k] = Nothing \/ known[k] = Content(<<g, k>>)
      BY <2>1 DEF Genuine
    <3>2. Content(<<g, k>>).size # 0
      BY ContentFacts
    <3>3. Nothing.size = 0
      BY DEF Nothing
    <3> QED BY <1>1, <3>1, <3>2, <3>3
  <2> QED BY <2>1
<1>2. ASSUME NEW k \in Data(g), k \notin Holes(known) PROVE known[k] = Payload(g)[k]
  BY <1>0, <1>2, ContentFacts DEF Genuine, Seqs
<1>3. CASE Complete(group)
  <2>1. ASSUME NEW k \in Data(g) PROVE known[k] = Payload(g)[k]
    <3>1. k \notin Holes(known)
      BY <1>3, FrameFacts DEF Complete, Missing
    <3> QED BY <1>2, <3>1
  <2>2. Assembled(group, g) = [k \in Data(g) |-> known[k]]
    BY <1>3 DEF Assembled
  <2>3. Assembled(group, g) = Payload(g)
    BY <2>1, <2>2 DEF Payload
  <2> QED BY <2>3
<1>4. CASE ~Complete(group) /\ ByFec(group)
  <2>1. FecSeq \notin Holes(known) /\ FecSeq \in Seqs(g)
    BY <1>4 DEF ByFec, Seqs
  <2>2. PICK h \in Data(g) : Holes(known) = {h}
    <3>1. \E x : Holes(known) = {x}
      BY <1>4, HoleFacts, FS_Singleton DEF ByFec, Recoverable
    <3>2. Holes(known) \subseteq Data(g)
      BY <2>1, HoleFacts DEF Seqs
    <3> QED BY <3>1, <3>2
  <2>3. known[FecSeq] = Parity(Payload(g))
    BY <1>0, <2>1, ContentFacts DEF Genuine
  <2>4. LacksOne(known, Payload(g), h, FecSeq)
    <3>1. \A i \in Data(g) \ {h} : known[i] = Payload(g)[i]
      BY <1>2, <2>2
    <3>2. known[h] = Nothing
      BY <1>0, <2>2 DEF Seqs
    <3> QED BY <1>1, <2>2, <2>3, <3>1, <3>2, FrameFacts, PayloadFacts DEF LacksOne, Seqs
  <2>5. /\ Recovered(known)[h] = Padded(Payload(g)[h], Longest(Payload(g)))
        /\ \A k \in Data(g) \ {h} : Recovered(known)[k] = Payload(g)[k]
    BY <2>4, Repairs, PayloadFacts
  <2>6. Assembled(group, g) = [k \in Data(g) |-> Recovered(known)[k]]
    BY <1>4 DEF Assembled
  <2>7. CASE h = LastOf(g)
    <3>1. ZerosAtEnd(g) = [k \in Data(g) |->
              IF k = h THEN Padded(Payload(g)[h], Longest(Payload(g))) ELSE Payload(g)[k]]
      BY <2>7, PayloadFacts DEF ZerosAtEnd
    <3> QED BY <2>5, <2>6, <3>1
  <2>8. CASE h # LastOf(g)
    <3>1. Padded(Payload(g)[h], Longest(Payload(g))) = Payload(g)[h]
      BY <2>8, PayloadFacts DEF Padded, IsPacket
    <3>2. \A k \in Data(g) : Recovered(known)[k] = Payload(g)[k]
      BY <2>5, <3>1
    <3>3. Assembled(group, g) = Payload(g)
      BY <2>6, <3>2 DEF Payload
    <3> QED BY <3>3
  <2> QED BY <2>7, <2>8
<1> QED BY <1>3, <1>4

-----------------------------------------------------------------------------
(* The inductive invariant: types, what send_frame is at, and groups that  *)
(* know only what the server sent and wait for at least two packets.       *)

SendInv == sending => frame \in Frames /\ next_seq \in Seqs(frame)
GroupInv == \A c \in Clients : \A g \in DOMAIN groups[c] : Genuine(g, groups[c][g])
LinkInv == TypeOK /\ SendInv /\ GroupInv /\ Intact /\ NoReadyGroupWaits

\* At first there is no group and nothing was handed out.
LEMMA InitLink == Init => LinkInv
<1> SUFFICES ASSUME Init PROVE LinkInv
  OBVIOUS
<1>1. WireType
  BY WireAssumption DEF Init, WireInit, WireType
<1>2. ServerType /\ SendInv
  <2>1. clients = {} /\ frame = 1 /\ next_seq = 0 /\ sending = FALSE /\ items = <<>>
    BY DEF Init, ServerInit
  <2>4. NFrames \in Nat
    BY WireAssumption
  <2>5. FecSeq \in Nat
    BY DEF FecSeq
  <2>2. FecSeq \in Nat /\ NFrames \in Nat
    BY <2>4, <2>5
  <2>3. next_seq \in 0..FecSeq /\ frame \in 1..(NFrames + 1) /\ items \in Seq(Packets)
    BY <2>1, <2>2
  <2> QED BY <2>1, <2>3 DEF ServerType, SendInv
<1>3. /\ DOMAIN groups = Clients /\ DOMAIN handed = Clients
      /\ \A c \in Clients : DOMAIN groups[c] = {} /\ handed[c] = {}
      /\ given_up \in [Clients -> SUBSET Frames]
  BY DEF Init, ReceiverInit
<1>4. ReceiverType /\ GroupInv /\ Intact /\ NoReadyGroupWaits
  BY <1>3 DEF ReceiverType, GroupInv, Intact, NoReadyGroupWaits
<1>5. owed \in [Clients -> SUBSET Frames]
  BY DEF Init
<1> QED BY <1>1, <1>2, <1>4, <1>5 DEF LinkInv, TypeOK

\* Whatever is injected, the network holds at most MaxCopies of each packet.
LEMMA InjectType ==
    ASSUME WireType, NEW C \in SUBSET Clients, NEW P \in SUBSET Packets, Inject(C, P)
    PROVE  /\ net' \in [Clients -> [Packets -> 0..MaxCopies]]
           /\ dropped' \in [Clients -> SUBSET Packets]
<1>1. PICK kept \in SUBSET P :
        /\ Room(C, kept)
        /\ net' = SetOut(C, kept)
        /\ dropped' = [c \in Clients |->
                         IF c \in C THEN dropped[c] \cup (P \ kept) ELSE dropped[c]]
  BY DEF Inject
<1>2. ASSUME NEW c \in Clients, NEW p \in Packets
      PROVE  (IF c \in C /\ p \in kept THEN net[c][p] + 1 ELSE net[c][p]) \in 0..MaxCopies
  <2>1. net[c][p] \in 0..MaxCopies /\ MaxCopies \in Nat
    BY WireAssumption DEF WireType
  <2>2. c \in C /\ p \in kept => net[c][p] < MaxCopies
    BY <1>1 DEF Room
  <2> QED BY <2>1, <2>2
<1>3. net' \in [Clients -> [Packets -> 0..MaxCopies]]
  BY <1>1, <1>2 DEF SetOut
<1>4. dropped' \in [Clients -> SUBSET Packets]
  BY <1>1 DEF WireType
<1> QED BY <1>3, <1>4

\* remember keeps the cache a sequence of packets.
LEMMA RememberType ==
    ASSUME items \in Seq(Packets), NEW p \in Packets
    PROVE  Remember(p) \in Seq(Packets)
<1>1. CASE Len(items) >= CacheSize /\ CacheSize # 0
  <2>1. items # <<>>
    BY <1>1, CacheAssumption
  <2>2. Tail(items) \in Seq(Packets)
    BY <2>1
  <2> DEFINE t == Tail(items)
  <2> HIDE DEF t
  <2>3. Append(t, p) \in Seq(Packets)
    BY <2>2 DEF t
  <2> QED BY <1>1, <2>3 DEF t, Remember
<1>2. CASE ~(Len(items) >= CacheSize /\ CacheSize # 0)
  BY <1>2 DEF Remember
<1> QED BY <1>1, <1>2

\* One call of emit.
LEMMA EmitStep ==
    ASSUME WireType, ServerType, SendInv, Emit
    PROVE  WireType' /\ ServerType' /\ SendInv'
<1> DEFINE p == <<frame, next_seq>>
<1>1. frame \in Frames /\ next_seq \in Seqs(frame) /\ p \in Packets /\ clients \subseteq Clients
  BY PacketFacts DEF Emit, SendInv, ServerType
<1>2. frame \in Nat /\ Fragments[frame] \in 1..(FecSeq - 1) /\ NFrames \in Nat
      /\ FecSeq \in Nat /\ FecSeq \notin Data(frame)
  <2>1. FecSeq \in Nat
    BY DEF FecSeq
  <2> QED BY <1>1, <2>1, FrameFacts, WireAssumption
<1>3. WireType'
  <2>1. Inject(clients, {p}) /\ nacks' = nacks
    BY DEF Emit
  <2> QED BY <1>1, <2>1, InjectType DEF WireType
<1>4. items' \in Seq(Packets)
  BY <1>1, RememberType DEF Emit, ServerType
<1>5. CASE next_seq = FecSeq
  <2>1. next_seq' = 0 /\ sending' = FALSE /\ frame' = frame + 1 /\ clients' = clients
    <3>1. sending' = (next_seq # FecSeq) /\ clients' = clients
          /\ frame' = IF next_seq = FecSeq THEN frame + 1 ELSE frame
      BY DEF Emit
    <3>2. next_seq' = CASE next_seq = FecSeq -> 0
                        [] next_seq = Fragments[frame] - 1 -> FecSeq
                        [] OTHER -> next_seq + 1
      BY DEF Emit
    <3>3. next_seq # Fragments[frame] - 1
      BY <1>2, <1>5 DEF Data
    <3> QED BY <1>5, <3>1, <3>2, <3>3
  <2>3. next_seq' \in 0..FecSeq
    BY <1>2, <2>1
  <2>2. frame' \in 1..(NFrames + 1)
    BY <1>1, <1>2, <2>1 DEF Frames
  <2>4. ServerType'
    BY <1>1, <1>4, <2>1, <2>2, <2>3 DEF ServerType
  <2> QED BY <1>3, <2>1, <2>4 DEF SendInv
<1>6. CASE next_seq # FecSeq
  <2>1. next_seq \in 0 .. (Fragments[frame] - 1)
    BY <1>1, <1>6 DEF Seqs, Data
  <2>2. sending' = TRUE /\ frame' = frame /\ clients' = clients
    BY <1>6, Zenon DEF Emit
  <2>3. next_seq' = IF next_seq = Fragments[frame] - 1 THEN FecSeq ELSE next_seq + 1
    BY <1>6 DEF Emit
  <2>4. next_seq' \in Seqs(frame) /\ next_seq' \in 0..FecSeq
    <3>1. CASE next_seq = Fragments[frame] - 1
      BY <1>2, <2>3, <3>1 DEF Seqs
    <3>2. CASE next_seq # Fragments[frame] - 1
      <4>1. next_seq + 1 \in 0 .. (Fragments[frame] - 1) /\ next_seq + 1 \in 0..FecSeq
        BY <1>2, <2>1, <3>2
      <4> QED BY <2>3, <3>2, <4>1 DEF Seqs, Data
    <3> QED BY <3>1, <3>2
  <2> QED BY <1>1, <1>3, <1>4, <2>2, <2>4 DEF ServerType, SendInv
<1> QED BY <1>5, <1>6

\* A NACK brings cached packets on their way once more.
LEMMA NackStep ==
    ASSUME WireType, ServerType, NEW n \in nacks, HandleNack(n)
    PROVE  WireType' /\ ServerType'
<1>1. Cached \subseteq Packets
  BY DEF Cached, ServerType
<1>2. Found(n) \in SUBSET Packets /\ clients \in SUBSET Clients
  BY <1>1 DEF Found, ServerType
<1>3. Inject(clients, Found(n)) /\ nacks' \subseteq nacks
  BY DEF HandleNack
<1>4. WireType'
  BY <1>2, <1>3, InjectType DEF WireType
<1>5. ServerType'
  BY DEF HandleNack, serverVars, ServerType
<1> QED BY <1>4, <1>5

-----------------------------------------------------------------------------
\* Nothing reached the receiver: what it keeps is as it was.
LEMMA ReceiverStutter ==
    ASSUME LinkInv, UNCHANGED receiverVars
    PROVE  ReceiverType' /\ GroupInv' /\ Intact' /\ NoReadyGroupWaits'
BY DEF LinkInv, TypeOK, receiverVars, ReceiverType, GroupInv, Intact, NoReadyGroupWaits

\* A group with a packet of its frame filed.
LEMMA FiledFacts ==
    ASSUME LinkInv, NEW c \in Clients, NEW p \in Packets
    PROVE  Filed(c, p) \in Groups(p[1]) /\ Genuine(p[1], Filed(c, p))
<1> DEFINE g == p[1]
           k == p[2]
           old == IF g \in DOMAIN groups[c] THEN groups[c][g] ELSE NewGroup(g)
<1>1. p = <<g, k>> /\ g \in Frames /\ k \in Seqs(g)
  BY PacketFacts
<1>2. old \in Groups(g) /\ Genuine(g, old)
  <2>1. CASE g \in DOMAIN groups[c]
    BY <2>1 DEF LinkInv, TypeOK, ReceiverType, GroupInv
  <2>2. CASE g \notin DOMAIN groups[c]
    <3>1. NewGroup(g) \in Groups(g)
      BY AgeAssumption, SizeAssumption DEF NewGroup, Groups, Bytes, Nothing
    <3>2. Genuine(g, NewGroup(g))
      BY DEF NewGroup, Genuine
    <3> QED BY <2>2, <3>1, <3>2
  <2> QED BY <2>1, <2>2
<1>3. Content(p) \in Bytes(g)
  BY <1>1, ContentFacts
<1> HIDE DEF old
<1>4. Filed(c, p) = [old EXCEPT !.known[k] = Content(p)]
  BY DEF Filed, old
<1>5. Filed(c, p) \in Groups(g)
  BY <1>1, <1>2, <1>3, <1>4 DEF Groups
<1>6. ASSUME NEW j \in Seqs(g)
      PROVE  Filed(c, p).known[j] = IF j = k THEN Content(p) ELSE old.known[j]
  BY <1>1, <1>2, <1>4 DEF Groups
<1>7. Genuine(g, Filed(c, p))
  BY <1>1, <1>2, <1>6 DEF Genuine
<1> QED BY <1>5, <1>7

\* A received packet: its frame is handed over whole, or its group waits on with at
\* least two packets missing, or is given up.
LEMMA ReceiveStep ==
    ASSUME LinkInv, NEW c \in Clients, NEW p \in Packets, Receive(c, p)
    PROVE  WireType' /\ ReceiverType' /\ GroupInv' /\ Intact' /\ NoReadyGroupWaits'
<1> DEFINE g == p[1]
           group == Filed(c, p)
<1>1. g \in Frames /\ group \in Groups(g) /\ Genuine(g, group)
  BY PacketFacts, FiledFacts
<1>2. /\ DOMAIN groups = Clients /\ DOMAIN handed = Clients
      /\ \A d \in Clients : /\ DOMAIN groups[d] \subseteq Frames
                            /\ \A h \in DOMAIN groups[d] : /\ groups[d][h] \in Groups(h)
                                                          /\ Genuine(h, groups[d][h])
      /\ given_up \in [Clients -> SUBSET Frames]
  BY DEF LinkInv, TypeOK, ReceiverType, GroupInv
<1>3. net' \in [Clients -> [Packets -> 0..MaxCopies]] /\ dropped' = dropped
  <2>1. net[c][p] \in 0..MaxCopies /\ net[c][p] > 0 /\ MaxCopies \in Nat
    BY WireAssumption DEF LinkInv, TypeOK, WireType, Receive
  <2>2. net[c][p] - 1 \in 0..MaxCopies
    BY <2>1
  <2>3. net' = [net EXCEPT ![c][p] = @ - 1] /\ dropped' = dropped
    BY DEF Receive
  <2> QED BY <2>2, <2>3 DEF LinkInv, TypeOK, WireType
<1> HIDE DEF group
<1>4. CASE Complete(group) \/ ByFec(group)
  <2>1. /\ groups' = [groups EXCEPT ![c] = WithoutGroup(c, g)]
        /\ handed' = [handed EXCEPT ![c] = @ \cup {<<g, Assembled(group, g)>>}]
        /\ given_up' = given_up /\ nacks' = nacks
    BY <1>4 DEF Receive, Finish, group
  <2>2. Assembled(group, g) \in {Payload(g), ZerosAtEnd(g)}
    BY <1>1, <1>4, AssembledIsPayload
  <2>3. \A d \in Clients : /\ DOMAIN groups'[d] \subseteq DOMAIN groups[d]
                           /\ \A h \in DOMAIN groups'[d] : groups'[d][h] = groups[d][h]
    BY <1>2, <2>1 DEF WithoutGroup
  <2>4. Intact'
    <3>1. ASSUME NEW d \in Clients, NEW f \in handed'[d]
          PROVE  f[2] \in {Payload(f[1]), ZerosAtEnd(f[1])}
      <4>1. f \in handed[d] \/ f = <<g, Payload(g)>> \/ f = <<g, ZerosAtEnd(g)>>
        BY <1>2, <2>1, <2>2
      <4> QED BY <4>1 DEF LinkInv, Intact
    <3> QED BY <3>1 DEF Intact
  <2>5. WireType'
    BY <1>3, <2>1 DEF LinkInv, TypeOK, WireType
  <2>6. ReceiverType'
    BY <1>2, <2>1, <2>3 DEF ReceiverType
  <2>7. GroupInv' /\ NoReadyGroupWaits'
    BY <1>2, <2>3 DEF LinkInv, GroupInv, NoReadyGroupWaits
  <2> QED BY <2>4, <2>5, <2>6, <2>7
<1>5. CASE ~(Complete(group) \/ ByFec(group))
  <2>1. KeepWaiting(c, g, group)
    BY <1>5 DEF Receive, group
  <2>2. handed' = handed /\ nacks' \subseteq nacks \cup {<<g, Missing(group)>>}
    BY <2>1 DEF KeepWaiting, SendNack
  <2>3. WireType'
    <3>1. <<g, Missing(group)>> \in Requests
      BY <1>1, HoleFacts, RequestFacts
    <3> QED BY <1>3, <2>2, <3>1 DEF LinkInv, TypeOK, WireType
  <2>4. PICK next \in Groups(g) :
          /\ next.known = group.known
          /\ groups' \in {[groups EXCEPT ![c] = WithoutGroup(c, g)],
                          [groups EXCEPT ![c] = WithGroup(c, g, next)]}
    <3> DEFINE next == IF NackDue(group) THEN [group EXCEPT !.nacked = 0] ELSE group
    <3>1. next \in Groups(g) /\ next.known = group.known
      BY <1>1, AgeAssumption DEF Groups
    <3>2. groups' \in {[groups EXCEPT ![c] = WithoutGroup(c, g)],
                      [groups EXCEPT ![c] = WithGroup(c, g, next)]}
      BY <2>1, Zenon DEF KeepWaiting
    <3> QED BY <3>1, <3>2
  <2>5. DOMAIN groups' = Clients
    BY <1>2, <2>4
  <2>6. ASSUME NEW d \in Clients, NEW h \in DOMAIN groups'[d]
        PROVE  \/ h \in DOMAIN groups[d] /\ groups'[d][h] = groups[d][h]
               \/ h = g /\ groups'[d][h] = next
    BY <1>2, <2>4 DEF WithoutGroup, WithGroup
  <2>7. Missing(next) = Missing(group) /\ Holes(next.known) = Holes(group.known)
    BY <2>4 DEF Missing
  <2>8. ~Complete(next) /\ Cardinality(Holes(next.known)) >= 2
    BY <1>1, <1>5, <2>7, NotReady DEF Complete
  <2>9. given_up' \in [Clients -> SUBSET Frames]
    BY <1>1, <1>2, <2>1 DEF KeepWaiting
  <2>10. ReceiverType'
    BY <1>1, <1>2, <2>2, <2>4, <2>5, <2>6, <2>9 DEF ReceiverType
  <2>11. GroupInv'
    BY <1>1, <1>2, <2>4, <2>6 DEF GroupInv, Genuine
  <2>12. NoReadyGroupWaits'
    BY <2>6, <2>8 DEF LinkInv, NoReadyGroupWaits
  <2>13. Intact'
    BY <2>2 DEF LinkInv, Intact
  <2> QED BY <2>3, <2>10, <2>11, <2>12, <2>13
<1> QED BY <1>4, <1>5

\* Time passes for the groups; what they know stays.
LEMMA AgeStep ==
    ASSUME LinkInv, GroupsAge
    PROVE  ReceiverType' /\ GroupInv' /\ Intact' /\ NoReadyGroupWaits'
<1>1. /\ DOMAIN groups = Clients /\ DOMAIN handed = Clients
      /\ \A d \in Clients : /\ DOMAIN groups[d] \subseteq Frames
                            /\ \A h \in DOMAIN groups[d] : groups[d][h] \in Groups(h)
  BY DEF LinkInv, TypeOK, ReceiverType
<1>2. handed' = handed /\ given_up' = given_up
  BY DEF GroupsAge
<1>3. /\ DOMAIN groups' = Clients
      /\ \A d \in Clients : /\ DOMAIN groups'[d] = DOMAIN groups[d]
                            /\ \A h \in DOMAIN groups[d] : groups'[d][h] =
                                  [groups[d][h] EXCEPT !.age = Older(@, GiveUpAge + 1),
                                                       !.nacked = Older(@, NackInterval)]
  BY DEF GroupsAge
<1>4. ASSUME NEW h, NEW group \in Groups(h)
      PROVE  LET next == [group EXCEPT !.age = Older(@, GiveUpAge + 1),
                                       !.nacked = Older(@, NackInterval)]
             IN  next \in Groups(h) /\ next.known = group.known
  <2>1. group.age \in 0..(GiveUpAge + 1) /\ group.nacked \in 0..NackInterval
    BY DEF Groups
  <2>2. Older(group.age, GiveUpAge + 1) \in 0..(GiveUpAge + 1)
        /\ Older(group.nacked, NackInterval) \in 0..NackInterval
    BY <2>1, AgeAssumption DEF Older
  <2> HIDE DEF Older
  <2> QED BY <2>2 DEF Groups
<1>5. \A d \in Clients : \A h \in DOMAIN groups[d] :
         groups'[d][h] \in Groups(h) /\ groups'[d][h].known = groups[d][h].known
  <2>1. ASSUME NEW d \in Clients, NEW h \in DOMAIN groups[d]
        PROVE  groups'[d][h] \in Groups(h) /\ groups'[d][h].known = groups[d][h].known
    <3>1. groups[d][h] \in Groups(h)
      BY <1>1
    <3>2. groups'[d][h] = [groups[d][h] EXCEPT !.age = Older(@, GiveUpAge + 1),
                                              !.nacked = Older(@, NackInterval)]
      BY <1>3
    <3> HIDE DEF Older
    <3> QED BY <1>4, <3>1, <3>2
  <2> QED BY <2>1
<1>6. ReceiverType'
  BY <1>1, <1>2, <1>3, <1>5 DEF LinkInv, TypeOK, ReceiverType
<1>7. GroupInv'
  BY <1>3, <1>5 DEF LinkInv, GroupInv, Genuine
<1>8. NoReadyGroupWaits'
  <2>1. ASSUME NEW d \in Clients, NEW h \in DOMAIN groups'[d]
        PROVE  /\ ~Complete(groups'[d][h])
               /\ Cardinality(Holes(groups'[d][h].known)) >= 2
    <3>1. h \in DOMAIN groups[d] /\ groups'[d][h].known = groups[d][h].known
      BY <1>3, <1>5
    <3>2. /\ ~Complete(groups[d][h])
          /\ Cardinality(Holes(groups[d][h].known)) >= 2
      BY <3>1 DEF LinkInv, NoReadyGroupWaits
    <3> QED BY <3>1, <3>2 DEF Complete, Missing
  <2> QED BY <2>1 DEF NoReadyGroupWaits
<1>9. Intact'
  BY <1>2 DEF LinkInv, Intact
<1> QED BY <1>6, <1>7, <1>8, <1>9

\* The network loses something.
LEMMA DropStep ==
    ASSUME WireType, Drop
    PROVE  WireType'
<1>1. ASSUME NEW c \in Clients, NEW p \in Packets, Lose(c, p) PROVE WireType'
  <2>1. net[c][p] \in 0..MaxCopies /\ net[c][p] > 0 /\ MaxCopies \in Nat
    BY <1>1, WireAssumption DEF WireType, Lose
  <2>2. net[c][p] - 1 \in 0..MaxCopies
    BY <2>1
  <2> QED BY <1>1, <2>2 DEF WireType, Lose
<1>2. ASSUME NEW n \in nacks, LoseNack(n) PROVE WireType'
  BY <1>2 DEF WireType, LoseNack
<1> QED BY <1>1, <1>2 DEF Drop

\* Every step keeps the invariant.
LEMMA NextLink == LinkInv /\ [Next]_vars => LinkInv'
<1> SUFFICES ASSUME LinkInv, [Next]_vars PROVE LinkInv'
  OBVIOUS
<1>0. /\ WireType /\ ServerType /\ ReceiverType /\ owed \in [Clients -> SUBSET Frames]
      /\ SendInv
  BY DEF LinkInv, TypeOK
<1>1. CASE Broadcast
  <2>1. UNCHANGED wireVars /\ UNCHANGED receiverVars /\ UNCHANGED <<clients, frame, items>>
        /\ frame \in Frames /\ next_seq' = 0 /\ sending' = TRUE
    BY <1>1 DEF Broadcast, BroadcastFrame
  <2>2. 0 \in Seqs(frame) /\ 0 \in 0..FecSeq
    <3>1. FecSeq \in Nat
      BY DEF FecSeq
    <3>2. 0 \in Data(frame)
      BY <2>1, FrameFacts
    <3> QED BY <3>1, <3>2 DEF Seqs
  <2>3. WireType' /\ ServerType' /\ SendInv'
    BY <1>0, <2>1, <2>2 DEF wireVars, WireType, ServerType, SendInv
  <2>4. owed' \in [Clients -> SUBSET Frames]
    BY <1>0, <1>1, <2>1 DEF Broadcast
  <2> QED BY <2>1, <2>3, <2>4, ReceiverStutter DEF LinkInv, TypeOK
<1>2. CASE ServerStep
  <2>1. UNCHANGED receiverVars /\ owed' = owed
    BY <1>2 DEF ServerStep
  <2>2. WireType' /\ ServerType' /\ SendInv'
    <3>1. CASE Emit
      BY <1>0, <3>1, EmitStep
    <3>2. CASE SkipFrame
      <4>1. frame + 1 \in 1..(NFrames + 1)
        BY <3>2, WireAssumption DEF SkipFrame, Frames
      <4> QED BY <1>0, <3>2, <4>1
            DEF SkipFrame, wireVars, WireType, ServerType, SendInv
    <3> QED BY <1>2, <3>1, <3>2 DEF ServerStep
  <2> QED BY <1>0, <2>1, <2>2, ReceiverStutter DEF LinkInv, TypeOK
<1>3. ASSUME NEW c \in Clients, Ping(c) PROVE LinkInv'
  <2>1. UNCHANGED receiverVars /\ owed' = owed /\ UNCHANGED wireVars
        /\ UNCHANGED <<frame, next_seq, sending, items>> /\ clients' = clients \cup {c}
    BY <1>3 DEF Ping, HandlePing
  <2>2. WireType' /\ ServerType' /\ SendInv'
    BY <1>0, <2>1 DEF wireVars, WireType, ServerType, SendInv
  <2> QED BY <1>0, <2>1, <2>2, ReceiverStutter DEF LinkInv, TypeOK
<1>4. ASSUME NEW n \in nacks, Answer(n) PROVE LinkInv'
  <2>1. UNCHANGED receiverVars /\ owed' = owed /\ HandleNack(n)
    BY <1>4 DEF Answer
  <2>2. SendInv'
    BY <1>0, <2>1 DEF HandleNack, serverVars, SendInv
  <2> QED BY <1>0, <2>1, <2>2, NackStep, ReceiverStutter DEF LinkInv, TypeOK
<1>5. ASSUME NEW c \in Clients, NEW p \in Packets, Deliver(c, p) PROVE LinkInv'
  <2>1. Receive(c, p) /\ UNCHANGED serverVars /\ owed' = owed
    BY <1>5 DEF Deliver
  <2>2. ServerType' /\ SendInv'
    BY <1>0, <2>1 DEF serverVars, ServerType, SendInv
  <2> QED BY <1>0, <2>1, <2>2, ReceiveStep DEF LinkInv, TypeOK
<1>6. CASE Drop
  <2>1. UNCHANGED receiverVars /\ UNCHANGED serverVars /\ owed' = owed
    BY <1>6 DEF Drop
  <2>2. ServerType' /\ SendInv'
    BY <1>0, <2>1 DEF serverVars, ServerType, SendInv
  <2> QED BY <1>0, <1>6, <2>1, <2>2, DropStep, ReceiverStutter DEF LinkInv, TypeOK
<1>7. CASE Tick
  <2>1. GroupsAge /\ UNCHANGED wireVars /\ UNCHANGED serverVars /\ owed' = owed
    BY <1>7 DEF Tick
  <2>2. WireType' /\ ServerType' /\ SendInv'
    BY <1>0, <2>1 DEF wireVars, serverVars, WireType, ServerType, SendInv
  <2> QED BY <1>0, <2>1, <2>2, AgeStep DEF LinkInv, TypeOK
<1>8. CASE UNCHANGED vars
  <2>1. UNCHANGED wireVars /\ UNCHANGED serverVars /\ UNCHANGED receiverVars /\ owed' = owed
    BY <1>8 DEF vars
  <2>2. WireType' /\ ServerType' /\ SendInv'
    BY <1>0, <2>1 DEF wireVars, serverVars, WireType, ServerType, SendInv
  <2> QED BY <1>0, <2>1, <2>2, ReceiverStutter DEF LinkInv, TypeOK
<1> QED BY <1>1, <1>2, <1>3, <1>4, <1>5, <1>6, <1>7, <1>8 DEF Next

\* The invariant holds throughout.
LEMMA AlwaysLinkInv == Spec => []LinkInv
  BY InitLink, NextLink, PTL DEF Spec

\* Type correctness of the whole link, for any number of frames, fragments and clients.
THEOREM TypeCorrect == Spec => []TypeOK
<1>1. LinkInv => TypeOK
  BY DEF LinkInv
<1> QED BY <1>1, AlwaysLinkInv, PTL

\* What reaches a jitter buffer is what the encoder produced, received or recovered, but
\* for zeros at the end of the frame, for any loss, duplication and reordering and
\* fragments of any length.
THEOREM AlwaysIntact == Spec => []Intact
<1>1. LinkInv => Intact
  BY DEF LinkInv
<1> QED BY <1>1, AlwaysLinkInv, PTL

\* No group that could be finished waits: a packet that completes a frame, in whatever
\* order it comes, hands the frame over at once.
THEOREM AlwaysNoReadyGroupWaits == Spec => []NoReadyGroupWaits
<1>1. LinkInv => NoReadyGroupWaits
  BY DEF LinkInv
<1> QED BY <1>1, AlwaysLinkInv, PTL

-----------------------------------------------------------------------------
(* Requests for recent packets.  First the arithmetic: the sum of the      *)
(* numbers of packets emitted of some frames is the number of them all.    *)

EmittedIn(S) == UNION {{g} \X EmittedOf(g) : g \in S}
SumFolds(f, S) ==
    f = [s \in SUBSET S |->
            IF s = {} THEN 0
            ELSE Cardinality(EmittedOf(Chosen(s))) + f[s \ {Chosen(s)}]]

\* The sum over frames is the value of a function that folds, if there is one.
LEMMA SumUnfolds ==
    ASSUME NEW S
    PROVE  MapThenSumSet(LAMBDA g : Cardinality(EmittedOf(g)), S)
             = (CHOOSE f : SumFolds(f, S))[S]
BY DEF MapThenSumSet, MapThenFoldSet, SumFolds, Chosen

\* What a frame has emitted is a finite set of its numbers.
LEMMA EmittedOfFacts ==
    ASSUME TypeOK, SendInv, NEW g \in Frames
    PROVE  /\ EmittedOf(g) \subseteq Seqs(g) /\ IsFiniteSet(EmittedOf(g))
           /\ Cardinality(EmittedOf(g)) \in Nat
<1>1. EmittedOf(g) \subseteq Seqs(g)
  <2>1. CASE g < frame
    <3>1. g # frame
      BY <2>1, FrameFacts DEF TypeOK, ServerType
    <3> QED BY <2>1, <3>1 DEF EmittedOf
  <2>2. CASE ~(g < frame) /\ g = frame /\ sending
    <3>1. EmittedOf(g) = IF next_seq = FecSeq THEN Data(g) ELSE 0..(next_seq - 1)
      BY <2>2 DEF EmittedOf
    <3>2. next_seq \in Data(g) \/ next_seq = FecSeq
      BY <2>2 DEF SendInv, Seqs
    <3>3. CASE next_seq = FecSeq
      BY <3>1, <3>3 DEF Seqs
    <3>4. CASE next_seq # FecSeq
      <4>1. Fragments[g] - 1 \in Nat
        <5>1. FecSeq \in Nat
          BY DEF FecSeq
        <5> QED BY <5>1, FrameFacts
      <4>2. 0..(next_seq - 1) \subseteq Data(g)
        BY <3>2, <3>4, <4>1 DEF Data
      <4> QED BY <3>1, <3>4, <4>2 DEF Seqs
    <3> QED BY <3>3, <3>4
  <2>3. CASE ~(g < frame) /\ ~(g = frame /\ sending)
    BY <2>3 DEF EmittedOf
  <2> QED BY <2>1, <2>2, <2>3
<1> QED BY <1>1, FrameFacts, FS_Subset, FS_CardinalityType

\* The packets of one frame more.
LEMMA EmittedSplit ==
    ASSUME TypeOK, SendInv, NEW s \in SUBSET Frames, IsFiniteSet(EmittedIn(s)), NEW x \in s
    PROVE  Cardinality(EmittedIn(s)) =
             Cardinality(EmittedOf(x)) + Cardinality(EmittedIn(s \ {x}))
<1> DEFINE A == {x} \X EmittedOf(x)
           B == EmittedIn(s \ {x})
<1>1. EmittedIn(s) = A \cup B /\ A \cap B = {}
  BY DEF EmittedIn
<1>2. IsFiniteSet(A) /\ IsFiniteSet(B)
  <2>1. A \in SUBSET EmittedIn(s) /\ B \in SUBSET EmittedIn(s)
    BY <1>1
  <2> QED BY <2>1, FS_Subset
<1>3. Cardinality(A) = Cardinality(EmittedOf(x))
  <2>1. IsFiniteSet({x}) /\ Cardinality({x}) = 1
    BY FS_Singleton
  <2>2. IsFiniteSet(EmittedOf(x)) /\ Cardinality(EmittedOf(x)) \in Nat
    BY EmittedOfFacts
  <2>3. Cardinality(A) = 1 * Cardinality(EmittedOf(x))
    BY <2>1, <2>2, FS_Product
  <2> QED BY <2>2, <2>3
<1>4. Cardinality(A) \in Nat /\ Cardinality(B) \in Nat
  BY <1>2, FS_CardinalityType
<1> HIDE DEF A, B
<1>5. Cardinality(A \cup B) = Cardinality(A) + Cardinality(B) - Cardinality(A \cap B)
  BY <1>2, FS_Union
<1>6. Cardinality(A \cap B) = 0
  BY <1>1, FS_EmptySet
<1> QED BY <1>1, <1>3, <1>4, <1>5, <1>6 DEF B

\* The sum over frames is the number of their packets.
LEMMA SumCounts ==
    ASSUME TypeOK, SendInv, NEW S \in SUBSET Frames, IsFiniteSet(EmittedIn(S)),
           IsFiniteSet(S)
    PROVE  MapThenSumSet(LAMBDA g : Cardinality(EmittedOf(g)), S) = Cardinality(EmittedIn(S))
<1>1. ASSUME NEW s \in SUBSET S
      PROVE  IsFiniteSet(EmittedIn(s)) /\ IsFiniteSet(s) /\ Cardinality(s) \in Nat
  <2>1. EmittedIn(s) \in SUBSET EmittedIn(S)
    BY DEF EmittedIn
  <2> QED BY <2>1, FS_Subset, FS_CardinalityType
<1>2. Cardinality(EmittedIn({})) = 0
  <2>1. EmittedIn({}) = {}
    BY DEF EmittedIn
  <2> QED BY <2>1, FS_EmptySet
<1>3. ASSUME NEW s \in SUBSET S, s # {}
      PROVE  Chosen(s) \in s /\ Cardinality(EmittedIn(s)) =
               Cardinality(EmittedOf(Chosen(s))) + Cardinality(EmittedIn(s \ {Chosen(s)}))
  <2>1. Chosen(s) \in s
    BY <1>3 DEF Chosen
  <2> QED BY <1>1, <2>1, EmittedSplit
<1>4. \E f : SumFolds(f, S)
  <2> DEFINE h == [s \in SUBSET S |-> Cardinality(EmittedIn(s))]
  <2>1. ASSUME NEW s \in SUBSET S, s # {}
        PROVE  h[s] = Cardinality(EmittedOf(Chosen(s))) + h[s \ {Chosen(s)}]
    BY <1>3, <2>1
  <2>2. h[{}] = 0
    BY <1>2
  <2> HIDE DEF h
  <2>3. h = [s \in SUBSET S |->
               IF s = {} THEN 0
               ELSE Cardinality(EmittedOf(Chosen(s))) + h[s \ {Chosen(s)}]]
    <3>1. h = [s \in SUBSET S |-> h[s]]
      BY DEF h
    <3> QED BY <2>1, <2>2, <3>1
  <2> QED BY <2>3 DEF SumFolds
<1> DEFINE f == CHOOSE h : SumFolds(h, S)
<1>5. SumFolds(f, S)
  BY <1>4
<1> HIDE DEF f
<1> DEFINE Wrong == {r \in SUBSET S : f[r] # Cardinality(EmittedIn(r))}
           Sizes == {Cardinality(r) : r \in Wrong}
<1>6. CASE Wrong # {}
  <2>1. Sizes \subseteq Nat /\ Sizes # {}
    BY <1>1, <1>6
  <2>2. PICK n \in Sizes : \A m \in Sizes : n <= m
    <3> HIDE DEF Sizes
    <3> QED BY <2>1, LeastNat
  <2>3. PICK r \in Wrong : n = Cardinality(r)
    BY <2>2
  <2>4. f[r] = IF r = {} THEN 0
               ELSE Cardinality(EmittedOf(Chosen(r))) + f[r \ {Chosen(r)}]
    BY <1>5, <2>3 DEF SumFolds
  <2>5. CASE r = {}
    BY <1>2, <2>3, <2>4, <2>5
  <2>6. CASE r # {}
    <3>1. Chosen(r) \in r
      BY <1>3, <2>3, <2>6
    <3>2. Cardinality(r \ {Chosen(r)}) = n - 1 /\ n \in Nat
      BY <1>1, <2>3, <3>1, FS_RemoveElement
    <3>3. r \ {Chosen(r)} \notin Wrong
      <4>1. ASSUME r \ {Chosen(r)} \in Wrong PROVE FALSE
        <5>1. n <= n - 1
          BY <2>2, <3>2, <4>1
        <5> QED BY <3>2, <5>1
      <4> QED BY <4>1
    <3>4. f[r \ {Chosen(r)}] = Cardinality(EmittedIn(r \ {Chosen(r)}))
      BY <2>3, <3>3
    <3> QED BY <1>3, <2>3, <2>4, <2>6, <3>4
  <2> QED BY <2>5, <2>6
<1>7. CASE Wrong = {}
  <2>1. f[S] = Cardinality(EmittedIn(S))
    BY <1>7
  <2> QED BY <2>1, SumUnfolds DEF f
<1> QED BY <1>6, <1>7

-----------------------------------------------------------------------------
(* The cache holds the packets emitted last: one that is not in it (any    *)
(* more) is of no newer frame than those that are.  Frames without a       *)
(* client are skipped, but none after the first that was sent.             *)

Sent == UNION {owed[c] : c \in Clients}
Emitted(p) == p[1] \in Sent /\ p[2] \in EmittedOf(p[1])

SentInv == /\ sending => frame \in Sent
           /\ Sent # {} => clients # {}
           /\ \A g \in Sent : /\ g <= frame /\ (g = frame => sending)
                             /\ \A h \in Frames : g <= h /\ h < frame => h \in Sent

OriginInv == /\ \A n \in nacks : n[1] \in Sent
             /\ \A c \in Clients, p \in Packets : net[c][p] > 0 => p[1] \in Sent

CacheInv == /\ Len(items) <= CacheSize
            /\ \A i, j \in 1..Len(items) :
                  i < j => items[i] # items[j] /\ items[i][1] <= items[j][1]
            /\ \A i \in 1..Len(items) : Emitted(items[i])
            /\ \A p \in Packets : Emitted(p) /\ p \notin Cached =>
                  /\ Len(items) = CacheSize
                  /\ \A i \in 1..Len(items) : p[1] <= items[i][1]

RecentInv == LinkInv /\ SentInv /\ OriginInv /\ CacheInv

\* A request for a packet that was emitted recently: were it not in the cache, the
\* cache and it would be more packets than there are.
LEMMA RecentFound == RecentInv => RecentAnswerable
<1> SUFFICES ASSUME RecentInv, NEW n \in nacks,
                    MapThenSumSet(LAMBDA g : Cardinality(EmittedOf(g)), n[1]..NFrames)
                      <= CacheSize
             PROVE  {n[1]} \X (n[2] \cap EmittedOf(n[1])) \subseteq Found(n)
  BY Zenon DEF RecentAnswerable
<1> SUFFICES ASSUME NEW k \in n[2] \cap EmittedOf(n[1])
             PROVE  <<n[1], k>> \in Found(n)
  OBVIOUS
<1> DEFINE p == <<n[1], k>>
           S == n[1]..NFrames
           U == EmittedIn(S)
<1>0. TypeOK /\ SendInv /\ items \in Seq(Packets)
  BY DEF RecentInv, LinkInv, TypeOK, ServerType
<1>1. n[1] \in Frames /\ n[1] \in Sent /\ n \in Requests
  BY <1>0, RequestFacts DEF RecentInv, OriginInv, TypeOK, WireType
<1>2. p \in Packets /\ Emitted(p)
  <2>1. k \in Seqs(n[1])
    BY <1>0, <1>1, EmittedOfFacts
  <2> QED BY <1>1, <2>1, PacketFacts DEF Emitted
<1>3. S \in SUBSET Frames /\ n[1] \in S /\ IsFiniteSet(S)
  <2>1. n[1] \in Int /\ NFrames \in Int
    BY <1>1, WireAssumption DEF Frames
  <2> QED BY <1>1, <2>1, FS_Interval DEF Frames
<1>4. IsFiniteSet(U)
  <2>1. FecSeq \in Nat /\ 0 \in Int
    BY DEF FecSeq
  <2>2. IsFiniteSet(S \X (0..FecSeq))
    <3>1. IsFiniteSet(0..FecSeq)
      <4>1. 0 \in Int /\ FecSeq \in Int
        BY <2>1
      <4> QED BY <4>1, FS_Interval
    <3> QED BY <1>3, <3>1, FS_Product
  <2>3. ASSUME NEW g \in Frames PROVE Seqs(g) \subseteq 0..FecSeq
    <3> DEFINE m == Fragments[g]
    <3>1. m \in 1..(FecSeq - 1)
      BY FrameFacts
    <3> HIDE DEF m
    <3>2. 0..(m - 1) \subseteq 0..FecSeq /\ FecSeq \in 0..FecSeq
      BY <2>1, <3>1
    <3> QED BY <3>2 DEF m, Seqs, Data
  <2>4. U \in SUBSET (S \X (0..FecSeq))
    BY <1>0, <1>3, <2>3, EmittedOfFacts DEF EmittedIn
  <2> QED BY <2>2, <2>4, FS_Subset
<1>5. Cardinality(U) <= CacheSize /\ Cardinality(U) \in Nat
  BY <1>0, <1>3, <1>4, SumCounts, FS_CardinalityType
<1>6. CASE p \notin Cached
  <2>1. /\ Len(items) = CacheSize
        /\ \A i \in 1..Len(items) : p[1] <= items[i][1]
    BY <1>2, <1>6 DEF RecentInv, CacheInv
  <2>2. CacheSize \in Nat
    BY CacheAssumption
  <2> DEFINE f == [i \in 0..CacheSize |-> IF i = 0 THEN p ELSE items[i]]
  <2>3. ASSUME NEW i \in 1..CacheSize
        PROVE  items[i] \in U /\ items[i] # p
    <3>1. items[i] \in Packets /\ Emitted(items[i]) /\ p[1] <= items[i][1]
      BY <1>0, <2>1 DEF RecentInv, CacheInv
    <3>2. items[i] = <<items[i][1], items[i][2]>> /\ items[i][1] \in Frames
      BY <3>1, PacketFacts
    <3>3. items[i][1] \in S
      BY <1>1, <3>1, <3>2, WireAssumption DEF Frames
    <3>4. items[i] \in U
      <4>1. items[i] \in {items[i][1]} \X EmittedOf(items[i][1])
        BY <3>1, <3>2 DEF Emitted
      <4> QED BY <3>3, <4>1 DEF EmittedIn
    <3>5. items[i] \in Cached
      BY <2>1 DEF Cached
    <3> QED BY <1>6, <3>4, <3>5
  <2>4. p \in U
    BY <1>3 DEF EmittedIn
  <2>5. f \in [0..CacheSize -> U]
    BY <2>2, <2>3, <2>4
  <2>6. ASSUME NEW i \in 0..CacheSize, NEW j \in 0..CacheSize, i < j
        PROVE  f[i] # f[j]
    <3>1. j \in 1..CacheSize /\ f[j] = items[j]
      BY <2>6
    <3>2. CASE i = 0
      BY <2>3, <3>1, <3>2
    <3>3. CASE i # 0
      <4>1. i \in 1..CacheSize /\ f[i] = items[i]
        BY <3>3
      <4> QED BY <2>1, <2>6, <3>1, <4>1 DEF RecentInv, CacheInv
    <3> QED BY <3>2, <3>3
  <2>7. f \in Injection(0..CacheSize, U)
    <3> HIDE DEF f
    <3>1. ASSUME NEW i \in 0..CacheSize, NEW j \in 0..CacheSize, f[i] = f[j]
          PROVE  i = j
      <4>1. ~(i < j) /\ ~(j < i)
        BY <2>6, <3>1
      <4> QED BY <4>1
    <3> QED BY <2>5, <3>1 DEF Injection, IsInjective
  <2>8. Cardinality(0..CacheSize) <= Cardinality(U)
    BY <1>4, <2>7, FS_Injection
  <2>9. Cardinality(0..CacheSize) = CacheSize + 1
    <3>1. 0 \in Int /\ CacheSize \in Int /\ ~(0 > CacheSize)
          /\ CacheSize - 0 + 1 = CacheSize + 1
      BY <2>2
    <3> QED BY <3>1, FS_Interval
  <2> QED BY <1>5, <2>2, <2>8, <2>9
<1>7. CASE p \in Cached
  BY <1>7 DEF Found
<1> QED BY <1>6, <1>7

-----------------------------------------------------------------------------
\* At first nothing was emitted and nothing is cached.
LEMMA InitRecent == Init => RecentInv
<1> SUFFICES ASSUME Init PROVE RecentInv
  OBVIOUS
<1>1. Sent = {} /\ sending = FALSE /\ items = <<>> /\ nacks = {}
      /\ \A c \in Clients, p \in Packets : ~(net[c][p] > 0)
  BY DEF Init, ServerInit, WireInit, Sent
<1>2. SentInv /\ OriginInv
  BY <1>1 DEF SentInv, OriginInv
<1>3. CacheInv
  BY <1>1, CacheAssumption DEF CacheInv, Emitted
<1> QED BY <1>2, <1>3, InitLink DEF RecentInv

\* The cache is as it was, and nothing else was emitted.
LEMMA CacheStutter ==
    ASSUME RecentInv, items' = items,
           \A p \in Packets : Emitted(p)' <=> Emitted(p)
    PROVE  CacheInv'
<1>1. items \in Seq(Packets)
  BY DEF RecentInv, LinkInv, TypeOK, ServerType
<1>2. \A i \in 1..Len(items) : items[i] \in Packets
  BY <1>1
<1>3. Cached' = Cached
  BY DEF Cached
<1>4. CacheInv
  BY DEF RecentInv
<1> QED BY <1>2, <1>3, <1>4 DEF CacheInv

\* Nothing was sent: what was emitted and sent is as it was.
LEMMA SentStutter ==
    ASSUME RecentInv, UNCHANGED <<frame, next_seq, sending, items, owed>>,
           clients \subseteq clients'
    PROVE  SentInv' /\ CacheInv' /\ Sent' = Sent
<1>1. Sent' = Sent
  BY DEF Sent
<1>2. \A p \in Packets : Emitted(p)' <=> Emitted(p)
  BY <1>1 DEF Emitted, EmittedOf
<1>3. SentInv'
  BY <1>1 DEF RecentInv, SentInv
<1> QED BY <1>1, <1>2, <1>3, CacheStutter

\* Whatever is injected is on its way.
LEMMA InjectOrigin ==
    ASSUME RecentInv, NEW C \in SUBSET Clients, NEW P \in SUBSET Packets, Inject(C, P),
           \A p \in P : p[1] \in Sent, Sent' = Sent
    PROVE  \A c \in Clients, p \in Packets : net'[c][p] > 0 => p[1] \in Sent'
<1>1. PICK kept \in SUBSET P : net' = SetOut(C, kept)
  BY DEF Inject
<1>2. SUFFICES ASSUME NEW c \in Clients, NEW p \in Packets, net'[c][p] > 0, p \notin P
               PROVE  p[1] \in Sent
  OBVIOUS
<1>3. net'[c][p] = net[c][p]
  BY <1>1, <1>2 DEF SetOut
<1> QED BY <1>2, <1>3 DEF RecentInv, OriginInv

\* A frame begins with nothing emitted of it.
LEMMA BroadcastRecent ==
    ASSUME RecentInv, LinkInv', Broadcast
    PROVE  RecentInv'
<1>1. /\ ~sending /\ frame \in Frames /\ clients # {} /\ clients' = clients
      /\ sending' = TRUE /\ next_seq' = 0 /\ frame' = frame /\ items' = items
      /\ net' = net /\ nacks' = nacks
  BY DEF Broadcast, BroadcastFrame, wireVars
<1>2. clients \subseteq Clients
  BY DEF RecentInv, LinkInv, TypeOK, ServerType
<1>3. Sent' = Sent \cup {frame}
  BY <1>1, <1>2 DEF Broadcast, Sent
<1>4. frame \notin Sent /\ frame \in Nat
  BY <1>1, FrameFacts DEF RecentInv, SentInv
<1>5. ASSUME NEW p \in Packets PROVE Emitted(p)' <=> Emitted(p)
  <2>1. p[1] \in Frames /\ p[1] \in Nat
    BY PacketFacts, FrameFacts
  <2>2. CASE p[1] # frame
    <3>1. EmittedOf(p[1])' = EmittedOf(p[1])
      BY <1>1, <2>2 DEF EmittedOf
    <3> QED BY <1>3, <2>2, <3>1 DEF Emitted
  <2>3. CASE p[1] = frame
    <3>1. EmittedOf(p[1])' = 0..(0 - 1)
      <4>1. 0 # FecSeq
        BY DEF FecSeq
      <4>2. ~(p[1] < frame) /\ ~(frame < frame)
        BY <1>4, <2>3
      <4> QED BY <1>1, <2>3, <4>1, <4>2 DEF EmittedOf
    <3>2. 0..(0 - 1) = {}
      OBVIOUS
    <3> QED BY <1>4, <2>3, <3>1, <3>2 DEF Emitted
  <2> QED BY <2>2, <2>3
<1>6. CacheInv'
  BY <1>1, <1>5, CacheStutter
<1>7. SentInv'
  <2>1. ASSUME NEW g \in Sent', NEW h \in Frames, g <= h, h < frame PROVE h \in Sent'
    <3>1. CASE g \in Sent
      BY <1>3, <2>1, <3>1 DEF RecentInv, SentInv
    <3>2. CASE g = frame
      <4>1. h \in Nat
        BY FrameFacts
      <4> QED BY <1>4, <2>1, <3>2, <4>1
    <3> QED BY <1>3, <3>1, <3>2
  <2>2. \A g \in Sent' : g <= frame
    BY <1>3, <1>4 DEF RecentInv, SentInv
  <2> QED BY <1>1, <1>3, <2>1, <2>2 DEF SentInv
<1>8. OriginInv'
  BY <1>1, <1>3 DEF RecentInv, OriginInv
<1> QED BY <1>6, <1>7, <1>8 DEF RecentInv

\* A frame without a client is skipped, which happens before the first one only.
LEMMA SkipRecent ==
    ASSUME RecentInv, LinkInv', SkipFrame, owed' = owed
    PROVE  RecentInv'
<1>1. /\ ~sending /\ clients = {} /\ clients' = clients /\ sending' = sending
      /\ items' = items /\ net' = net /\ nacks' = nacks
  BY DEF SkipFrame, wireVars
<1>2. Sent = {} /\ Sent' = {}
  BY <1>1 DEF RecentInv, SentInv, Sent
<1>3. CacheInv'
  BY <1>1, <1>2, CacheStutter DEF Emitted
<1>4. SentInv' /\ OriginInv'
  BY <1>1, <1>2 DEF RecentInv, SentInv, OriginInv
<1> QED BY <1>3, <1>4 DEF RecentInv

\* One more packet is emitted, for the first time.
LEMMA EmitEmitted ==
    ASSUME RecentInv, Emit, owed' = owed
    PROVE  /\ <<frame, next_seq>> \in Packets /\ ~Emitted(<<frame, next_seq>>)
           /\ frame \in Sent /\ Sent' = Sent
           /\ \A p \in Packets : Emitted(p)' <=> (Emitted(p) \/ p = <<frame, next_seq>>)
<1> DEFINE x == <<frame, next_seq>>
<1>1. frame \in Frames /\ next_seq \in Seqs(frame) /\ x \in Packets /\ frame \in Sent
  BY PacketFacts DEF Emit, RecentInv, LinkInv, SendInv, SentInv
<1>2. Sent' = Sent
  BY DEF Sent
<1>3. frame \in Nat /\ Fragments[frame] \in 1..(FecSeq - 1) /\ FecSeq \in Nat
      /\ FecSeq \notin Data(frame)
  <2>1. FecSeq \in Nat
    BY DEF FecSeq
  <2> QED BY <1>1, <2>1, FrameFacts
<1> DEFINE m == Fragments[frame]
<1>4. EmittedOf(frame) = IF next_seq = FecSeq THEN Data(frame) ELSE 0..(next_seq - 1)
  BY <1>3 DEF EmittedOf, Emit
<1>5. next_seq \notin EmittedOf(frame)
  <2>1. CASE next_seq = FecSeq
    BY <1>3, <1>4, <2>1
  <2>2. CASE next_seq # FecSeq
    <3>1. next_seq \in 0..(m - 1)
      BY <1>1, <2>2 DEF Seqs, Data
    <3> QED BY <1>3, <1>4, <2>2, <3>1
  <2> QED BY <2>1, <2>2
<1>6. ASSUME NEW g, g = frame PROVE EmittedOf(g)' = EmittedOf(g) \cup {next_seq}
  <2>1. CASE next_seq = FecSeq
    <3>1. frame' = frame + 1
      BY <2>1 DEF Emit
    <3>2. EmittedOf(g)' = Seqs(g)
      BY <1>3, <1>6, <3>1 DEF EmittedOf
    <3> QED BY <1>4, <1>6, <2>1, <3>2 DEF Seqs
  <2>2. CASE next_seq # FecSeq
    <3>1. frame' = frame /\ sending' = TRUE
          /\ next_seq' = IF next_seq = m - 1 THEN FecSeq ELSE next_seq + 1
      BY <2>2 DEF Emit
    <3>2. next_seq \in 0..(m - 1) /\ m \in Nat /\ m < FecSeq
      BY <1>1, <1>3, <2>2 DEF Seqs, Data
    <3>3. EmittedOf(g)' = IF next_seq' = FecSeq THEN Data(g) ELSE 0..(next_seq' - 1)
      BY <1>3, <1>6, <3>1 DEF EmittedOf
    <3>4. 0..next_seq = 0..(next_seq - 1) \cup {next_seq}
      BY <3>2
    <3>5. CASE next_seq = m - 1
      <4>1. Data(g) = 0..next_seq
        BY <1>6, <3>5 DEF Data
      <4> QED BY <1>4, <1>6, <2>2, <3>1, <3>3, <3>4, <3>5, <4>1
    <3>6. CASE next_seq # m - 1
      <4>1. next_seq' # FecSeq /\ next_seq' - 1 = next_seq
        <5>1. next_seq' = next_seq + 1 /\ FecSeq \in Nat
          BY <1>3, <3>1, <3>6
        <5> HIDE DEF m
        <5> QED BY <3>2, <3>6, <5>1
      <4> QED BY <1>4, <1>6, <2>2, <3>3, <3>4, <4>1
    <3> QED BY <3>5, <3>6
  <2> QED BY <2>1, <2>2
<1>7. ASSUME NEW g \in Frames, g # frame PROVE EmittedOf(g)' = EmittedOf(g)
  <2>1. g \in Nat
    BY FrameFacts
  <2>2. CASE next_seq = FecSeq
    <3>1. frame' = frame + 1 /\ sending' = FALSE
      BY <2>2 DEF Emit
    <3> QED BY <1>3, <1>7, <2>1, <3>1 DEF EmittedOf
  <2>3. CASE next_seq # FecSeq
    <3>1. frame' = frame
      BY <2>3 DEF Emit
    <3> QED BY <1>7, <3>1 DEF EmittedOf
  <2> QED BY <2>2, <2>3
<1>8. ASSUME NEW p \in Packets PROVE Emitted(p)' <=> (Emitted(p) \/ p = x)
  <2>1. p = <<p[1], p[2]>> /\ p[1] \in Frames
    BY PacketFacts
  <2>2. CASE p[1] = frame
    <3>1. EmittedOf(p[1])' = EmittedOf(p[1]) \cup {next_seq}
      BY <1>6, <2>2
    <3>2. p = x <=> p[2] = next_seq
      BY <2>1, <2>2
    <3> QED BY <1>1, <1>2, <2>2, <3>1, <3>2 DEF Emitted
  <2>3. CASE p[1] # frame
    <3>1. EmittedOf(p[1])' = EmittedOf(p[1])
      BY <1>7, <2>1, <2>3
    <3>2. p # x
      BY <2>3
    <3> QED BY <1>2, <3>1, <3>2 DEF Emitted
  <2> QED BY <2>2, <2>3
<1>9. ~Emitted(x)
  BY <1>5 DEF Emitted
<1> QED BY <1>1, <1>2, <1>8, <1>9

\* NackManager::remember of a packet that was not emitted before: appended, and the
\* oldest goes.
LEMMA RememberRecent ==
    ASSUME RecentInv, NEW x \in Packets, ~Emitted(x), x[1] \in Sent,
           \A g \in Sent : g <= x[1], items' = Remember(x),
           \A p \in Packets : Emitted(p)' <=> (Emitted(p) \/ p = x)
    PROVE  CacheInv'
<1>1. /\ items \in Seq(Packets) /\ CacheSize \in Nat /\ Len(items) \in Nat
      /\ Len(items) <= CacheSize
  BY CacheAssumption DEF RecentInv, LinkInv, TypeOK, ServerType, CacheInv
<1> DEFINE L == Len(items)
<1>2. ASSUME NEW i \in 1..L
      PROVE  /\ items[i] \in Packets /\ Emitted(items[i]) /\ items[i] # x
             /\ items[i][1] <= x[1] /\ items[i] \in Cached
  BY <1>1 DEF RecentInv, CacheInv, Emitted, Cached
<1>3. ASSUME NEW i \in 1..L, NEW j \in 1..L, i < j
      PROVE  items[i] # items[j] /\ items[i][1] <= items[j][1]
  BY <1>3 DEF RecentInv, CacheInv
<1>4. ASSUME NEW p \in Packets, Emitted(p), p \notin Cached
      PROVE  /\ L = CacheSize
             /\ \A i \in 1..L : p[1] <= items[i][1]
  BY <1>4 DEF RecentInv, CacheInv
<1>5. \A p \in Packets : p[1] \in Nat
  BY PacketFacts, FrameFacts
<1>6. CASE CacheSize = 0
  <2>1. items' = items /\ L = 0
    BY <1>1, <1>6 DEF Remember
  <2> QED BY <1>1, <1>6, <2>1 DEF CacheInv
<1>7. CASE CacheSize # 0 /\ L < CacheSize
  <2>1. /\ items' = Append(items, x) /\ Len(items') = L + 1 /\ items'[L + 1] = x
        /\ \A i \in 1..L : items'[i] = items[i]
    BY <1>1, <1>7 DEF Remember
  <2>2. \A i \in 1..Len(items') : i \in 1..L \/ i = L + 1
    BY <1>1, <2>1
  <2>3. ASSUME NEW i \in 1..Len(items'), NEW j \in 1..Len(items'), i < j
        PROVE  items'[i] # items'[j] /\ items'[i][1] <= items'[j][1]
    <3>1. i \in 1..L
      BY <1>1, <2>1, <2>3
    <3>2. CASE j \in 1..L
      BY <1>3, <2>1, <2>3, <3>1, <3>2
    <3>3. CASE j = L + 1
      BY <1>2, <2>1, <3>1, <3>3
    <3> QED BY <2>2, <3>2, <3>3
  <2>4. ASSUME NEW i \in 1..Len(items') PROVE Emitted(items[i])'
    <3>1. items'[i] \in Packets /\ (Emitted(items'[i]) \/ items'[i] = x)
      BY <1>2, <2>1, <2>2
    <3>2. ASSUME NEW q \in Packets, Emitted(q) \/ q = x PROVE Emitted(q)'
      BY <3>2
    <3>3. CASE i = L + 1
      <4>1. Emitted(x)'
        BY <3>2
      <4>2. items'[i] = x
        BY <2>1, <3>3
      <4> QED BY <4>1, <4>2 DEF Emitted
    <3>4. CASE i \in 1..L
      <4>1. Emitted(items[i]) /\ items[i] \in Packets /\ items'[i] = items[i]
        BY <1>2, <2>1, <3>4
      <4> DEFINE q == items[i]
      <4>2. PICK r \in Packets : r = q /\ Emitted(r)
        BY <4>1
      <4>3. Emitted(r)'
        BY <3>2, <4>2
      <4> QED BY <4>1, <4>2, <4>3 DEF Emitted
    <3> QED BY <2>2, <3>3, <3>4
  <2>5. ASSUME NEW p \in Packets, Emitted(p)', p \notin Cached' PROVE FALSE
    <3>1. p # x
      BY <1>1, <2>1, <2>5 DEF Cached
    <3>2. p \notin Cached
      BY <1>1, <2>1, <2>5 DEF Cached
    <3>3. Emitted(p)
      BY <2>5, <3>1
    <3> QED BY <1>1, <1>4, <1>7, <3>2, <3>3
  <2>6. Len(items') <= CacheSize
    BY <1>1, <1>7, <2>1
  <2> QED BY <2>3, <2>4, <2>5, <2>6 DEF CacheInv
<1>8. CASE CacheSize # 0 /\ L >= CacheSize
  <2>0. L = CacheSize /\ L \in Nat /\ L # 0
    BY <1>1, <1>8
  <2>1. /\ items' = Append(Tail(items), x) /\ Len(items') = L /\ items'[L] = x
        /\ \A i \in 1..(L - 1) : items'[i] = items[i + 1]
    <3>1. items # <<>> /\ Tail(items) \in Seq(Packets) /\ Len(Tail(items)) = L - 1
          /\ \A i \in 1..(L - 1) : Tail(items)[i] = items[i + 1]
      BY <1>1, <2>0
    <3>2. items' = Append(Tail(items), x)
      BY <1>8 DEF Remember
    <3> HIDE DEF L
    <3>3. Len(Append(Tail(items), x)) = L
      BY <2>0, <3>1
    <3> QED BY <2>0, <3>1, <3>2, <3>3
  <2>2. \A i \in 1..Len(items') : (i \in 1..(L - 1) /\ i + 1 \in 1..L) \/ i = L
    BY <2>0, <2>1
  <2>3. ASSUME NEW i \in 1..Len(items'), NEW j \in 1..Len(items'), i < j
        PROVE  items'[i] # items'[j] /\ items'[i][1] <= items'[j][1]
    <3>1. i \in 1..(L - 1) /\ i + 1 \in 1..L
      BY <2>0, <2>1, <2>3
    <3>2. CASE j \in 1..(L - 1)
      <4>1. j + 1 \in 1..L /\ i + 1 < j + 1
        BY <2>0, <2>3, <3>1, <3>2
      <4>2. items[i + 1] # items[j + 1] /\ items[i + 1][1] <= items[j + 1][1]
        BY <1>3, <3>1, <4>1
      <4> QED BY <2>1, <3>1, <3>2, <4>2
    <3>3. CASE j = L
      BY <1>2, <2>1, <3>1, <3>3
    <3> QED BY <2>2, <3>2, <3>3
  <2>4. ASSUME NEW i \in 1..Len(items') PROVE Emitted(items[i])'
    <3>2. ASSUME NEW q \in Packets, Emitted(q) \/ q = x PROVE Emitted(q)'
      BY <3>2
    <3>3. CASE i = L
      <4>1. Emitted(x)'
        BY <3>2
      <4>2. items'[i] = x
        BY <2>1, <3>3
      <4> QED BY <4>1, <4>2 DEF Emitted
    <3>4. CASE i \in 1..(L - 1) /\ i + 1 \in 1..L
      <4>1. Emitted(items[i + 1]) /\ items[i + 1] \in Packets /\ items'[i] = items[i + 1]
        BY <1>2, <2>1, <3>4
      <4>2. PICK r \in Packets : r = items[i + 1] /\ Emitted(r)
        BY <4>1
      <4>3. Emitted(r)'
        BY <3>2, <4>2
      <4> QED BY <4>1, <4>2, <4>3 DEF Emitted
    <3> QED BY <2>2, <3>3, <3>4
  <2>5. ASSUME NEW p \in Packets, Emitted(p)', p \notin Cached'
        PROVE  \A i \in 1..Len(items') : p[1] <= items'[i][1]
    <3>1. p # x
      BY <2>0, <2>1, <2>5 DEF Cached
    <3>2. Emitted(p)
      BY <2>5, <3>1
    <3>3. \A i \in 1..L : p[1] <= items[i][1]
      <4>1. CASE p \notin Cached
        BY <1>4, <3>2, <4>1
      <4>2. CASE p \in Cached
        <5>1. PICK k \in 1..L : items[k] = p
          BY <4>2 DEF Cached
        <5>2. k = 1
          <6>1. CASE k # 1
            <7>1. k - 1 \in 1..(L - 1) /\ (k - 1) + 1 = k /\ k - 1 \in 1..L
              BY <2>0, <6>1
            <7>2. items'[k - 1] = p
              BY <2>1, <5>1, <7>1
            <7> QED BY <2>1, <2>5, <7>1, <7>2 DEF Cached
          <6> QED BY <6>1
        <5>3. ASSUME NEW i \in 1..L PROVE p[1] <= items[i][1]
          <6>1. CASE i = 1
            BY <1>5, <5>1, <5>2, <6>1
          <6>2. CASE i # 1
            <7>1. 1 \in 1..L /\ 1 < i
              BY <2>0, <6>2
            <7> QED BY <1>3, <5>1, <5>2, <7>1
          <6> QED BY <6>1, <6>2
        <5> QED BY <5>3
      <4> QED BY <4>1, <4>2
    <3>4. p[1] <= x[1]
      BY <3>2 DEF Emitted
    <3> QED BY <2>1, <2>2, <3>3, <3>4
  <2> QED BY <2>0, <2>1, <2>3, <2>4, <2>5 DEF CacheInv
<1> QED BY <1>1, <1>6, <1>7, <1>8

\* A packet is emitted: it is remembered, and then injected.
LEMMA EmitRecent ==
    ASSUME RecentInv, LinkInv', Emit, owed' = owed
    PROVE  RecentInv'
<1> DEFINE x == <<frame, next_seq>>
<1>1. /\ x \in Packets /\ ~Emitted(x) /\ frame \in Sent /\ Sent' = Sent
      /\ \A p \in Packets : Emitted(p)' <=> (Emitted(p) \/ p = x)
  BY EmitEmitted
<1>2. /\ clients' = clients /\ nacks' = nacks /\ items' = Remember(x)
      /\ Inject(clients, {x}) /\ clients \subseteq Clients
      /\ frame \in Nat /\ sending
  <2>1. frame \in Frames /\ clients \subseteq Clients
    BY DEF Emit, RecentInv, LinkInv, SendInv, TypeOK, ServerType
  <2> QED BY <2>1, FrameFacts DEF Emit
<1>3. \A g \in Sent : g <= frame /\ g \in Nat
  <2>1. Sent \subseteq Frames
    BY DEF Sent, RecentInv, LinkInv, TypeOK
  <2> QED BY <2>1, FrameFacts DEF RecentInv, SentInv
<1>4. CacheInv'
  BY <1>1, <1>2, <1>3, RememberRecent
<1>5. OriginInv'
  <2>1. \A c \in Clients, p \in Packets : net'[c][p] > 0 => p[1] \in Sent'
    BY <1>1, <1>2, InjectOrigin
  <2>2. \A n \in nacks' : n[1] \in Sent'
    BY <1>1, <1>2 DEF RecentInv, OriginInv
  <2> QED BY <2>1, <2>2 DEF OriginInv
<1>6. SentInv'
  <2>1. Sent # {} => clients # {}
    BY DEF RecentInv, SentInv
  <2>2. ASSUME NEW g \in Sent, NEW h \in Frames, g <= h, h < frame PROVE h \in Sent
    BY <2>2 DEF RecentInv, SentInv
  <2>3. CASE next_seq = FecSeq
    <3>1. frame' = frame + 1 /\ sending' = FALSE
      BY <2>3 DEF Emit
    <3>2. \A g \in Sent : g <= frame' /\ g # frame'
      BY <1>2, <1>3, <3>1
    <3>3. ASSUME NEW g \in Sent, NEW h \in Frames, g <= h, h < frame' PROVE h \in Sent
      <4>1. h \in Nat
        BY FrameFacts
      <4>2. h = frame \/ h < frame
        BY <1>2, <3>1, <3>3, <4>1
      <4> QED BY <1>1, <2>2, <3>3, <4>2
    <3> QED BY <1>1, <1>2, <2>1, <3>1, <3>2, <3>3 DEF SentInv
  <2>4. CASE next_seq # FecSeq
    <3>1. frame' = frame /\ sending' = TRUE
      BY <2>4 DEF Emit
    <3> QED BY <1>1, <1>2, <1>3, <2>1, <2>2, <3>1 DEF SentInv
  <2> QED BY <2>3, <2>4
<1> QED BY <1>4, <1>5, <1>6 DEF RecentInv

\* A ping adds a client.
LEMMA PingRecent ==
    ASSUME RecentInv, LinkInv', NEW c \in Clients, Ping(c)
    PROVE  RecentInv'
<1>1. /\ UNCHANGED <<frame, next_seq, sending, items, owed>> /\ clients \subseteq clients'
      /\ net' = net /\ nacks' = nacks
  BY DEF Ping, HandlePing, wireVars
<1>2. SentInv' /\ CacheInv' /\ Sent' = Sent
  BY <1>1, SentStutter
<1>3. OriginInv'
  BY <1>1, <1>2 DEF RecentInv, OriginInv
<1> QED BY <1>2, <1>3 DEF RecentInv

\* A NACK is answered with packets that were emitted before.
LEMMA AnswerRecent ==
    ASSUME RecentInv, LinkInv', NEW n \in nacks, Answer(n)
    PROVE  RecentInv'
<1>1. /\ UNCHANGED <<frame, next_seq, sending, items, owed>> /\ clients' = clients
      /\ nacks' \subseteq nacks /\ Inject(clients, Found(n))
  BY DEF Answer, HandleNack, serverVars
<1>2. SentInv' /\ CacheInv' /\ Sent' = Sent
  BY <1>1, SentStutter
<1>3. clients \in SUBSET Clients /\ Found(n) \in SUBSET Packets
  <2>1. ServerType
    BY DEF RecentInv, LinkInv, TypeOK
  <2>2. Cached \subseteq Packets
    BY <2>1 DEF Cached, ServerType
  <2> QED BY <2>1, <2>2 DEF Found, ServerType
<1>4. \A p \in Found(n) : p[1] \in Sent
  <2>1. n[1] \in Sent
    BY DEF RecentInv, OriginInv
  <2> QED BY <2>1 DEF Found
<1>5. OriginInv'
  <2>1. \A c \in Clients, p \in Packets : net'[c][p] > 0 => p[1] \in Sent'
    BY <1>1, <1>2, <1>3, <1>4, InjectOrigin
  <2>2. \A m \in nacks' : m[1] \in Sent'
    BY <1>1, <1>2 DEF RecentInv, OriginInv
  <2> QED BY <2>1, <2>2 DEF OriginInv
<1> QED BY <1>2, <1>5 DEF RecentInv

\* A receiver asks only for a frame of which it holds a packet.
LEMMA DeliverRecent ==
    ASSUME RecentInv, LinkInv', NEW c \in Clients, NEW p \in Packets, Deliver(c, p)
    PROVE  RecentInv'
<1>1. UNCHANGED <<frame, next_seq, sending, items, owed, clients>>
  BY DEF Deliver, serverVars
<1>2. SentInv' /\ CacheInv' /\ Sent' = Sent
  BY <1>1, SentStutter
<1>3. net[c][p] > 0 /\ net' = [net EXCEPT ![c][p] = @ - 1]
  BY DEF Deliver, Receive
<1>4. p[1] \in Sent
  BY <1>3 DEF RecentInv, OriginInv
<1>5. net \in [Clients -> [Packets -> 0..MaxCopies]] /\ MaxCopies \in Nat
  BY WireAssumption DEF RecentInv, LinkInv, TypeOK, WireType
<1>6. ASSUME NEW d \in Clients, NEW q \in Packets, net'[d][q] > 0 PROVE q[1] \in Sent
  <2>1. CASE d = c /\ q = p
    BY <1>4, <2>1
  <2>2. CASE ~(d = c /\ q = p)
    <3>1. net'[d][q] = net[d][q]
      BY <1>3, <1>5, <2>2
    <3> QED BY <1>6, <3>1 DEF RecentInv, OriginInv
  <2> QED BY <2>1, <2>2
<1>7. \A n \in nacks' : n \in nacks \/ n[1] = p[1]
  BY DEF Deliver, Receive, Finish, KeepWaiting, SendNack
<1>8. \A n \in nacks' : n[1] \in Sent
  BY <1>4, <1>7 DEF RecentInv, OriginInv
<1> QED BY <1>2, <1>6, <1>8 DEF RecentInv, OriginInv

\* The network loses something.
LEMMA DropRecent ==
    ASSUME RecentInv, LinkInv', Drop
    PROVE  RecentInv'
<1>1. UNCHANGED <<frame, next_seq, sending, items, owed, clients>>
  BY DEF Drop, serverVars
<1>2. SentInv' /\ CacheInv' /\ Sent' = Sent
  BY <1>1, SentStutter
<1>3. net \in [Clients -> [Packets -> 0..MaxCopies]] /\ MaxCopies \in Nat
  BY WireAssumption DEF RecentInv, LinkInv, TypeOK, WireType
<1>4. CASE \E c \in Clients, p \in Packets : Lose(c, p)
  <2>1. PICK c \in Clients, p \in Packets : Lose(c, p)
    BY <1>4
  <2>2. net[c][p] > 0 /\ net' = [net EXCEPT ![c][p] = @ - 1] /\ nacks' = nacks
    BY <2>1 DEF Lose
  <2>3. ASSUME NEW d \in Clients, NEW q \in Packets, net'[d][q] > 0 PROVE q[1] \in Sent
    <3>1. net[d][q] > 0
      <4>1. CASE d = c /\ q = p
        BY <2>2, <4>1
      <4>2. CASE ~(d = c /\ q = p)
        BY <1>3, <2>2, <2>3, <4>2
      <4> QED BY <4>1, <4>2
    <3> QED BY <3>1 DEF RecentInv, OriginInv
  <2> QED BY <1>2, <2>2, <2>3 DEF RecentInv, OriginInv
<1>5. CASE \E n \in nacks : LoseNack(n)
  <2>1. net' = net /\ nacks' \subseteq nacks
    BY <1>5 DEF LoseNack
  <2> QED BY <1>2, <2>1 DEF RecentInv, OriginInv
<1> QED BY <1>4, <1>5 DEF Drop

\* Every step keeps the invariant.
LEMMA NextRecent == RecentInv /\ [Next]_vars => RecentInv'
<1> SUFFICES ASSUME RecentInv, [Next]_vars PROVE RecentInv'
  OBVIOUS
<1>1. LinkInv'
  BY NextLink DEF RecentInv
<1>2. CASE Broadcast
  BY <1>1, <1>2, BroadcastRecent
<1>3. CASE ServerStep
  <2>1. owed' = owed
    BY <1>3 DEF ServerStep
  <2>2. CASE Emit
    BY <1>1, <2>1, <2>2, EmitRecent
  <2>3. CASE SkipFrame
    BY <1>1, <2>1, <2>3, SkipRecent
  <2> QED BY <1>3, <2>2, <2>3 DEF ServerStep
<1>4. ASSUME NEW c \in Clients, Ping(c) PROVE RecentInv'
  BY <1>1, <1>4, PingRecent
<1>5. ASSUME NEW n \in nacks, Answer(n) PROVE RecentInv'
  BY <1>1, <1>5, AnswerRecent
<1>6. ASSUME NEW c \in Clients, NEW p \in Packets, Deliver(c, p) PROVE RecentInv'
  BY <1>1, <1>6, DeliverRecent
<1>7. CASE Drop
  BY <1>1, <1>7, DropRecent
<1>8. CASE Tick \/ UNCHANGED vars
  <2>1. UNCHANGED <<frame, next_seq, sending, items, owed, clients, net, nacks>>
    BY <1>8 DEF Tick, vars, serverVars, wireVars
  <2>2. SentInv' /\ CacheInv' /\ Sent' = Sent
    BY <2>1, SentStutter
  <2>3. OriginInv'
    BY <2>1, <2>2 DEF RecentInv, OriginInv
  <2> QED BY <1>1, <2>2, <2>3 DEF RecentInv
<1> QED BY <1>2, <1>3, <1>4, <1>5, <1>6, <1>7, <1>8 DEF Next

\* The cache answers every request for one of the last CacheSize packets, whatever was
\* retransmitted in between, for any size of the cache, zero included.
THEOREM AlwaysRecentAnswerable == Spec => []RecentAnswerable
<1>1. Init => RecentInv
  BY InitRecent
<1>2. RecentInv /\ [Next]_vars => RecentInv'
  BY NextRecent
<1>3. RecentInv => RecentAnswerable
  BY RecentFound
<1> QED BY <1>1, <1>2, <1>3, PTL DEF Spec

-----------------------------------------------------------------------------
(* Every packet that was emitted for a client can be accounted for: it is  *)
(* on its way, was dropped, its group holds it, or its frame was handed    *)
(* over or its group given up.                                             *)

Traced(c, p) == \/ net[c][p] > 0
                \/ p \in dropped[c]
                \/ p[1] \in HandedFrames(c) \cup given_up[c]
                \/ p[1] \in DOMAIN groups[c] /\ groups[c][p[1]].known[p[2]].size # 0

LossInv == \A c \in Clients :
              /\ owed[c] # {} => c \in clients
              /\ \A p \in Packets : p[1] \in owed[c] /\ Emitted(p) => Traced(c, p)

\* With all traces gone but the dropped packets, two of a frame that is missing were
\* dropped: its group waits for two, or there is none and all of them were.
LEMMA LossCounted == RecentInv /\ LossInv => OneLossCostsNothing
<1> SUFFICES ASSUME RecentInv, LossInv, NEW c \in Clients, NEW g \in owed[c], g < frame,
                    \A p \in Packets : p[1] = g => net[c][p] = 0,
                    g \notin HandedFrames(c) \cup given_up[c]
             PROVE  Cardinality({p \in dropped[c] : p[1] = g}) >= 2
  BY DEF OneLossCostsNothing
<1> DEFINE D == {p \in dropped[c] : p[1] = g}
<1>1. g \in Frames /\ g \in Sent /\ dropped[c] \subseteq Packets
  BY DEF RecentInv, LinkInv, TypeOK, WireType, Sent
<1>2. EmittedOf(g) = Seqs(g)
  <2>1. g # frame
    BY <1>1, FrameFacts
  <2> QED BY <2>1 DEF EmittedOf
<1>3. IsFiniteSet(D) /\ Cardinality(D) \in Nat
  <2>1. IsFiniteSet(Seqs(g)) /\ IsFiniteSet({g})
    BY <1>1, FrameFacts, FS_Singleton
  <2>2. IsFiniteSet({g} \X Seqs(g))
    BY <2>1, FS_Product
  <2>3. D \subseteq {g} \X Seqs(g)
    BY <1>1, PacketFacts
  <2> HIDE DEF D
  <2> QED BY <2>2, <2>3, FS_Subset, FS_CardinalityType
<1>4. PICK i \in Seqs(g), j \in Seqs(g) : i # j /\ <<g, i>> \in D /\ <<g, j>> \in D
  <2>1. ASSUME NEW k \in Seqs(g),
               g \in DOMAIN groups[c] => groups[c][g].known[k].size = 0
        PROVE  <<g, k>> \in D
    <3> DEFINE p == <<g, k>>
    <3>1. p \in Packets /\ p[1] = g /\ p[2] = k
      BY <1>1, PacketFacts
    <3>2. Emitted(p)
      BY <1>1, <1>2, <3>1 DEF Emitted
    <3>3. Traced(c, p)
      BY <3>1, <3>2 DEF LossInv
    <3>4. net[c][p] = 0
      BY <3>1
    <3> QED BY <2>1, <3>1, <3>3, <3>4 DEF Traced
  <2>2. CASE g \in DOMAIN groups[c]
    <3> DEFINE H == Holes(groups[c][g].known)
    <3>1. groups[c][g] \in Groups(g) /\ Cardinality(H) >= 2
      BY <2>2 DEF RecentInv, LinkInv, TypeOK, ReceiverType, NoReadyGroupWaits
    <3>2. H \subseteq Seqs(g) /\ IsFiniteSet(H) /\ \A k \in H : groups[c][g].known[k].size = 0
      BY <1>1, <3>1, HoleFacts
    <3> HIDE DEF H
    <3>3. PICK i \in H : TRUE
      BY <3>1, FS_EmptySet
    <3>4. H # {i}
      <4>1. Cardinality({i}) = 1
        BY FS_Singleton
      <4>2. ASSUME H = {i} PROVE FALSE
        <5>1. Cardinality(H) = 1
          BY <4>1, <4>2
        <5> QED BY <3>1, <5>1 DEF H
      <4> QED BY <4>2
    <3>5. PICK j \in H : i # j
      BY <3>3, <3>4
    <3>6. <<g, i>> \in D /\ <<g, j>> \in D /\ i \in Seqs(g) /\ j \in Seqs(g)
      BY <2>1, <3>2, <3>3, <3>5
    <3> QED BY <3>5, <3>6
  <2>3. CASE g \notin DOMAIN groups[c]
    <3>1. 0 \in Seqs(g) /\ FecSeq \in Seqs(g) /\ 0 # FecSeq
      BY <1>1, FrameFacts DEF Seqs
    <3>2. <<g, 0>> \in D /\ <<g, FecSeq>> \in D
      BY <2>1, <2>3, <3>1
    <3> QED BY <3>1, <3>2
  <2> QED BY <2>2, <2>3
<1>5. Cardinality(D) # 0
  BY <1>3, <1>4, FS_EmptySet
<1>6. Cardinality(D) # 1
  <2>1. ASSUME NEW x, D = {x} PROVE FALSE
    <3>1. <<g, i>> = x /\ <<g, j>> = x
      BY <1>4, <2>1
    <3> QED BY <1>4, <3>1
  <2> HIDE DEF D
  <2> QED BY <1>3, <2>1, FS_Singleton
<1>7. Cardinality(D) >= 2
  <2> HIDE DEF D
  <2> QED BY <1>3, <1>5, <1>6
<1> QED BY <1>7

\* What is injected for a client reaches the network or is dropped, and nothing that
\* was on its way or dropped is forgotten.
LEMMA InjectTraced ==
    ASSUME WireType, NEW C \in SUBSET Clients, NEW P \in SUBSET Packets, Inject(C, P),
           NEW c \in Clients, NEW p \in Packets
    PROVE  /\ net[c][p] > 0 => net'[c][p] > 0
           /\ dropped[c] \subseteq dropped'[c]
           /\ c \in C /\ p \in P => net'[c][p] > 0 \/ p \in dropped'[c]
<1>1. PICK kept \in SUBSET P :
        /\ net' = SetOut(C, kept)
        /\ dropped' = [d \in Clients |->
                         IF d \in C THEN dropped[d] \cup (P \ kept) ELSE dropped[d]]
  BY DEF Inject
<1>2. net'[c][p] = IF c \in C /\ p \in kept THEN net[c][p] + 1 ELSE net[c][p]
  BY <1>1 DEF SetOut
<1>3. net[c][p] \in Nat
  BY WireAssumption DEF WireType
<1>4. dropped'[c] = IF c \in C THEN dropped[c] \cup (P \ kept) ELSE dropped[c]
  BY <1>1
<1> QED BY <1>2, <1>3, <1>4

\* The receivers did nothing and nothing left the network: all traces are there.
LEMMA TracesStay ==
    ASSUME LossInv, UNCHANGED receiverVars, clients \subseteq clients',
           NEW c \in Clients,
           \A p \in Packets : net[c][p] > 0 => net'[c][p] > 0,
           dropped[c] \subseteq dropped'[c],
           NEW p \in Packets, p[1] \in owed[c], Emitted(p)
    PROVE  Traced(c, p)' /\ c \in clients'
<1>1. Traced(c, p) /\ c \in clients
  BY DEF LossInv
<1>2. UNCHANGED <<groups, handed, given_up>>
  BY DEF receiverVars
<1> QED BY <1>1, <1>2 DEF Traced, HandedFrames

\* A packet is filed into its group, or its frame is handed over or given up.
LEMMA DeliverLoss ==
    ASSUME RecentInv, LossInv, NEW c \in Clients, NEW p \in Packets, Deliver(c, p)
    PROVE  LossInv'
<1> DEFINE g == p[1]
           group == Filed(c, p)
<1>1. /\ net' = [net EXCEPT ![c][p] = @ - 1] /\ dropped' = dropped
      /\ UNCHANGED <<clients, owed, frame, next_seq, sending>>
  BY DEF Deliver, Receive, serverVars
<1>2. /\ net \in [Clients -> [Packets -> 0..MaxCopies]]
      /\ DOMAIN groups = Clients /\ DOMAIN handed = Clients
      /\ given_up \in [Clients -> SUBSET Frames]
      /\ g \in Frames /\ p[2] \in Seqs(g)
  BY PacketFacts DEF RecentInv, LinkInv, TypeOK, WireType, ReceiverType
<1>3. group \in Groups(g) /\ group.known[p[2]].size # 0
      /\ \A k \in Seqs(g) : g \in DOMAIN groups[c] /\ groups[c][g].known[k].size # 0
                              => group.known[k].size # 0
  <2> DEFINE old == IF g \in DOMAIN groups[c] THEN groups[c][g] ELSE NewGroup(g)
  <2>1. group \in Groups(g) /\ LinkInv
    BY FiledFacts DEF RecentInv
  <2>2. old \in Groups(g)
    <3>1. NewGroup(g) \in Groups(g)
      BY AgeAssumption, SizeAssumption DEF NewGroup, Groups, Bytes, Nothing
    <3> QED BY <2>1, <3>1 DEF LinkInv, TypeOK, ReceiverType
  <2>3. Content(p).size # 0
    <3>1. p = <<g, p[2]>>
      BY PacketFacts
    <3> QED BY <1>2, <3>1, ContentFacts
  <2>4. group = [old EXCEPT !.known[p[2]] = Content(p)]
    BY DEF Filed
  <2>5. (g \in DOMAIN groups[c]) => old = groups[c][g]
    OBVIOUS
  <2> HIDE DEF old, group
  <2>6. ASSUME NEW k \in Seqs(g)
        PROVE  group.known[k] = IF k = p[2] THEN Content(p) ELSE old.known[k]
    BY <2>2, <2>4 DEF Groups
  <2> QED BY <1>2, <2>1, <2>3, <2>5, <2>6
<1> HIDE DEF group
<1>4. /\ \A d \in Clients : /\ HandedFrames(d) \subseteq HandedFrames(d)'
                            /\ given_up[d] \subseteq given_up'[d]
      /\ \A d \in Clients, h \in Frames : ~(d = c /\ h = g) /\ h \in DOMAIN groups[d]
            => h \in DOMAIN groups'[d] /\ groups'[d][h] = groups[d][h]
      /\ \/ g \in HandedFrames(c)' \cup given_up'[c]
         \/ g \in DOMAIN groups'[c] /\ groups'[c][g].known = group.known
  <2>1. CASE Complete(group) \/ ByFec(group)
    <3>1. /\ groups' = [groups EXCEPT ![c] = WithoutGroup(c, g)]
          /\ handed' = [handed EXCEPT ![c] = @ \cup {<<g, Assembled(group, g)>>}]
          /\ given_up' = given_up
      BY <2>1 DEF Deliver, Receive, Finish, group
    <3>2. \A d \in Clients : handed[d] \subseteq handed'[d]
      BY <1>2, <3>1
    <3>3. <<g, Assembled(group, g)>> \in handed'[c]
      BY <1>2, <3>1
    <3>4. \A d \in Clients, h \in Frames : ~(d = c /\ h = g) /\ h \in DOMAIN groups[d]
             => h \in DOMAIN groups'[d] /\ groups'[d][h] = groups[d][h]
      BY <1>2, <3>1 DEF WithoutGroup
    <3> QED BY <3>1, <3>2, <3>3, <3>4 DEF HandedFrames
  <2>2. CASE ~(Complete(group) \/ ByFec(group))
    <3>1. KeepWaiting(c, g, group) /\ handed' = handed
      BY <2>2 DEF Deliver, Receive, KeepWaiting, group
    <3>2. CASE TooOld(group)
      <4>1. /\ groups' = [groups EXCEPT ![c] = WithoutGroup(c, g)]
            /\ given_up' = [given_up EXCEPT ![c] = @ \cup {g}]
        BY <3>1, <3>2 DEF KeepWaiting
      <4>2. \A d \in Clients, h \in Frames : ~(d = c /\ h = g) /\ h \in DOMAIN groups[d]
               => h \in DOMAIN groups'[d] /\ groups'[d][h] = groups[d][h]
        BY <1>2, <4>1 DEF WithoutGroup
      <4> QED BY <1>2, <3>1, <4>1, <4>2 DEF HandedFrames
    <3>3. CASE ~TooOld(group)
      <4> DEFINE kept == IF NackDue(group) THEN [group EXCEPT !.nacked = 0] ELSE group
      <4>1. groups' = [groups EXCEPT ![c] = WithGroup(c, g, kept)] /\ given_up' = given_up
        BY <3>1, <3>3 DEF KeepWaiting
      <4>2. kept.known = group.known
        BY <1>3 DEF Groups
      <4> HIDE DEF kept
      <4>3. \A d \in Clients, h \in Frames : ~(d = c /\ h = g) /\ h \in DOMAIN groups[d]
               => h \in DOMAIN groups'[d] /\ groups'[d][h] = groups[d][h]
        BY <1>2, <4>1 DEF WithGroup
      <4>4. g \in DOMAIN groups'[c] /\ groups'[c][g] = kept
        BY <1>2, <4>1 DEF WithGroup
      <4> QED BY <3>1, <4>1, <4>2, <4>3, <4>4 DEF HandedFrames
    <3> QED BY <3>2, <3>3
  <2> QED BY <2>1, <2>2
<1>5. ASSUME NEW d \in Clients, NEW q \in Packets, Traced(d, q) PROVE Traced(d, q)'
  <2>1. q = <<q[1], q[2]>> /\ q[1] \in Frames /\ q[2] \in Seqs(q[1])
        /\ p = <<p[1], p[2]>>
    BY PacketFacts
  <2>2. CASE q[1] \in HandedFrames(d) \cup given_up[d] \/ q \in dropped[d]
    BY <1>1, <1>4, <2>2 DEF Traced
  <2>3. CASE net[d][q] > 0
    <3>1. CASE d = c /\ q = p
      BY <1>3, <1>4, <3>1 DEF Traced
    <3>2. CASE ~(d = c /\ q = p)
      <4>1. net'[d][q] = net[d][q]
        BY <1>1, <1>2, <3>2
      <4> QED BY <2>3, <4>1 DEF Traced
    <3> QED BY <3>1, <3>2
  <2>4. CASE q[1] \in DOMAIN groups[d] /\ groups[d][q[1]].known[q[2]].size # 0
    <3>1. CASE d = c /\ q[1] = g
      BY <1>3, <1>4, <2>1, <2>4, <3>1 DEF Traced
    <3>2. CASE ~(d = c /\ q[1] = g)
      BY <1>4, <2>1, <2>4, <3>2 DEF Traced
    <3> QED BY <3>1, <3>2
  <2> QED BY <1>5, <2>2, <2>3, <2>4 DEF Traced
<1>6. \A q \in Packets : Emitted(q)' <=> Emitted(q)
  BY <1>1 DEF Emitted, EmittedOf, Sent
<1> QED BY <1>1, <1>5, <1>6 DEF LossInv

\* Every step leaves every packet its trace.
LEMMA NextLoss == RecentInv /\ LossInv /\ [Next]_vars => LossInv'
<1> SUFFICES ASSUME RecentInv, LossInv, [Next]_vars PROVE LossInv'
  OBVIOUS
<1>0. /\ WireType /\ clients \in SUBSET Clients
      /\ owed \in [Clients -> SUBSET Frames] /\ LinkInv /\ SentInv
  BY DEF RecentInv, LinkInv, TypeOK, ServerType
<1>1. CASE Broadcast
  <2>1. /\ ~sending /\ frame \in Frames /\ clients' = clients /\ net' = net
        /\ dropped' = dropped /\ sending' = TRUE /\ next_seq' = 0 /\ frame' = frame
        /\ UNCHANGED receiverVars
    BY <1>1 DEF Broadcast, BroadcastFrame, wireVars
  <2>2. \A c \in Clients :
           owed'[c] = IF c \in clients THEN owed[c] \cup {frame} ELSE owed[c]
    BY <1>1 DEF Broadcast
  <2>3. ASSUME NEW c \in Clients, NEW p \in Packets, p[1] \in owed'[c], Emitted(p)'
        PROVE  p[1] \in owed[c] /\ Emitted(p)
    <3>1. p[1] \in Frames /\ p[1] \in Nat /\ frame \in Nat
      BY <2>1, PacketFacts, FrameFacts
    <3>2. CASE p[1] = frame
      <4>1. EmittedOf(p[1])' = 0..(0 - 1)
        <5>1. 0 # FecSeq
          BY DEF FecSeq
        <5>2. ~(p[1] < frame) /\ ~(frame < frame)
          BY <3>1, <3>2
        <5> QED BY <2>1, <3>2, <5>1, <5>2 DEF EmittedOf
      <4>2. 0..(0 - 1) = {}
        OBVIOUS
      <4> QED BY <2>3, <4>1, <4>2 DEF Emitted
    <3>3. CASE p[1] # frame
      <4>1. EmittedOf(p[1])' = EmittedOf(p[1])
        BY <2>1, <3>3 DEF EmittedOf
      <4>2. p[1] \in owed[c]
        BY <2>2, <2>3, <3>3
      <4> QED BY <2>3, <4>1, <4>2 DEF Emitted, Sent
    <3> QED BY <3>2, <3>3
  <2>4. ASSUME NEW c \in Clients, NEW p \in Packets, p[1] \in owed'[c], Emitted(p)'
        PROVE  Traced(c, p)'
    BY <2>1, <2>3, <2>4, TracesStay
  <2>5. \A c \in Clients : owed'[c] # {} => c \in clients'
    BY <2>1, <2>2 DEF LossInv
  <2> QED BY <2>4, <2>5 DEF LossInv
<1>2. CASE ServerStep /\ Emit
  <2> DEFINE e == <<frame, next_seq>>
  <2>1. /\ Inject(clients, {e}) /\ UNCHANGED receiverVars /\ owed' = owed
        /\ clients' = clients
    BY <1>2 DEF ServerStep, Emit
  <2>2. e \in Packets /\ \A p \in Packets : Emitted(p)' <=> (Emitted(p) \/ p = e)
    BY <1>2, <2>1, EmitEmitted
  <2> HIDE DEF e
  <2>3. ASSUME NEW c \in Clients, NEW p \in Packets, p[1] \in owed[c], Emitted(p)
        PROVE  Traced(c, p)'
    <3>1. \A q \in Packets : net[c][q] > 0 => net'[c][q] > 0
      BY <1>0, <2>1, <2>2, InjectTraced
    <3>2. dropped[c] \subseteq dropped'[c]
      BY <1>0, <2>1, <2>2, InjectTraced
    <3> QED BY <2>1, <2>3, <3>1, <3>2, TracesStay
  <2>4. ASSUME NEW c \in Clients, NEW p \in Packets, p = e, p[1] \in owed[c]
        PROVE  Traced(c, p)'
    <3>1. c \in clients
      BY <2>4 DEF LossInv
    <3>2. net'[c][p] > 0 \/ p \in dropped'[c]
      BY <1>0, <2>1, <2>2, <2>4, <3>1, InjectTraced
    <3> QED BY <3>2 DEF Traced
  <2>5. ASSUME NEW c \in Clients, NEW p \in Packets, p[1] \in owed'[c], Emitted(p)'
        PROVE  Traced(c, p)'
    <3>1. CASE Emitted(p)
      BY <2>1, <2>3, <2>5, <3>1
    <3>2. CASE ~Emitted(p)
      <4>1. p = e
        BY <2>2, <2>5, <3>2
      <4> QED BY <2>1, <2>4, <2>5, <4>1
    <3> QED BY <3>1, <3>2
  <2> QED BY <2>1, <2>5 DEF LossInv
<1>3. CASE ServerStep /\ SkipFrame
  <2>1. clients = {} /\ clients' = clients /\ owed' = owed
    BY <1>3 DEF ServerStep, SkipFrame
  <2>2. \A c \in Clients : owed[c] = {}
    BY <2>1 DEF LossInv
  <2> QED BY <2>1, <2>2 DEF LossInv
<1>4. ASSUME NEW n \in nacks, Answer(n) PROVE LossInv'
  <2>1. /\ Inject(clients, Found(n)) /\ UNCHANGED receiverVars
        /\ UNCHANGED <<owed, clients, frame, next_seq, sending>>
    BY <1>4 DEF Answer, HandleNack, serverVars
  <2>2. Found(n) \in SUBSET Packets
    BY DEF Found, Cached, RecentInv, LinkInv, TypeOK, ServerType
  <2>3. \A p \in Packets : Emitted(p)' <=> Emitted(p)
    BY <2>1 DEF Emitted, EmittedOf, Sent
  <2>4. ASSUME NEW c \in Clients, NEW p \in Packets, p[1] \in owed[c], Emitted(p)
        PROVE  Traced(c, p)'
    <3>1. \A q \in Packets : net[c][q] > 0 => net'[c][q] > 0
      BY <1>0, <2>1, <2>2, InjectTraced
    <3>2. dropped[c] \subseteq dropped'[c]
      BY <1>0, <2>1, <2>2, InjectTraced
    <3> QED BY <2>1, <2>4, <3>1, <3>2, TracesStay
  <2> QED BY <2>1, <2>3, <2>4 DEF LossInv
<1>5. ASSUME NEW c \in Clients, NEW p \in Packets, Deliver(c, p) PROVE LossInv'
  BY <1>5, DeliverLoss
<1>6. CASE Drop
  <2>1. UNCHANGED receiverVars /\ UNCHANGED <<owed, clients, frame, next_seq, sending>>
    BY <1>6 DEF Drop, serverVars
  <2>2. \A p \in Packets : Emitted(p)' <=> Emitted(p)
    BY <2>1 DEF Emitted, EmittedOf, Sent
  <2>3. CASE \E c \in Clients, p \in Packets : Lose(c, p)
    <3>1. PICK c \in Clients, p \in Packets : Lose(c, p)
      BY <2>3
    <3>2. net' = [net EXCEPT ![c][p] = @ - 1]
          /\ dropped' = [dropped EXCEPT ![c] = @ \cup {p}]
      BY <3>1 DEF Lose
    <3>3. ASSUME NEW d \in Clients, NEW q \in Packets, Traced(d, q) PROVE Traced(d, q)'
      <4>1. CASE d = c /\ q = p
        BY <1>0, <3>2, <4>1 DEF WireType, Traced
      <4>2. CASE ~(d = c /\ q = p)
        <5>1. net'[d][q] = net[d][q] /\ dropped[d] \subseteq dropped'[d]
          BY <1>0, <3>2, <4>2 DEF WireType
        <5> QED BY <2>1, <3>3, <5>1 DEF Traced, HandedFrames, receiverVars
      <4> QED BY <4>1, <4>2
    <3> QED BY <2>1, <2>2, <3>3 DEF LossInv
  <2>4. CASE \E n \in nacks : LoseNack(n)
    <3>1. net' = net /\ dropped' = dropped
      BY <2>4 DEF LoseNack
    <3> QED BY <2>1, <2>2, <3>1, TracesStay DEF LossInv
  <2> QED BY <1>6, <2>3, <2>4 DEF Drop
<1>7. CASE Tick
  <2>1. /\ UNCHANGED <<owed, clients, frame, next_seq, sending, net, dropped>>
        /\ handed' = handed /\ given_up' = given_up
    BY <1>7 DEF Tick, GroupsAge, serverVars, wireVars
  <2>2. \A p \in Packets : Emitted(p)' <=> Emitted(p)
    BY <2>1 DEF Emitted, EmittedOf, Sent
  <2>3. ASSUME NEW c \in Clients, NEW g \in DOMAIN groups[c]
        PROVE  g \in DOMAIN groups'[c] /\ groups'[c][g].known = groups[c][g].known
    <3>1. groups[c][g] \in Groups(g)
      BY <1>0 DEF LinkInv, TypeOK, ReceiverType
    <3>2. g \in DOMAIN groups'[c]
          /\ groups'[c][g] = [groups[c][g] EXCEPT !.age = Older(@, GiveUpAge + 1),
                                                  !.nacked = Older(@, NackInterval)]
      BY <1>7 DEF Tick, GroupsAge
    <3> QED BY <3>1, <3>2 DEF Groups
  <2> QED BY <2>1, <2>2, <2>3 DEF LossInv, Traced, HandedFrames
<1>8. CASE (\E c \in Clients : Ping(c)) \/ UNCHANGED vars
  <2>1. /\ UNCHANGED receiverVars
        /\ UNCHANGED <<owed, frame, next_seq, sending, net, dropped>>
        /\ clients \subseteq clients'
    BY <1>8 DEF Ping, HandlePing, vars, serverVars, wireVars
  <2>2. \A p \in Packets : Emitted(p)' <=> Emitted(p)
    BY <2>1 DEF Emitted, EmittedOf, Sent
  <2>3. ASSUME NEW c \in Clients, NEW p \in Packets, p[1] \in owed[c], Emitted(p)
        PROVE  Traced(c, p)'
    BY <2>1, <2>3, TracesStay
  <2> QED BY <2>1, <2>2, <2>3 DEF LossInv
<1> QED BY <1>1, <1>2, <1>3, <1>4, <1>5, <1>6, <1>7, <1>8 DEF Next, ServerStep

\* For any frames and clients, any loss, delay, reordering and retransmission, and groups
\* that start over: a frame all of whose packets have left the network reached the jitter
\* buffer, or its group was given up, or two of its packets were dropped.
THEOREM AlwaysOneLossCostsNothing == Spec => []OneLossCostsNothing
<1>1. Init => RecentInv /\ LossInv
  <2>1. Init => LossInv
    BY DEF Init, LossInv
  <2> QED BY <2>1, InitRecent
<1>2. RecentInv /\ LossInv /\ [Next]_vars => RecentInv' /\ LossInv'
  BY NextRecent, NextLoss
<1> QED BY <1>1, <1>2, LossCounted, PTL DEF Spec

-----------------------------------------------------------------------------
(* Over a prompt network every group that time has passed for is at rest:  *)
(* its frame was sent, and no packet of it and no request for it is on     *)
(* its way.                                                                *)

Silent(g) == /\ g < frame
             /\ \A n \in nacks : n[1] # g
             /\ \A c \in Clients, p \in Packets : net[c][p] > 0 => p[1] # g

RestInv == \A c \in Clients :
              /\ given_up[c] = {}
              /\ \A g \in DOMAIN groups[c] : /\ g \in Sent
                                             /\ groups[c][g].age > 0 => Silent(g)

\* Injected packets are the only ones that set out.
LEMMA InjectSets ==
    ASSUME NEW C \in SUBSET Clients, NEW P \in SUBSET Packets, Inject(C, P)
    PROVE  \A c \in Clients, p \in Packets : net'[c][p] > 0 => p \in P \/ net[c][p] > 0
<1>1. PICK kept \in SUBSET P : net' = SetOut(C, kept)
  BY DEF Inject
<1>2. SUFFICES ASSUME NEW c \in Clients, NEW p \in Packets, net'[c][p] > 0, p \notin P
               PROVE  net[c][p] > 0
  OBVIOUS
<1>3. net'[c][p] = net[c][p]
  BY <1>1, <1>2 DEF SetOut
<1> QED BY <1>2, <1>3

\* A packet that arrives or is lost makes no other one appear.
LEMMA TakenFrom ==
    ASSUME WireType, NEW c \in Clients, NEW p \in Packets,
           net' = [net EXCEPT ![c][p] = @ - 1]
    PROVE  \A d \in Clients, q \in Packets : net'[d][q] > 0 => net[d][q] > 0
<1>1. net \in [Clients -> [Packets -> 0..MaxCopies]] /\ MaxCopies \in Nat
  BY WireAssumption DEF WireType
<1> SUFFICES ASSUME NEW d \in Clients, NEW q \in Packets, net'[d][q] > 0
             PROVE  net[d][q] > 0
  OBVIOUS
<1>2. CASE d = c /\ q = p
  BY <1>1, <1>2
<1>3. CASE ~(d = c /\ q = p)
  BY <1>1, <1>3
<1> QED BY <1>2, <1>3

\* What is silent stays silent: the server emits newer frames, answers requests for
\* other ones, and a receiver asks for the frame of the packet it received.
LEMMA SilenceStays ==
    ASSUME RecentInv, [Next]_vars, NEW g \in Frames, Silent(g)
    PROVE  Silent(g)'
<1>0. WireType /\ clients \in SUBSET Clients /\ g \in Nat /\ frame \in Nat /\ SendInv
  BY FrameFacts, WireAssumption DEF RecentInv, LinkInv, TypeOK, ServerType
<1> DEFINE Rest == /\ \A n \in nacks' : n[1] # g
                   /\ \A c \in Clients, p \in Packets : net'[c][p] > 0 => p[1] # g
<1>1. SUFFICES Rest /\ frame' >= frame /\ frame' \in Nat
  BY <1>0 DEF Silent
<1>2. CASE /\ frame' = frame /\ nacks' \subseteq nacks
           /\ \A c \in Clients, p \in Packets : net'[c][p] > 0 => net[c][p] > 0
  BY <1>0, <1>2 DEF Silent
<1>3. CASE Broadcast \/ (\E c \in Clients : Ping(c)) \/ Tick \/ UNCHANGED vars
  <2>1. frame' = frame /\ nacks' = nacks /\ net' = net
    BY <1>3 DEF Broadcast, BroadcastFrame, Ping, HandlePing, Tick, vars, serverVars, wireVars
  <2> QED BY <1>2, <2>1
<1>4. CASE ServerStep
  <2>1. CASE SkipFrame
    BY <1>0, <2>1 DEF SkipFrame, wireVars, Silent
  <2>2. CASE Emit
    <3> DEFINE e == <<frame, next_seq>>
    <3>1. e \in Packets /\ e[1] = frame
      BY <1>0, <2>2, PacketFacts DEF Emit, SendInv
    <3>2. Inject(clients, {e}) /\ nacks' = nacks
          /\ (frame' = frame \/ frame' = frame + 1)
      BY <2>2 DEF Emit
    <3>3. \A c \in Clients, p \in Packets : net'[c][p] > 0 => p = e \/ net[c][p] > 0
      BY <1>0, <3>1, <3>2, InjectSets
    <3>4. frame # g
      BY <1>0 DEF Silent
    <3>5. Rest
      BY <3>1, <3>2, <3>3, <3>4 DEF Silent
    <3> QED BY <1>0, <3>2, <3>5
  <2> QED BY <1>4, <2>1, <2>2 DEF ServerStep
<1>5. ASSUME NEW n \in nacks, Answer(n) PROVE Rest /\ frame' >= frame /\ frame' \in Nat
  <2>1. nacks' \subseteq nacks /\ Inject(clients, Found(n)) /\ frame' = frame
    BY <1>5 DEF Answer, HandleNack, serverVars
  <2>2. Found(n) \in SUBSET Packets /\ \A p \in Found(n) : p[1] = n[1]
    BY DEF Found, Cached, RecentInv, LinkInv, TypeOK, ServerType
  <2>3. \A c \in Clients, p \in Packets : net'[c][p] > 0 => p \in Found(n) \/ net[c][p] > 0
    BY <1>0, <2>1, <2>2, InjectSets
  <2>4. Rest
    BY <2>1, <2>2, <2>3 DEF Silent
  <2> QED BY <1>0, <2>1, <2>4
<1>6. ASSUME NEW d \in Clients, NEW q \in Packets, Deliver(d, q)
      PROVE  Rest /\ frame' >= frame /\ frame' \in Nat
  <2>1. net[d][q] > 0 /\ net' = [net EXCEPT ![d][q] = @ - 1] /\ frame' = frame
    BY <1>6 DEF Deliver, Receive, serverVars
  <2>2. \A n \in nacks' : n \in nacks \/ n[1] = q[1]
    BY <1>6 DEF Deliver, Receive, Finish, KeepWaiting, SendNack
  <2>3. q[1] # g
    BY <2>1 DEF Silent
  <2>4. \A c \in Clients, p \in Packets : net'[c][p] > 0 => net[c][p] > 0
    BY <1>0, <2>1, TakenFrom
  <2>5. Rest
    BY <2>2, <2>3, <2>4 DEF Silent
  <2> QED BY <1>0, <2>1, <2>5
<1>7. CASE Drop
  <2>1. frame' = frame
    BY <1>7 DEF Drop, serverVars
  <2>2. CASE \E c \in Clients, p \in Packets : Lose(c, p)
    <3>1. PICK c \in Clients, p \in Packets : Lose(c, p)
      BY <2>2
    <3>2. net' = [net EXCEPT ![c][p] = @ - 1] /\ nacks' = nacks
      BY <3>1 DEF Lose
    <3>3. \A d \in Clients, q \in Packets : net'[d][q] > 0 => net[d][q] > 0
      BY <1>0, <3>2, TakenFrom
    <3> QED BY <1>2, <2>1, <3>2, <3>3
  <2>3. CASE \E n \in nacks : LoseNack(n)
    BY <1>2, <2>1, <2>3 DEF LoseNack
  <2> QED BY <1>7, <2>2, <2>3 DEF Drop
<1> QED BY <1>3, <1>4, <1>5, <1>6, <1>7 DEF Next

\* A packet arrives: its group is one for which no time has passed, so it is not given up.
LEMMA DeliverRest ==
    ASSUME RecentInv, RestInv, RecentInv', NEW c \in Clients, NEW p \in Packets, Deliver(c, p)
    PROVE  RestInv'
<1> DEFINE g == p[1]
           group == Filed(c, p)
<1>0. g \in Frames /\ g \in Sent /\ Sent' = Sent /\ DOMAIN groups = Clients
      /\ GiveUpAge \in Nat
  <2>1. net[c][p] > 0 /\ owed' = owed
    BY DEF Deliver, Receive
  <2>2. DOMAIN groups = Clients
    BY DEF RecentInv, LinkInv, TypeOK, ReceiverType
  <2>3. GiveUpAge \in Nat
    BY AgeAssumption
  <2> QED BY <2>1, <2>2, <2>3, PacketFacts DEF RecentInv, OriginInv, Sent
<1>1. group.age = 0
  <2>1. net[c][p] > 0
    BY DEF Deliver, Receive
  <2>2. CASE g \in DOMAIN groups[c]
    <3>1. groups[c][g] \in Groups(g)
      BY <2>2 DEF RecentInv, LinkInv, TypeOK, ReceiverType
    <3>2. ~(groups[c][g].age > 0)
      BY <2>1, <2>2 DEF RestInv, Silent
    <3>3. groups[c][g].age \in 0..(GiveUpAge + 1)
      BY <3>1 DEF Groups
    <3>4. groups[c][g].age = 0
      BY <1>0, <3>2, <3>3
    <3>5. group = [groups[c][g] EXCEPT !.known[p[2]] = Content(p)]
      BY <2>2 DEF Filed
    <3> QED BY <3>1, <3>4, <3>5 DEF Groups
  <2>3. CASE g \notin DOMAIN groups[c]
    <3>1. group = [NewGroup(g) EXCEPT !.known[p[2]] = Content(p)]
      BY <2>3 DEF Filed
    <3> QED BY <3>1 DEF NewGroup
  <2> QED BY <2>2, <2>3
<1>2. ~TooOld(group)
  BY <1>0, <1>1 DEF TooOld
<1>3. given_up' = given_up
  BY <1>2 DEF Deliver, Receive, Finish, KeepWaiting
<1>4. PICK kept : kept.age = 0
                  /\ \/ groups' = [groups EXCEPT ![c] = WithoutGroup(c, g)]
                     \/ groups' = [groups EXCEPT ![c] = WithGroup(c, g, kept)]
  <2>1. CASE Complete(group) \/ ByFec(group)
    BY <1>1, <2>1 DEF Deliver, Receive, Finish
  <2>2. CASE ~(Complete(group) \/ ByFec(group))
    <3> DEFINE k == IF NackDue(group) THEN [group EXCEPT !.nacked = 0] ELSE group
    <3>1. groups' = [groups EXCEPT ![c] = WithGroup(c, g, k)]
      BY <1>2, <2>2 DEF Deliver, Receive, KeepWaiting
    <3>2. k.age = 0
      <4>1. group \in Groups(g)
        BY FiledFacts DEF RecentInv
      <4> QED BY <1>1, <4>1 DEF Groups
    <3> QED BY <3>1, <3>2
  <2> QED BY <2>1, <2>2
<1>5. ASSUME NEW d \in Clients, NEW h \in DOMAIN groups'[d]
      PROVE  h \in Sent /\ (groups'[d][h].age > 0 => Silent(h)')
  <2>1. CASE h \in DOMAIN groups[d] /\ groups'[d][h] = groups[d][h]
    <3>1. h \in Sent /\ (groups[d][h].age > 0 => Silent(h))
      BY <2>1 DEF RestInv
    <3>2. h \in Frames
      BY <2>1 DEF RecentInv, LinkInv, TypeOK, ReceiverType
    <3>3. Silent(h) => Silent(h)'
      BY <3>2, SilenceStays DEF Next
    <3> QED BY <2>1, <3>1, <3>3
  <2>2. CASE h = g /\ groups'[d][h] = kept
    BY <1>0, <1>4, <2>2
  <2>3. CASE d = c
    BY <1>0, <1>4, <2>1, <2>2, <2>3 DEF WithGroup, WithoutGroup
  <2>4. CASE d # c
    BY <1>0, <1>4, <2>1, <2>4
  <2> QED BY <2>3, <2>4
<1> QED BY <1>0, <1>3, <1>5 DEF RestInv

\* Time passes once nothing is on its way any more.
LEMMA TickRest ==
    ASSUME Prompt, RecentInv, RestInv, Tick
    PROVE  RestInv'
<1>1. Quiet /\ ~sending /\ given_up' = given_up /\ UNCHANGED <<frame, nacks, net, owed>>
  BY DEF Tick, GroupsAge, wireVars, serverVars
<1>2. \A c \in Clients : DOMAIN groups'[c] = DOMAIN groups[c]
  BY DEF Tick, GroupsAge
<1>3. ASSUME NEW g \in Sent PROVE Silent(g)'
  <2>1. g <= frame /\ g # frame
    BY <1>1 DEF RecentInv, SentInv
  <2>2. g \in Nat /\ frame \in Nat
    BY WireAssumption DEF RecentInv, LinkInv, TypeOK, ServerType, Sent, Frames
  <2>3. g < frame
    BY <2>1, <2>2
  <2>4. nacks = {} /\ \A c \in Clients, p \in Packets : ~(net[c][p] > 0)
    BY <1>1 DEF Quiet
  <2> QED BY <1>1, <2>3, <2>4 DEF Silent
<1>4. Sent' = Sent
  BY <1>1 DEF Sent
<1> QED BY <1>1, <1>2, <1>3, <1>4 DEF RestInv

\* Every step keeps the groups at rest.
LEMMA NextRest ==
    ASSUME Prompt, RecentInv, RestInv, [Next]_vars
    PROVE  RecentInv' /\ RestInv'
<1>0. RecentInv'
  BY NextRecent
<1> SUFFICES RestInv'
  BY <1>0
<1>1. CASE UNCHANGED receiverVars
  <2>1. groups' = groups /\ given_up' = given_up
    BY <1>1 DEF receiverVars
  <2>2. Sent \subseteq Sent'
    <3>1. owed' = owed \/ Broadcast
      BY DEF Next, ServerStep, Ping, Answer, Deliver, Drop, Tick, vars
    <3>2. \A c \in Clients : owed[c] \subseteq owed'[c]
      BY <3>1 DEF Broadcast
    <3> QED BY <3>2 DEF Sent
  <2>3. ASSUME NEW c \in Clients, NEW g \in DOMAIN groups[c]
        PROVE  g \in Sent' /\ (groups[c][g].age > 0 => Silent(g)')
    <3>1. g \in Frames
      BY DEF RecentInv, LinkInv, TypeOK, ReceiverType
    <3> QED BY <2>2, <3>1, SilenceStays DEF RestInv
  <2> QED BY <2>1, <2>3 DEF RestInv
<1>2. ASSUME NEW c \in Clients, NEW p \in Packets, Deliver(c, p) PROVE RestInv'
  BY <1>0, <1>2, DeliverRest
<1>3. CASE Tick
  BY <1>3, TickRest
<1>4. UNCHANGED receiverVars \/ Tick \/ \E c \in Clients, p \in Packets : Deliver(c, p)
  BY DEF Next, Broadcast, ServerStep, Ping, Answer, Drop, vars
<1> QED BY <1>1, <1>2, <1>3, <1>4

\* Over a prompt network the receivers give up no group, those that start over
\* after their frame is complete included, for any number of clients and any ages:
\* a group is given up only when a packet of it arrives late.
THEOREM AlwaysNothingGivenUp == Spec => []NothingGivenUp
<1>1. CASE Prompt
  <2>1. Init => RecentInv /\ RestInv
    <3>1. Init => RestInv
      BY DEF Init, ReceiverInit, RestInv
    <3> QED BY <3>1, InitRecent
  <2>2. RecentInv /\ RestInv /\ [Next]_vars => RecentInv' /\ RestInv'
    BY <1>1, NextRest
  <2>3. RestInv => NothingGivenUp
    BY DEF RestInv, NothingGivenUp
  <2> QED BY <2>1, <2>2, <2>3, PTL DEF Spec
<1>2. CASE ~Prompt
  <2>1. NothingGivenUp
    BY <1>2 DEF NothingGivenUp
  <2> QED BY <2>1, PTL
<1> QED BY <1>1, <1>2

-----------------------------------------------------------------------------
(* The loss simulator between broadcast and the socket, for any packets,   *)
(* any injecting threads, any delay and jitter: its drain thread never     *)
(* oversleeps, packets leave in the order they are due, and at most once.  *)

\* A packet is in one place, one that inject has not seen has no due time, ...
InOnePlace == /\ pending \cap hand = {} /\ (drain # "sending" => hand = {})
              /\ \A p, r \in hand : p = r
              /\ (pending \cup hand) \cap refused = {}
              /\ \A p \in Fresh : due[p] = 0
              /\ AtMostOnce
\* ... and it left when it was due or later.
DuePast == \A r \in Injected : Left(r) => due[r] <= now

SimInv == SimTypeOK /\ InOnePlace /\ DuePast /\ LeaveInDueOrder /\ NeverOversleeps

\* At first nothing is pending and nothing has left.
LEMMA SimInitInv == SimInit => SimInv
<1> SUFFICES ASSUME SimInit PROVE SimInv
  OBVIOUS
<1>1. now \in 0..MaxTime /\ nap_until \in 0..MaxTime /\ due \in [Injected -> 0..MaxTime]
      /\ sent \in [Injected -> 0..1] /\ inj \in [Injectors -> {"idle", "notify"}]
      /\ drain \in {"none", "head", "looking", "asleep", "napping", "sending", "done"}
  BY SimulatorAssumption DEF SimInit
<1>2. running \in BOOLEAN
  BY SimulatorAssumption, Zenon DEF SimInit, HasWorker
<1>3. Cardinality(hand) <= 1
  BY FS_EmptySet DEF SimInit
<1>4. SimTypeOK
  BY <1>1, <1>2, <1>3, Zenon DEF SimInit, SimTypeOK
<1>5. InOnePlace /\ DuePast /\ LeaveInDueOrder /\ NeverOversleeps
  BY DEF SimInit, HasWorker, InOnePlace, Fresh, AtMostOnce, DuePast, Left, LeaveInDueOrder,
         NeverOversleeps
<1> QED BY <1>4, <1>5 DEF SimInv

-----------------------------------------------------------------------------
(* inject *)

\* inject: a packet that it sends, refuses or puts among the pending ones was nowhere before,
\* and is due now or later.
LEMMA InjectInv ==
    ASSUME SimInv, NEW i \in Injectors, NEW p \in Injected,
           Drops(i, p) \/ SendsAtOnce(i, p) \/ Delays(i, p)
    PROVE  SimInv'
<1> USE DEF SimInv, Fresh
<1>1. CASE Drops(i, p)
  <2>1. refused' \subseteq Injected
    BY <1>1 DEF Drops, SimTypeOK
  <2>2. SimTypeOK'
    BY <1>1, <2>1, Zenon DEF Drops, SimTypeOK
  <2> QED BY <1>1, <2>2 DEF Drops, InOnePlace, AtMostOnce, DuePast, Left, LeaveInDueOrder,
                            NeverOversleeps
<1>2. CASE SendsAtOnce(i, p)
  <2>1. sent' \in [Injected -> 0..1]
    BY <1>2 DEF SendsAtOnce, SimTypeOK
  <2>2. SimTypeOK'
    BY <1>2, <2>1, Zenon DEF SendsAtOnce, SimTypeOK
  <2>3. due \in [Injected -> 0..MaxTime] /\ now \in 0..MaxTime /\ MaxTime \in Nat
        /\ sent \in [Injected -> 0..1] /\ pending \subseteq Injected /\ due[p] = 0 /\ sent[p] = 0
    BY <1>2, SimulatorAssumption DEF SendsAtOnce, SimTypeOK, InOnePlace
  <2>4. /\ UNCHANGED <<now, running, pending, due, inj, drain, nap_until, hand, refused, stop>>
        /\ sent'[p] = 1 /\ \A r \in Injected : r # p => sent'[r] = sent[r]
    BY <1>2, <2>3 DEF SendsAtOnce
  <2>5. InOnePlace'
    BY <1>2, <2>4 DEF SendsAtOnce, InOnePlace, AtMostOnce
  <2>6. DuePast' /\ LeaveInDueOrder'
    BY <2>3, <2>4 DEF DuePast, LeaveInDueOrder, Left
  <2> QED BY <2>2, <2>4, <2>5, <2>6 DEF NeverOversleeps
<1>3. CASE Delays(i, p)
  <2> PICK d \in Delay..(Delay + Jitter) : /\ d > 0 /\ now + d <= MaxTime
                                           /\ due' = [due EXCEPT ![p] = now + d]
    BY <1>3 DEF Delays
  <2>1. d \in Nat /\ due \in [Injected -> 0..MaxTime] /\ now \in 0..MaxTime /\ MaxTime \in Nat
    BY SimulatorAssumption DEF SimTypeOK
  <2>2. due' \in [Injected -> 0..MaxTime] /\ pending' \subseteq Injected
        /\ inj' \in [Injectors -> {"idle", "notify"}]
    BY <1>3, <2>1 DEF Delays, SimTypeOK
  <2>3. SimTypeOK'
    BY <1>3, <2>2, Zenon DEF Delays, SimTypeOK
  <2>4. InOnePlace'
    BY <1>3 DEF Delays, InOnePlace, AtMostOnce
  <2>5. DuePast' /\ LeaveInDueOrder'
    BY <1>3, <2>1 DEF Delays, DuePast, LeaveInDueOrder, Left, SimTypeOK
  <2>6. NeverOversleeps'
    BY <1>3 DEF Delays, NeverOversleeps, SimTypeOK
  <2> QED BY <2>3, <2>4, <2>5, <2>6
<1> QED BY <1>1, <1>2, <1>3

\* The notification reaches the drain thread if it sleeps.
LEMMA NotifyInv ==
    ASSUME SimInv, \/ \E i \in Injectors : Notify(i)
                   \/ SpuriousWakeup
    PROVE  SimInv'
<1> USE DEF SimInv, Fresh
<1>1. drain' \in {"none", "head", "looking", "asleep", "napping", "sending", "done"}
      /\ inj' \in [Injectors -> {"idle", "notify"}]
  BY DEF Notify, SpuriousWakeup, Woken, SimTypeOK
<1>2. UNCHANGED <<now, running, pending, due, nap_until, hand, sent, refused, stop>>
        /\ (drain = "sending" => drain' = "sending")
  BY DEF Notify, SpuriousWakeup, Woken
<1>3. SimTypeOK'
  BY <1>1, <1>2, Zenon DEF SimTypeOK
<1>4. InOnePlace' /\ DuePast' /\ LeaveInDueOrder'
  BY <1>2 DEF InOnePlace, Fresh, AtMostOnce, DuePast, LeaveInDueOrder, Left
<1>5. \/ (drain' = "asleep" => pending' = {}) /\ drain' # "napping"
      \/ inj' = inj /\ (drain' = drain \/ drain' = "head")
  BY <1>2 DEF Notify, SpuriousWakeup, Woken, Awaited
<1>6. NeverOversleeps'
  BY <1>2, <1>5 DEF NeverOversleeps
<1> QED BY <1>3, <1>4, <1>6

-----------------------------------------------------------------------------
(* drain_loop, stop and time *)

\* The drain thread: the packet it takes is due before all that stay.
LEMMA DrainInv == SimInv /\ Drain => SimInv'
<1> SUFFICES ASSUME SimInv, Drain PROVE SimInv'
  OBVIOUS
<1> USE DEF SimInv
<1>1. CASE LoopHead \/ FallsAsleep \/ NapEnds
  <2>1. drain' \in {"none", "head", "looking", "asleep", "napping", "sending", "done"}
    BY <1>1 DEF LoopHead, FallsAsleep, NapEnds
  <2>2. UNCHANGED <<now, running, pending, due, inj, nap_until, hand, sent, refused, stop>>
        /\ drain # "sending"
    BY <1>1 DEF LoopHead, FallsAsleep, NapEnds
  <2>3. SimTypeOK'
    BY <2>1, <2>2, Zenon DEF SimTypeOK
  <2>4. NeverOversleeps'
    BY <1>1, <2>2 DEF LoopHead, FallsAsleep, NapEnds, NeverOversleeps
  <2> QED BY <2>2, <2>3, <2>4 DEF InOnePlace, Fresh, AtMostOnce, DuePast, LeaveInDueOrder, Left
<1>2. CASE TakesNap
  <2> PICK p \in Top : nap_until' = due[p]
    BY <1>2 DEF TakesNap
  <2>1. UNCHANGED <<now, running, pending, due, inj, hand, sent, refused, stop>>
        /\ drain' = "napping" /\ drain # "sending"
    BY <1>2 DEF TakesNap
  <2>2. nap_until' \in 0..MaxTime
    BY DEF Top, SimTypeOK
  <2>3. SimTypeOK'
    BY <2>1, <2>2, Zenon DEF SimTypeOK
  <2>4. NeverOversleeps'
    BY <2>1 DEF NeverOversleeps, Top
  <2> QED BY <2>1, <2>3, <2>4 DEF InOnePlace, Fresh, AtMostOnce, DuePast, LeaveInDueOrder, Left
<1>3. CASE Pops
  <2> PICK p \in Top : due[p] <= now /\ hand' = {p} /\ pending' = pending \ {p}
    BY <1>3 DEF Pops, LeftAfter
  <2>1. UNCHANGED <<now, running, due, inj, nap_until, sent, refused, stop>>
        /\ drain' = "sending" /\ p \in pending /\ pending \subseteq Injected
    BY <1>3 DEF Pops, Top, SimTypeOK
  <2>2. Cardinality(hand') <= 1 /\ hand' \subseteq Injected /\ pending' \subseteq Injected
    <3>1. Cardinality({p}) = 1
      BY FS_Singleton
    <3> QED BY <2>1, <3>1
  <2>3. SimTypeOK'
    BY <2>1, <2>2, Zenon DEF SimTypeOK
  <2>4. (\A r \in Injected : sent[r] = sent'[r]) /\ hand = {}
        /\ pending' \cup hand' = pending
    BY <1>3, <2>1 DEF Pops, InOnePlace
  <2>5. InOnePlace' /\ NeverOversleeps'
    BY <2>1, <2>4 DEF InOnePlace, Fresh, AtMostOnce, NeverOversleeps
  <2>6. DuePast' /\ LeaveInDueOrder'
    BY <2>1 DEF DuePast, LeaveInDueOrder, Left, Top
  <2> QED BY <2>3, <2>5, <2>6
<1>4. CASE Sends
  <2>1. \A p \in hand : sent[p] = 0
    BY DEF InOnePlace, AtMostOnce, SimTypeOK
  <2>2. sent' \in [Injected -> 0..1] /\ hand' = {} /\ Cardinality(hand') <= 1
    BY <1>4, <2>1, FS_EmptySet DEF Sends, SimTypeOK
  <2>3. UNCHANGED <<now, running, pending, due, inj, nap_until, refused, stop>>
        /\ drain' = "head"
    BY <1>4 DEF Sends
  <2>4. SimTypeOK'
    BY <2>2, <2>3, Zenon DEF SimTypeOK
  <2>5. \A p \in Injected : /\ Left(p)' <=> Left(p)
                            /\ p \notin hand => sent'[p] = sent[p]
    BY <1>4, <2>1 DEF Sends, Left, SimTypeOK
  <2>6. (pending \cup hand) \cap refused = {} /\ Fresh' = Fresh
    BY <2>2, <2>3, <2>5, <2>1 DEF InOnePlace, Fresh, Left
  <2>7. InOnePlace'
    BY <2>2, <2>3, <2>5, <2>6 DEF InOnePlace, AtMostOnce
  <2> QED BY <2>3, <2>4, <2>5, <2>7 DEF DuePast, LeaveInDueOrder, NeverOversleeps
<1> QED BY <1>1, <1>2, <1>3, <1>4 DEF Drain

\* Every step keeps the invariant.
LEMMA SimNextInv == SimInv /\ [SimNext]_simVars => SimInv'
<1> SUFFICES ASSUME SimInv, [SimNext]_simVars PROVE SimInv'
  OBVIOUS
<1> USE DEF SimInv
<1>1. CASE StopBegins \/ StopJoins \/ UNCHANGED simVars
  <2>1. UNCHANGED <<now, pending, due, inj, drain, nap_until, hand, sent, refused>>
    BY <1>1 DEF StopBegins, StopJoins, simVars
  <2>2. running' \in BOOLEAN /\ stop' \in {"no", "joining", "stopped"}
    BY <1>1, Zenon DEF StopBegins, StopJoins, simVars, SimTypeOK
  <2>3. SimTypeOK'
    BY <2>1, <2>2, Zenon DEF SimTypeOK
  <2> QED BY <2>1, <2>3 DEF InOnePlace, Fresh, AtMostOnce, DuePast, LeaveInDueOrder, Left,
                            NeverOversleeps
<1>2. CASE TimePasses
  <2>1. UNCHANGED <<running, pending, due, inj, drain, nap_until, hand, sent, refused, stop>>
        /\ now' \in 0..MaxTime /\ now' = now + 1 /\ now \in Nat
    BY <1>2, SimulatorAssumption DEF TimePasses, SimTypeOK
  <2>2. SimTypeOK'
    BY <2>1, Zenon DEF SimTypeOK
  <2>3. DuePast'
    BY <2>1, SimulatorAssumption DEF DuePast, Left, SimTypeOK
  <2> QED BY <2>1, <2>2, <2>3 DEF InOnePlace, Fresh, AtMostOnce, LeaveInDueOrder, Left,
                                  NeverOversleeps
<1> QED BY <1>1, <1>2, InjectInv, NotifyInv, DrainInv DEF SimNext

\* The invariant holds throughout.
LEMMA AlwaysSimInv == SimSpec => []SimInv
BY SimInitInv, SimNextInv, PTL DEF SimSpec

\* The state has its type: no packet leaves twice, none is in the drain thread's hand
\* with another.
THEOREM SimTypeCorrect == SimSpec => []SimTypeOK
BY AlwaysSimInv, PTL DEF SimInv

\* The drain thread never sleeps beyond the moment a packet is due.
THEOREM AlwaysNeverOversleeps == SimSpec => []NeverOversleeps
BY AlwaysSimInv, PTL DEF SimInv

\* Delayed packets leave in the order of their due times.
THEOREM AlwaysInDueOrder == SimSpec => []LeaveInDueOrder
BY AlwaysSimInv, PTL DEF SimInv

\* No packet goes out twice, and none that inject refused.
THEOREM AlwaysAtMostOnce == SimSpec => []AtMostOnce
<1>1. SimInv => AtMostOnce
  BY DEF SimInv, InOnePlace
<1> QED BY <1>1, AlwaysSimInv, PTL

-----------------------------------------------------------------------------
(* The simulator implements the abstract delay line. *)

\* What inject does to a packet the abstract line does too.
LEMMA InjectLine ==
    ASSUME SimInv, NEW i \in Injectors, NEW p \in Injected,
           Drops(i, p) \/ SendsAtOnce(i, p) \/ Delays(i, p)
    PROVE  Line!Next
<1>1. p \in Line!New /\ sent[p] = 0
  BY DEF Drops, SendsAtOnce, Delays, Fresh, Line!New
<1>2. CASE Drops(i, p)
  <2>1. Line!Lose(p)
    BY <1>2, Zenon DEF Drops, Line!Lose
  <2> QED BY <1>1, <2>1, Zenon DEF Line!Next
<1>3. CASE SendsAtOnce(i, p)
  <2>1. sent' = [sent EXCEPT ![p] = 1]
    <3>1. sent' = [sent EXCEPT ![p] = sent[p] + 1]
      BY <1>3, Zenon DEF SendsAtOnce
    <3>2. sent[p] + 1 = 1
      BY <1>1
    <3> QED BY <3>1, <3>2, Zenon
  <2>2. Line!Pass(p)
    BY <1>3, <2>1, Zenon DEF SendsAtOnce, Line!Pass
  <2> QED BY <1>1, <2>2, Zenon DEF Line!Next
<1>4. CASE Delays(i, p)
  <2>1. (pending \cup hand)' = (pending \cup hand) \cup {p}
    BY <1>4 DEF Delays
  <2>2. \E d \in Delay..(Delay + Jitter) : d > 0 /\ due' = [due EXCEPT ![p] = now + d]
    BY <1>4, Zenon DEF Delays
  <2>3. Line!Enter(p)
    BY <1>4, <2>1, <2>2, Zenon DEF Delays, Line!Enter
  <2> QED BY <1>1, <2>3, Zenon DEF Line!Next
<1> QED BY <1>2, <1>3, <1>4

\* The call of send_ is the moment a packet leaves: it is due, nothing inside was
\* due before it, and it leaves for the first time.
LEMMA SendsLine == SimInv /\ Sends => Line!Next \/ UNCHANGED Line!lineVars
<1> SUFFICES ASSUME SimInv, Sends PROVE Line!Next \/ UNCHANGED Line!lineVars
  OBVIOUS
<1> USE DEF SimInv
<1>1. /\ sent \in [Injected -> 0..1] /\ hand \subseteq Injected /\ pending \subseteq Injected
      /\ pending \cap hand = {} /\ hand' = {}
      /\ sent' = [p \in Injected |-> IF p \in hand THEN sent[p] + 1 ELSE sent[p]]
      /\ UNCHANGED <<now, pending, due, refused>>
  BY DEF SimTypeOK, InOnePlace, Sends
<1>2. CASE hand = {}
  <2>1. sent' = sent
    BY <1>1, <1>2
  <2> QED BY <1>1, <1>2, <2>1, Zenon DEF Line!lineVars
<1>3. CASE hand # {}
  <2> PICK p \in hand : TRUE
    BY <1>3
  <2>1. hand = {p} /\ p \in Injected /\ sent[p] = 0
    BY <1>1 DEF InOnePlace, AtMostOnce
  <2>2. sent' = [sent EXCEPT ![p] = 1]
    <3>1. \A r \in Injected : (IF r \in hand THEN sent[r] + 1 ELSE sent[r])
                              = (IF r = p THEN 1 ELSE sent[r])
      BY <2>1
    <3>2. sent' = [r \in Injected |-> IF r = p THEN 1 ELSE sent[r]]
      BY <1>1, <3>1, Zenon
    <3>3. [sent EXCEPT ![p] = 1] = [r \in Injected |-> IF r = p THEN 1 ELSE sent[r]]
      BY <1>1
    <3> QED BY <3>2, <3>3, Zenon
  <2>3. (pending \cup hand)' = (pending \cup hand) \ {p}
    BY <1>1, <2>1
  <2>4. due[p] <= now /\ \A r \in pending : due[p] <= due[r]
    BY <1>1, <2>1 DEF DuePast, LeaveInDueOrder, Left
  <2>5. \A r \in pending \cup hand : due[p] <= due[r]
    BY <1>1, <2>1, <2>4 DEF SimTypeOK
  <2>6. Line!Leave(p)
    BY <1>1, <2>2, <2>3, <2>4, <2>5, Zenon DEF Line!Leave
  <2> QED BY <2>6, Zenon DEF Line!Next
<1> QED BY <1>2, <1>3

\* A step of the drain thread other than the call of send_ moves a packet at most
\* from the heap into its hand, which the abstract line does not see.
LEMMA DrainLine == SimInv /\ Drain => Line!Next \/ UNCHANGED Line!lineVars
<1> SUFFICES ASSUME SimInv, Drain PROVE Line!Next \/ UNCHANGED Line!lineVars
  OBVIOUS
<1>1. CASE LoopHead \/ FallsAsleep \/ TakesNap \/ NapEnds
  <2>1. UNCHANGED <<now, pending, hand, due, sent, refused>>
    BY <1>1, Zenon DEF LoopHead, FallsAsleep, TakesNap, NapEnds
  <2> QED BY <2>1, Zenon DEF Line!lineVars
<1>2. CASE Pops
  <2>1. hand = {}
    BY <1>2 DEF Pops, SimInv, InOnePlace
  <2>2. (pending \cup hand)' = pending \cup hand
    BY <1>2, <2>1 DEF Pops, Top, LeftAfter
  <2> QED BY <1>2, <2>2, Zenon DEF Pops, Line!lineVars
<1> QED BY <1>1, <1>2, SendsLine DEF Drain

\* Every step is a step of the line or leaves it as it is.
LEMMA NextLine == SimInv /\ [SimNext]_simVars => [Line!Next]_(Line!lineVars)
<1> SUFFICES ASSUME SimInv, [SimNext]_simVars
             PROVE  Line!Next \/ UNCHANGED Line!lineVars
  OBVIOUS
<1>1. CASE TimePasses
  <2>1. Line!Tick
    BY <1>1, Zenon DEF TimePasses, Line!Tick
  <2> QED BY <2>1, Zenon DEF Line!Next
<1>2. CASE \/ \E i \in Injectors : Notify(i)
           \/ SpuriousWakeup \/ StopBegins \/ StopJoins \/ UNCHANGED simVars
  <2>1. UNCHANGED <<now, pending, hand, due, sent, refused>>
    BY <1>2, Zenon DEF Notify, SpuriousWakeup, StopBegins, StopJoins, simVars
  <2> QED BY <2>1, Zenon DEF Line!lineVars
<1> QED BY <1>1, <1>2, InjectLine, DrainLine DEF SimNext

\* The simulator implements the delay line: with its heap, its lock, its drain
\* thread and a stop at any moment, each packet it takes in is lost, passes, or
\* stays until it is due and leaves once, after all that were due before it.
THEOREM ImplementsTheDelayLine == SimSpec => ImplementsDelayLine
<1>1. SimInit => Line!Init
  BY DEF SimInit, Line!Init
<1> QED BY <1>1, NextLine, AlwaysSimInv, PTL DEF SimSpec, ImplementsDelayLine, Line!Spec
=============================================================================
