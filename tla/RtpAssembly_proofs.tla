------------------------- MODULE RtpAssembly_proofs -------------------------
(***************************************************************************)
(* The safety of RtpAssembly for any number of frames of any size, any     *)
(* loss, any limit and age: what leaves is what was sent, nothing          *)
(* disappears uncounted, one loss inside is repaired, and frames leave out *)
(* of order or twice only as OutputOrder says.                             *)
(***************************************************************************)
EXTENDS RtpAssembly, SequenceTheorems, Fec_proofs

\* The packets of a frame are finitely many natural numbers.
LEMMA FrameFacts ==
    ASSUME NEW g \in Frames
    PROVE  /\ g \in Nat /\ g > 0 /\ Count[g] \in Nat \ {0}
           /\ Data(g) \subseteq Nat /\ IsFiniteSet(Data(g))
           /\ Cardinality(Data(g)) = Count[g]
           /\ 0 \in Data(g) /\ Count[g] - 1 \in Data(g)
           /\ \A k \in Data(g) : k <= Count[g] - 1
           /\ \A k \in Nat : k <= Count[g] - 1 => k \in Data(g)
           /\ Starts[g] \subseteq Data(g) /\ 0 \in Starts[g]
<1>1. g \in Nat /\ g > 0 /\ Count[g] \in Nat \ {0}
      /\ Starts[g] \subseteq Data(g) /\ 0 \in Starts[g]
  BY FramesAssumption DEF Frames
<1>2. IsFiniteSet(Data(g)) /\ Cardinality(Data(g)) = Count[g]
  <2>1. 0 \in Int /\ Count[g] - 1 \in Int /\ ~(0 > Count[g] - 1)
        /\ (Count[g] - 1) - 0 + 1 = Count[g]
    BY <1>1
  <2> QED BY <2>1, FS_Interval DEF Data
<1> QED BY <1>1, <1>2 DEF Data

\* A packet is a pair of a frame and one of its numbers.
LEMMA PacketFacts ==
    /\ \A p \in Packets : p = <<p[1], p[2]>> /\ p[1] \in Frames /\ p[2] \in Data(p[1])
    /\ \A g \in Frames : \A k \in Data(g) : <<g, k>> \in Packets
BY DEF Packets

\* Packets of one frame have different numbers.
LEMMA NumFacts ==
    ASSUME NEW g \in Frames, NEW j \in Data(g), NEW k \in Data(g)
    PROVE  /\ Num(<<g, j>>) = Num(<<g, k>>) <=> j = k
           /\ XorNum({Num(<<g, j>>)}) = Num(<<g, j>>)
<1>1. IsFiniteSet(Packets)
  <2> DEFINE Of(h) == {h} \X Data(h)
             All == {Of(d) : d \in Frames}
  <2>1. IsFiniteSet(Frames)
    BY FramesAssumption, FS_Interval DEF Frames
  <2>2. IsFiniteSet(All)
    <3>1. All = {[h \in Frames |-> Of(h)][d] : d \in Frames}
      OBVIOUS
    <3>2. [h \in Frames |-> Of(h)] \in Surjection(Frames, All)
      BY DEF Surjection
    <3> QED BY <2>1, <3>2, FS_Surjection
  <2>3. \A T \in All : IsFiniteSet(T)
    <3> SUFFICES ASSUME NEW h \in Frames PROVE IsFiniteSet(Of(h))
      OBVIOUS
    <3>1. IsFiniteSet({h}) /\ IsFiniteSet(Data(h))
      BY FrameFacts, FS_Singleton
    <3> QED BY <3>1, FS_Product
  <2>4. Packets = UNION All
    BY DEF Packets
  <2> QED BY <2>2, <2>3, <2>4, FS_UNION
<1>2. First(g) \in Nat
  <2>1. {q \in Packets : q[1] < g} \in SUBSET Packets
    OBVIOUS
  <2> QED BY <1>1, <2>1, FS_Subset, FS_CardinalityType DEF First
<1>3. Num(<<g, j>>) = First(g) + j /\ Num(<<g, k>>) = First(g) + k
  BY DEF Num
<1>4. j \in Nat /\ k \in Nat
  BY FrameFacts
<1> QED BY <1>2, <1>3, <1>4, XorAssumption, PacketFacts

-----------------------------------------------------------------------------
\* A finite set of numbers has a least and a greatest element.
LEMMA ExtremeFacts ==
    ASSUME NEW n \in Nat, NEW S \in SUBSET (0..n), S # {}
    PROVE  /\ Min(S) \in S /\ \A x \in S : Min(S) <= x
           /\ Max(S) \in S /\ \A x \in S : x <= Max(S)
<1>1. PICK a \in S : \A x \in S : a <= x
  <2>1. S \subseteq Nat
    OBVIOUS
  <2> QED BY <2>1, LeastNat
<1>2. PICK b \in S : \A x \in S : b >= x
  <2> DEFINE T == {n - x : x \in S}
  <2>1. T \subseteq Nat /\ T # {}
    <3>1. \A x \in S : n - x \in Nat
      OBVIOUS
    <3>2. PICK y \in S : TRUE
      OBVIOUS
    <3>3. n - y \in T
      OBVIOUS
    <3> QED BY <3>1, <3>3
  <2> HIDE DEF T
  <2>2. PICK m \in T : \A y \in T : m <= y
    BY <2>1, LeastNat
  <2>3. PICK b \in S : m = n - b
    BY <2>2 DEF T
  <2>4. ASSUME NEW x \in S PROVE b >= x
    <3>1. n - b <= n - x
      BY <2>2, <2>3 DEF T
    <3>2. b \in Int /\ x \in Int /\ n \in Int
      OBVIOUS
    <3> QED BY <3>1, <3>2
  <2> QED BY <2>4
<1>3. Min(S) \in S /\ \A x \in S : Min(S) =< x
  BY <1>1 DEF Min
<1>4. Max(S) \in S /\ \A x \in S : Max(S) >= x
  BY <1>2 DEF Max
<1> QED BY <1>3, <1>4

\* A frame of which something came.
Begun(f) == f.frame \in Frames /\ f.raws \subseteq Data(f.frame) /\ f.raws # {}

\* Its slots go from the first packet that came to the last.
LEMMA SlotFacts ==
    ASSUME NEW f, Begun(f)
    PROVE  /\ Slots(f) \subseteq Data(f.frame) /\ f.raws \subseteq Slots(f)
           /\ \A k \in Data(f.frame) :
                  k \in Slots(f) <=> Min(f.raws) <= k /\ k <= Max(f.raws)
           /\ Min(f.raws) \in f.raws /\ \A k \in f.raws : Min(f.raws) <= k
           /\ Max(f.raws) \in f.raws /\ \A k \in f.raws : k <= Max(f.raws)
           /\ IsFiniteSet(Slots(f)) /\ IsFiniteSet(f.raws)
<1> DEFINE g == f.frame
           n == Count[g] - 1
<1>1. g \in Frames /\ f.raws \subseteq Data(g) /\ f.raws # {}
  BY DEF Begun
<1>2. n \in Nat /\ f.raws \in SUBSET (0..n) /\ Data(g) = 0..n
  BY <1>1, FrameFacts DEF Data
<1>3. /\ Min(f.raws) \in f.raws /\ \A k \in f.raws : Min(f.raws) <= k
      /\ Max(f.raws) \in f.raws /\ \A k \in f.raws : k <= Max(f.raws)
  <2> HIDE DEF n
  <2> QED BY <1>1, <1>2, ExtremeFacts
<1>4. \A k \in Nat : k \in Slots(f) <=> Min(f.raws) <= k /\ k <= Max(f.raws)
  BY <1>2, <1>3 DEF Slots
<1>5. Slots(f) \subseteq 0..n /\ f.raws \subseteq Slots(f)
  BY <1>2, <1>3 DEF Slots
<1>6. IsFiniteSet(Slots(f)) /\ IsFiniteSet(f.raws)
  BY <1>1, <1>2, <1>5, FrameFacts, FS_Subset
<1> QED BY <1>2, <1>3, <1>4, <1>5, <1>6

\* Nothing is missed if every slot is filled, and one packet if one is not.
LEMMA MissedFacts ==
    ASSUME NEW f, Begun(f)
    PROVE  /\ Missed(f) \in Nat
           /\ Missed(f) = Cardinality(Slots(f) \ f.raws)
           /\ Missed(f) = 0 <=> Slots(f) = f.raws
           /\ Missed(f) = 1 => \E x \in Slots(f) \ f.raws : Slots(f) \ f.raws = {x}
<1> DEFINE S == Slots(f)
           R == f.raws
<1>1. IsFiniteSet(S) /\ IsFiniteSet(R) /\ R \subseteq S
  BY SlotFacts
<1>2. IsFiniteSet(S \ R) /\ Cardinality(S \ R) = Cardinality(S) - Cardinality(R)
  <2>1. S \cap R = R
    BY <1>1
  <2> QED BY <1>1, <2>1, FS_Difference
<1>3. Cardinality(S \ R) \in Nat
  BY <1>2, FS_CardinalityType
<1>4. Cardinality(S \ R) = 0 <=> S \ R = {}
  BY <1>2, FS_EmptySet
<1>5. Cardinality(S \ R) = 1 <=> \E x : S \ R = {x}
  BY <1>2, FS_Singleton
<1> QED BY <1>1, <1>2, <1>3, <1>4, <1>5 DEF Missed

\* Once its last packet came, a frame has no gap exactly if it misses nothing, and
\* if its first came too the slots are its packets.
LEMMA EndedFacts ==
    ASSUME NEW f, Begun(f), Count[f.frame] - 1 \in f.raws
    PROVE  /\ Missed(f) = 0 <=> \A k \in Data(f.frame) : k >= Min(f.raws) => k \in f.raws
           /\ 0 \in f.raws => /\ Slots(f) = Data(f.frame)
                              /\ Missed(f) = Count[f.frame] - Cardinality(f.raws)
<1> DEFINE g == f.frame
           R == f.raws
<1>1. g \in Frames /\ R \subseteq Data(g)
  BY DEF Begun
<1>2. /\ Data(g) \subseteq Nat /\ Count[g] - 1 \in Nat
      /\ \A k \in Data(g) : k <= Count[g] - 1
      /\ Cardinality(Data(g)) = Count[g]
  BY <1>1, FrameFacts
<1>3. Max(R) = Count[g] - 1
  <2>1. Max(R) \in Data(g) /\ Count[g] - 1 <= Max(R)
    BY <1>1, SlotFacts
  <2> QED BY <1>2, <2>1
<1>4. \A k \in Data(g) : k \in Slots(f) <=> k >= Min(R)
  <2>1. Min(R) \in Data(g)
    BY <1>1, SlotFacts
  <2> QED BY <1>2, <1>3, <2>1, SlotFacts
<1>5. Missed(f) = 0 <=> \A k \in Data(g) : k >= Min(R) => k \in R
  <2>1. Missed(f) = 0 <=> Slots(f) = R
    BY MissedFacts
  <2>2. Slots(f) \subseteq Data(g) /\ R \subseteq Slots(f)
    BY SlotFacts
  <2> QED BY <1>4, <2>1, <2>2
<1>6. ASSUME 0 \in R PROVE Slots(f) = Data(g) /\ Missed(f) = Count[g] - Cardinality(R)
  <2>1. \A k \in Data(g) : k \in Slots(f)
    <3>1. Min(R) <= 0 /\ Min(R) \in Nat
      BY <1>1, <1>2, <1>6, SlotFacts
    <3> QED BY <1>2, <1>4, <3>1
  <2>2. Slots(f) = Data(g)
    BY <2>1, SlotFacts
  <2> QED BY <1>2, <2>2 DEF Missed
<1> QED BY <1>5, <1>6

\* What was sent, and how long the longest of it is.
LEMMA PayloadFacts ==
    ASSUME NEW g \in Frames
    PROVE  /\ DOMAIN Payload(g) = Data(g)
           /\ \A k \in Data(g) : /\ IsPacket(Payload(g)[k])
                                 /\ Payload(g)[k] = [terms |-> {<<g, k>>}, size |-> Bytes[g][k]]
                                 /\ ~UnitEnd(g, k) => Bytes[g][k] = Longest(Payload(g))
           /\ Longest(Payload(g)) \in Nat \ {0}
<1>1. DOMAIN Payload(g) = Data(g)
  BY DEF Payload
<1>2. Mtu \in Nat
  BY BytesAssumption
<1>3. ASSUME NEW k \in Data(g)
      PROVE  /\ Payload(g)[k] = [terms |-> {<<g, k>>}, size |-> Bytes[g][k]]
             /\ Bytes[g][k] \in Nat \ {0} /\ Bytes[g][k] <= Mtu
             /\ ~UnitEnd(g, k) => Bytes[g][k] = Mtu
             /\ IsPacket(Payload(g)[k])
  <2>1. /\ Bytes[g][k] \in 1..Mtu
        /\ ~UnitEnd(g, k) => Bytes[g][k] = Mtu
    BY BytesAssumption
  <2>2. Bytes[g][k] \in Nat \ {0} /\ Bytes[g][k] <= Mtu
    BY <1>2, <2>1
  <2>3. Payload(g)[k] = [terms |-> {<<g, k>>}, size |-> Bytes[g][k]]
    BY DEF Payload
  <2> QED BY <2>1, <2>2, <2>3 DEF IsPacket
<1>4. ASSUME NEW k \in Data(g)
      PROVE  Payload(g)[k].size = Bytes[g][k] /\ Bytes[g][k] \in Nat
  <2>1. Payload(g)[k] = [terms |-> {<<g, k>>}, size |-> Bytes[g][k]]
    BY <1>3
  <2>2. Bytes[g][k] \in Nat
    BY <1>3
  <2> QED BY <2>1, <2>2
<1>5. /\ Longest(Payload(g)) \in Nat
      /\ \A k \in Data(g) : Bytes[g][k] <= Longest(Payload(g))
      /\ \E k \in Data(g) : Bytes[g][k] = Longest(Payload(g))
  BY <1>1, <1>4, FrameFacts, LongestFacts
<1>6. ASSUME NEW k \in Data(g), ~UnitEnd(g, k)
      PROVE  Bytes[g][k] = Longest(Payload(g))
  <2>1. Bytes[g][k] = Mtu /\ Bytes[g][k] <= Longest(Payload(g))
    BY <1>3, <1>5, <1>6
  <2>2. Longest(Payload(g)) <= Mtu
    BY <1>3, <1>5
  <2> QED BY <1>2, <1>5, <2>1, <2>2
<1>7. Longest(Payload(g)) # 0
  BY <1>3, <1>5
<1> QED BY <1>1, <1>3, <1>5, <1>6, <1>7

\* What leaves of a frame with all its packets.
LEMMA RestoredFacts ==
    ASSUME NEW g \in Frames
    PROVE  /\ DOMAIN Restored(g) = Data(g)
           /\ \A k \in Data(g) : /\ Restored(g)[k].terms = {<<g, k>>}
                                 /\ Restored(g)[k].size # 0
                                 /\ Restored(g)[k] =
                                      IF k \in Came(g) THEN Payload(g)[k]
                                      ELSE Padded(Payload(g)[k], Longest(Payload(g)))
<1>1. DOMAIN Restored(g) = Data(g)
  BY DEF Restored
<1>2. ASSUME NEW k \in Data(g)
      PROVE  /\ Restored(g)[k].terms = {<<g, k>>}
             /\ Restored(g)[k].size # 0
             /\ Restored(g)[k] = IF k \in Came(g) THEN Payload(g)[k]
                                 ELSE Padded(Payload(g)[k], Longest(Payload(g)))
  <2>1. /\ Payload(g)[k] = [terms |-> {<<g, k>>}, size |-> Bytes[g][k]]
        /\ ~UnitEnd(g, k) => Bytes[g][k] = Longest(Payload(g))
        /\ Longest(Payload(g)) # 0 /\ Bytes[g][k] # 0
    BY PayloadFacts, BytesAssumption
  <2>2. Restored(g)[k] = IF k \in Came(g) \/ ~UnitEnd(g, k) THEN Payload(g)[k]
                         ELSE Padded(Payload(g)[k], Longest(Payload(g)))
    BY DEF Restored
  <2>3. ~UnitEnd(g, k) => Padded(Payload(g)[k], Longest(Payload(g))) = Payload(g)[k]
    BY <2>1 DEF Padded
  <2>4. Restored(g)[k] = IF k \in Came(g) THEN Payload(g)[k]
                         ELSE Padded(Payload(g)[k], Longest(Payload(g)))
    BY <2>2, <2>3
  <2> QED BY <2>1, <2>4 DEF Padded
<1> QED BY <1>1, <1>2

\* The parity packet brings the missing packet back, followed by zeros.
LEMMA RecoveryFacts ==
    ASSUME NEW f, Begun(f), Slots(f) = Data(f.frame), NEW x \in Slots(f),
           Slots(f) \ f.raws = {x}
    PROVE  Recovery(f) = Padded(Payload(f.frame)[x], Longest(Payload(f.frame)))
<1> DEFINE g == f.frame
           known == [k \in Slots(f) \cup {-1} |->
                       CASE k = -1       -> Parity(Payload(g))
                         [] k \in f.raws -> Payload(g)[k]
                         [] OTHER        -> Nothing]
<1>1. g \in Frames /\ f.raws \subseteq Data(g)
  BY DEF Begun
<1>2. Data(g) \subseteq Nat /\ IsFiniteSet(Data(g))
  BY <1>1, FrameFacts
<1>3. DOMAIN Payload(g) = Data(g) /\ \A k \in Data(g) : IsPacket(Payload(g)[k])
  BY <1>1, PayloadFacts
<1>4. DOMAIN known = Data(g) \cup {-1} /\ -1 \notin Data(g)
  BY <1>2
<1>5. /\ known[-1] = Parity(Payload(g))
      /\ known[x] = Nothing
      /\ \A k \in Data(g) \ {x} : known[k] = Payload(g)[k]
  <2>1. x \notin f.raws /\ x # -1 /\ \A k \in Data(g) \ {x} : k \in f.raws /\ k # -1
    BY <1>4
  <2>2. known[-1] = Parity(Payload(g))
    <3>1. -1 \notin f.raws
      BY <1>1, <1>4
    <3> QED BY <3>1
  <2>3. known[x] = Nothing
    BY <2>1
  <2>4. ASSUME NEW k \in Data(g) \ {x} PROVE known[k] = Payload(g)[k]
    BY <2>1
  <2> QED BY <2>2, <2>3, <2>4
<1> HIDE DEF known
<1>6. LacksOne(known, Payload(g), x, -1)
  BY <1>2, <1>3, <1>4, <1>5 DEF LacksOne
<1>8. Recovered(known)[x] = Padded(Payload(g)[x], Longest(Payload(g)))
  BY <1>6, Repairs
<1>9. (CHOOSE k \in Slots(f) : k \notin f.raws) = x
  OBVIOUS
<1> QED BY <1>8, <1>9 DEF Recovery, known

-----------------------------------------------------------------------------
\* What emit pushes is of the frame, if anything is pushed.
LEMMA EmissionShape ==
    ASSUME NEW f, NEW extra
    PROVE  \/ Emission(f, extra) = <<>>
           \/ \E u : Emission(f, extra) = <<[frame |-> f.frame, units |-> u]>>
BY DEF Emission

\* If every slot holds the packet that was sent there, the whole frame is pushed.
LEMMA EmissionOfWhole ==
    ASSUME NEW f, Begun(f), Slots(f) = Data(f.frame),
           NEW extra, Ordered(f, extra) = Restored(f.frame)
    PROVE  Emission(f, extra) = <<[frame |-> f.frame, units |-> Restored(f.frame)]>>
<1> DEFINE g == f.frame
           P == Restored(g)
<1>1. g \in Frames /\ Starts[g] \subseteq Data(g) /\ 0 \in Starts[g]
      /\ Data(g) \subseteq Nat /\ 0 \in Data(g)
  BY FrameFacts DEF Begun
<1>2. \A a \in Data(g) : P[a].size # 0 /\ ~Garbage(P[a])
  <2> SUFFICES ASSUME NEW a \in Data(g)
               PROVE  P[a].size # 0 /\ ~(Cardinality(P[a].terms) > 1)
    BY DEF Garbage
  <2>1. P[a].terms = {<<g, a>>} /\ P[a].size # 0
    BY <1>1, RestoredFacts
  <2>2. Cardinality({<<g, a>>}) = 1
    BY FS_Singleton
  <2> HIDE DEF P
  <2> QED BY <2>1, <2>2
<1>5. [k \in Data(g) |-> P[k]] = P
  BY DEF Restored
<1> HIDE DEF P
<1>3. ASSUME NEW k \in Data(g) PROVE Kept(f, P, k)
  <2> DEFINE begins == {a \in Starts[g] : a <= k}
             units == {a \in Slots(f) : a <= k /\
                         (Garbage(P[a]) \/ (a \in Starts[g] /\ P[a].size # 0))}
  <2>1. units = begins
    BY <1>1, <1>2
  <2>2. 0 \in begins
    BY <1>1
  <2>3. Max(begins) \in begins
    <3>1. begins \in SUBSET (0..k) /\ k \in Nat
      BY <1>1
    <3> HIDE DEF begins
    <3> QED BY <2>2, <3>1, ExtremeFacts
  <2>4. ~Garbage(P[Max(begins)])
    BY <1>1, <1>2, <2>3
  <2> HIDE DEF begins
  <2> QED BY <1>2, <2>1, <2>2, <2>4 DEF Kept, begins
<1>4. {k \in Slots(f) : Kept(f, P, k)} = Data(g) /\ Data(g) # {}
  BY <1>1, <1>3
<1>6. Ordered(f, extra) = P
  BY DEF P
<1> QED BY <1>4, <1>5, <1>6 DEF Emission, P

\* A complete frame with its first packet is pushed as it was sent, ...
LEMMA CompleteEmission ==
    ASSUME NEW f, Begun(f), f.raws = Came(f.frame),
           Count[f.frame] - 1 \in f.raws, 0 \in f.raws, Missed(f) = 0
    PROVE  Emission(f, Nothing) = <<[frame |-> f.frame, units |-> Restored(f.frame)]>>
<1>1. Slots(f) = Data(f.frame) /\ f.raws = Data(f.frame)
  BY EndedFacts, MissedFacts
<1>2. Ordered(f, Nothing) = Payload(f.frame)
  BY <1>1 DEF Ordered, Payload, Nothing
<1>3. Restored(f.frame) = Payload(f.frame)
  BY <1>1 DEF Restored, Payload
<1> QED BY <1>1, <1>2, <1>3, EmissionOfWhole

\* ... and one that the parity packet repairs with at most zeros more.
LEMMA HealedEmission ==
    ASSUME NEW f, Begun(f), f.raws = Came(f.frame),
           Count[f.frame] - 1 \in f.raws, 0 \in f.raws, Missed(f) = 1
    PROVE  Emission(f, Recovery(f)) = <<[frame |-> f.frame, units |-> Restored(f.frame)]>>
<1> DEFINE g == f.frame
           extra == Recovery(f)
<1>1. g \in Frames /\ Slots(f) = Data(g)
  BY EndedFacts DEF Begun
<1>2. PICK x \in Slots(f) \ f.raws : Slots(f) \ f.raws = {x}
  BY MissedFacts
<1>3. /\ extra = Restored(g)[x]
      /\ extra.terms = {<<g, x>>} /\ extra.size # 0
  <2>1. extra = Padded(Payload(g)[x], Longest(Payload(g)))
    BY <1>1, <1>2, RecoveryFacts
  <2>2. x \in Data(g) /\ x \notin Came(g)
    BY <1>1, <1>2
  <2> QED BY <1>1, <2>1, <2>2, RestoredFacts
<1> HIDE DEF extra
<1>4. {Num(p) : p \in extra.terms} = {Num(<<g, x>>)}
  BY <1>3
<1>5. \A k \in Data(g) : XorNum({Num(p) : p \in extra.terms}) = Num(<<g, k>>) <=> k = x
  BY <1>1, <1>2, <1>4, NumFacts
<1>6. Ordered(f, extra) = Restored(g)
  <2>1. ASSUME NEW k \in Data(g)
        PROVE  Ordered(f, extra)[k] = Restored(g)[k]
    <3>1. CASE k = x
      <4>1. extra.size # 0 /\ XorNum({Num(p) : p \in extra.terms}) = Num(<<f.frame, k>>)
        BY <1>3, <1>5, <3>1
      <4> QED BY <1>1, <1>3, <3>1, <4>1 DEF Ordered
    <3>2. CASE k # x
      <4>1. XorNum({Num(p) : p \in extra.terms}) # Num(<<f.frame, k>>)
        BY <1>5, <3>2
      <4>2. k \in f.raws /\ Restored(g)[k] = Payload(g)[k]
        BY <1>1, <1>2, <3>2, RestoredFacts
      <4> QED BY <1>1, <4>1, <4>2 DEF Ordered
    <3> QED BY <3>1, <3>2
  <2>2. Ordered(f, extra) = [k \in Data(g) |-> Ordered(f, extra)[k]]
    BY <1>1 DEF Ordered
  <2>3. Restored(g) = [k \in Data(g) |-> Restored(g)[k]]
    BY DEF Restored
  <2> QED BY <2>1, <2>2, <2>3
<1> QED BY <1>1, <1>6, EmissionOfWhole DEF extra

-----------------------------------------------------------------------------
(* The invariant.  What is known of the frame in cur_, ...                 *)

CurInv == cur # NotStarted =>
    /\ cur.raws = Came(cur.frame) /\ cur.marker_seen = Ended(cur.frame)
    /\ \A q \in popped : q[1] <= cur.frame
EndInv == at = "ending" => /\ cur # NotStarted /\ Ended(cur.frame)
                           /\ Leaves(cur.frame) = {}

\* ... of the frames before it, ...
PassedInv == \A q \in popped :
    q[1] = cur.frame \/ Ended(q[1]) \/ \E r \in popped : r[1] > q[1]

\* ... of those set aside, which lack a packet and have not left, ...
ZombieInv == \A i \in DOMAIN zombies : \A g \in Frames : zombies[i].frame = g =>
    /\ zombies[i].raws = Came(g) /\ zombies[i].marker_seen
    /\ Ended(g) /\ ~Gapless(g)
    /\ cur.frame # g /\ Leaves(g) = {}
    /\ \A j \in DOMAIN zombies : zombies[j].frame = g => i = j

\* ... of the parity packets, each of which comes once and repairs once, ...
FecInv == fec \cap awaited = {} /\ storing \notin fec \cup awaited
Usable(g) == g \in fec \cup awaited \cup {storing}

\* ... of the frames that left, ...
OutType == out \in Seq({out[i] : i \in DOMAIN out})
LeftInv == /\ \A i \in DOMAIN out : out[i].frame \in Frames
           /\ \A g \in Frames : Leaves(g) # {} => /\ Ended(g)
                                                  /\ ~Gapless(g) => ~Usable(g)
TwiceInv == \A g \in Frames :
    /\ \A i, j, k \in Leaves(g) : i = j \/ j = k \/ i = k
    /\ \A i, j \in Leaves(g) : i = j \/ (Gapless(g) /\ cur.frame # g)
OrderInv == \A g, h \in Frames : \A i \in Leaves(g), j \in Leaves(h) :
    i < j /\ g > h => ~Gapless(h)
WholeInv == \A g \in Frames : \A i \in Leaves(g) : 0 \in Came(g) => out[i].units = Restored(g)
OutInv == OutType /\ LeftInv /\ TwiceInv /\ OrderInv /\ WholeInv

\* ... and of what is counted.
NetInv == \A g \in Frames :
    cur.frame = g \/ Waits(g) \/ Came(g) = {} => net_lost[g] = 0
TimeInv == \A g \in in_time : Ended(g)

IInv == /\ TypeOK /\ CurInv /\ EndInv /\ PassedInv /\ ZombieInv /\ FecInv /\ OutInv
        /\ NetInv /\ TimeInv /\ NoneDisappears /\ InnerLossRepaired

-----------------------------------------------------------------------------
\* What came of a frame.
LEMMA CameFacts ==
    ASSUME NEW g \in Frames
    PROVE  /\ Came(g) \subseteq Data(g) /\ IsFiniteSet(Came(g))
           /\ Ended(g) <=> Count[g] - 1 \in Came(g)
BY FrameFacts, FS_Subset DEF Came, Ended

\* cur_ and the zombies hold what came of their frames.
LEMMA HeldFacts ==
    ASSUME IInv
    PROVE  /\ cur # NotStarted => /\ Begun(cur) /\ cur.raws = Came(cur.frame)
                                  /\ cur.marker_seen = Ended(cur.frame)
                                  /\ cur \in FrameState
           /\ \A i \in DOMAIN zombies :
                  /\ Begun(zombies[i]) /\ zombies[i].raws = Came(zombies[i].frame)
                  /\ zombies[i] \in FrameState
                  /\ zombies[i].marker_seen /\ Ended(zombies[i].frame)
                  /\ ~Gapless(zombies[i].frame)
<1>1. cur # NotStarted => Begun(cur)
  BY DEF IInv, TypeOK, FrameState, Begun
<1>2. ASSUME NEW i \in DOMAIN zombies PROVE Begun(zombies[i]) /\ zombies[i] \in FrameState
  <2>1. zombies[i] \in FrameState
    BY ElementOfSeq, LenProperties DEF IInv, TypeOK
  <2>2. PICK g \in Frames : zombies[i].frame = g
    BY <2>1 DEF FrameState
  <2>3. zombies[i].raws = Came(g) /\ Ended(g)
    BY <2>2 DEF IInv, ZombieInv
  <2> QED BY <2>1, <2>2, <2>3, CameFacts DEF Begun
<1>3. ASSUME NEW i \in DOMAIN zombies
      PROVE  /\ zombies[i].raws = Came(zombies[i].frame) /\ zombies[i].marker_seen
             /\ Ended(zombies[i].frame) /\ ~Gapless(zombies[i].frame)
  <2>1. zombies[i].frame \in Frames
    BY <1>2 DEF Begun
  <2> QED BY <2>1 DEF IInv, ZombieInv
<1>4. cur # NotStarted => /\ cur.raws = Came(cur.frame) /\ cur \in FrameState
                          /\ cur.marker_seen = Ended(cur.frame)
  BY DEF IInv, CurInv, TypeOK
<1> QED BY <1>1, <1>2, <1>3, <1>4

\* Whether an ended frame has a gap.
LEMMA GapFacts ==
    ASSUME NEW f, Begun(f), f.raws = Came(f.frame), Ended(f.frame)
    PROVE  /\ Gapless(f.frame) <=> Missed(f) = 0
           /\ 0 \in Came(f.frame) => Missed(f) = Count[f.frame] - Cardinality(Came(f.frame))
<1>1. Count[f.frame] - 1 \in f.raws
  BY CameFacts DEF Begun
<1> QED BY <1>1, EndedFacts DEF Gapless

\* A frame that leaves is added at the end.
LEMMA PushFacts ==
    ASSUME OutType, NEW g, NEW u, out' = out \o <<[frame |-> g, units |-> u]>>
    PROVE  /\ Len(out) \in Nat /\ DOMAIN out = 1..Len(out)
           /\ DOMAIN out' = 1..(Len(out) + 1)
           /\ \A i \in DOMAIN out : out'[i] = out[i]
           /\ out'[Len(out) + 1] = [frame |-> g, units |-> u]
           /\ OutType'
<1> DEFINE e == [frame |-> g, units |-> u]
           n == Len(out)
           S == {out[i] : i \in DOMAIN out} \cup {e}
<1>1. out \in Seq(S) /\ <<e>> \in Seq(S) /\ Len(<<e>>) = 1 /\ <<e>>[1] = e
  <2>1. out \in Seq(S)
    BY SeqMonotonic DEF OutType
  <2> QED BY <2>1
<1>2. n \in Nat /\ DOMAIN out = 1..n
  BY <1>1, LenProperties
<1> HIDE DEF e, S
<1>3. /\ out' \in Seq(S) /\ Len(out') = n + 1
      /\ \A i \in 1..(n + 1) : out'[i] = IF i <= n THEN out[i] ELSE <<e>>[i - n]
  BY <1>1, ConcatProperties DEF e
<1>4. DOMAIN out' = 1..(n + 1)
  BY <1>3, LenProperties
<1>5. \A i \in DOMAIN out : out'[i] = out[i]
  BY <1>2, <1>3
<1>6. out'[n + 1] = e
  BY <1>1, <1>2, <1>3
<1>7. OutType'
  <2>1. out' \in Seq({out'[i] : i \in DOMAIN out'})
    <3>1. out' \in Seq(Range(out'))
      BY <1>3, SeqOfRange
    <3> QED BY <3>1 DEF Range
  <2> QED BY <2>1 DEF OutType
<1> QED BY <1>2, <1>4, <1>5, <1>6, <1>7 DEF e

LEMMA PushLeaves ==
    ASSUME OutType, NEW g, NEW u, out' = out \o <<[frame |-> g, units |-> u]>>
    PROVE  \A h : Leaves(h)' = IF h = g THEN Leaves(h) \cup {Len(out) + 1} ELSE Leaves(h)
<1> DEFINE n == Len(out)
<1>1. /\ n \in Nat /\ DOMAIN out = 1..n /\ DOMAIN out' = 1..(n + 1)
      /\ \A i \in DOMAIN out : out'[i] = out[i]
      /\ out'[n + 1].frame = g
  BY PushFacts
<1>2. \A h : Leaves(h)' = IF h = g THEN Leaves(h) \cup {n + 1} ELSE Leaves(h)
  <2>1. ASSUME NEW h, NEW i
        PROVE  i \in Leaves(h)' <=> i \in Leaves(h) \/ (h = g /\ i = n + 1)
    <3>1. CASE i \in DOMAIN out
      BY <1>1, <3>1 DEF Leaves
    <3>2. CASE i \notin DOMAIN out
      BY <1>1, <3>2 DEF Leaves
    <3> QED BY <3>1, <3>2
  <2>2. ASSUME NEW h PROVE Leaves(h)' = IF h = g THEN Leaves(h) \cup {n + 1} ELSE Leaves(h)
    <3>1. h = g => Leaves(h)' = Leaves(h) \cup {n + 1}
      BY <2>1
    <3>2. h # g => Leaves(h)' \subseteq Leaves(h) /\ Leaves(h) \subseteq Leaves(h)'
      BY <2>1
    <3> HIDE DEF n
    <3> QED BY <3>1, <3>2
  <2> QED BY <2>2
<1> QED BY <1>2

\* What stays as it is in every step, and what may follow the frame in cur_.
Steady == /\ \A h \in Frames : Ended(h) => Ended(h)' /\ Came(h)' = Came(h)
          /\ \A h \in Frames : Usable(h)' => Usable(h)
          /\ \/ cur'.frame \in {cur.frame, 0}
             \/ \A h \in Frames : h = cur'.frame => Leaves(h) = {}

LEMMA SteadyGaps ==
    ASSUME Steady, NEW h \in Frames, Ended(h)
    PROVE  /\ Gapless(h)' = Gapless(h) /\ (0 \in Came(h))' = (0 \in Came(h))
           /\ Restored(h)' = Restored(h)
BY DEF Steady, Gapless, Restored

\* If nothing leaves ...
LEMMA NothingLeaves ==
    ASSUME IInv, Steady, out' = out
    PROVE  OutInv'
<1> USE DEF IInv, OutInv
<1>1. OutType'
  BY DEF OutType
<1>2. \A g : Leaves(g)' = Leaves(g)
  BY DEF Leaves
<1>3. \A g \in Frames : Leaves(g) # {} => /\ Ended(g) /\ Ended(g)' /\ Gapless(g)' = Gapless(g)
                                         /\ (0 \in Came(g))' = (0 \in Came(g))
                                         /\ Restored(g)' = Restored(g)
  BY SteadyGaps DEF LeftInv, Steady
<1>4. LeftInv'
  BY <1>2, <1>3 DEF LeftInv, Steady
<1>5. TwiceInv'
  <2> SUFFICES ASSUME NEW g \in Frames, NEW i \in Leaves(g), NEW j \in Leaves(g), i # j
               PROVE  Gapless(g)' /\ cur'.frame # g
    BY <1>2 DEF TwiceInv
  <2>1. Gapless(g) /\ cur.frame # g
    BY DEF TwiceInv
  <2> QED BY <1>3, <2>1, FrameFacts DEF Steady
<1>6. OrderInv'
  BY <1>2, <1>3 DEF OrderInv
<1>7. WholeInv'
  BY <1>2, <1>3 DEF WholeInv
<1> QED BY <1>1, <1>4, <1>5, <1>6, <1>7

\* ... and if a frame leaves that ended, whole if its first packet came, and either
\* as the newest one, without a gap, for the first time or the second, or repaired,
\* for the first time: what is known of the frames that left goes on to hold.
MayLeave(g, u) ==
    /\ g \in Frames /\ Ended(g)
    /\ 0 \in Came(g) => u = Restored(g)
    /\ Gapless(g) => /\ \A h \in Frames : Leaves(h) # {} => h <= g
                     /\ Leaves(g) = {} \/ cur'.frame # g
                     /\ \A i, j \in Leaves(g) : i = j
    /\ ~Gapless(g) => Leaves(g) = {} /\ ~Usable(g)'

LEMMA OneLeaves ==
    ASSUME IInv, Steady, NEW g, NEW u, MayLeave(g, u),
           out' = out \o <<[frame |-> g, units |-> u]>>
    PROVE  OutInv'
<1> DEFINE n == Len(out)
<1> USE DEF IInv, OutInv
<1>1. /\ n \in Nat /\ DOMAIN out = 1..n /\ DOMAIN out' = 1..(n + 1)
      /\ \A i \in DOMAIN out : out'[i] = out[i]
      /\ out'[n + 1].frame = g /\ out'[n + 1].units = u /\ OutType'
  BY PushFacts
<1>2. \A h : Leaves(h)' = IF h = g THEN Leaves(h) \cup {n + 1} ELSE Leaves(h)
  BY PushLeaves
<1>3. n + 1 \notin DOMAIN out /\ \A h : Leaves(h) \subseteq DOMAIN out
  BY <1>1 DEF Leaves
<1>4. g \in Frames /\ Ended(g)
  BY DEF MayLeave
<1>5. \A h \in Frames : Leaves(h)' # {} =>
          /\ Ended(h) /\ Ended(h)' /\ Gapless(h)' = Gapless(h)
          /\ (0 \in Came(h))' = (0 \in Came(h)) /\ Restored(h)' = Restored(h)
  <2> SUFFICES ASSUME NEW h \in Frames, Leaves(h)' # {} PROVE Ended(h)
    BY SteadyGaps DEF Steady
  <2> QED BY <1>2, <1>4 DEF LeftInv
<1>6. LeftInv'
  <2>1. \A i \in DOMAIN out' : out'[i].frame \in Frames
    <3>1. \A i \in DOMAIN out' : i \in DOMAIN out \/ i = n + 1
      BY <1>1
    <3> QED BY <1>1, <1>4, <3>1 DEF LeftInv
  <2>2. ASSUME NEW h \in Frames, Leaves(h)' # {}
        PROVE  Ended(h)' /\ (~Gapless(h)' => ~Usable(h)')
    <3>1. CASE h = g
      BY <1>5, <2>2, <3>1 DEF MayLeave
    <3>2. CASE h # g
      BY <1>2, <1>5, <2>2, <3>2 DEF LeftInv, Steady
    <3> QED BY <3>1, <3>2
  <2> QED BY <2>1, <2>2 DEF LeftInv
<1>7. TwiceInv'
  <2> SUFFICES ASSUME NEW h \in Frames
               PROVE  /\ \A i, j, k \in Leaves(h)' : i = j \/ j = k \/ i = k
                      /\ \A i, j \in Leaves(h)' : i = j \/ (Gapless(h)' /\ cur'.frame # h)
    BY DEF TwiceInv
  <2>1. CASE h = g
    <3>1. \A i, j \in Leaves(g) : i = j
      BY DEF MayLeave
    <3>2. \A i \in Leaves(g) : Gapless(g)' /\ cur'.frame # g
      BY <1>2, <1>4, <1>5 DEF MayLeave
    <3> QED BY <1>2, <2>1, <3>1, <3>2
  <2>2. CASE h # g
    <3>1. Leaves(h)' = Leaves(h)
      BY <1>2, <2>2
    <3>2. ASSUME NEW i \in Leaves(h), NEW j \in Leaves(h), i # j
          PROVE  Gapless(h)' /\ cur'.frame # h
      <4>1. Gapless(h) /\ cur.frame # h
        BY <3>2 DEF TwiceInv
      <4> QED BY <1>5, <3>1, <4>1, FrameFacts DEF Steady
    <3> QED BY <3>1, <3>2 DEF TwiceInv
  <2> QED BY <2>1, <2>2
<1>8. OrderInv'
  <2> SUFFICES ASSUME NEW f \in Frames, NEW h \in Frames,
                      NEW i \in Leaves(f)', NEW j \in Leaves(h)', i < j, f > h
               PROVE  ~Gapless(h)
    <3>1. \A h \in Frames : Leaves(h)' # {} => Gapless(h)' = Gapless(h)
      BY <1>5
    <3> QED BY <3>1 DEF OrderInv
  <2>1. i \in Leaves(f)
    <3>1. j \in 1..(n + 1) /\ i \in 1..(n + 1)
      BY <1>1 DEF Leaves
    <3>2. i # n + 1
      BY <1>1, <3>1
    <3> QED BY <1>2, <3>2
  <2>2. CASE j = n + 1
    <3>1. h = g
      BY <1>2, <1>3, <2>2
    <3>2. f \in Nat /\ g \in Nat /\ ~(f <= g)
      BY <1>4, <3>1, FrameFacts
    <3> QED BY <2>1, <3>1, <3>2 DEF MayLeave
  <2>3. CASE j # n + 1
    BY <1>2, <2>1, <2>3 DEF OrderInv
  <2> QED BY <2>2, <2>3
<1>9. WholeInv'
  <2> SUFFICES ASSUME NEW h \in Frames, NEW i \in Leaves(h)', 0 \in Came(h)
               PROVE  out'[i].units = Restored(h)
    BY <1>5 DEF WholeInv
  <2>1. CASE i = n + 1
    <3>1. h = g
      BY <1>2, <1>3, <2>1
    <3> QED BY <1>1, <2>1, <3>1 DEF MayLeave
  <2>2. CASE i # n + 1
    BY <1>1, <1>2, <1>3, <2>2 DEF WholeInv
  <2> QED BY <2>1, <2>2
<1> QED BY <1>1, <1>6, <1>7, <1>8, <1>9

-----------------------------------------------------------------------------
(* What becomes of a frame.                                                *)

\* The frames that left before stay as they are, and only g can have left; it did,
\* as it was sent, if its first packet came.
GoneAsSent(g) ==
    /\ OutInv'
    /\ \A i \in DOMAIN out : i \in DOMAIN out' /\ out'[i] = out[i]
    /\ \A h : h # g => Leaves(h)' = Leaves(h)
    /\ 0 \in Came(g) => \E i \in Leaves(g)' : out'[i].units = Restored(g)

Held(f) == /\ Begun(f) /\ f.raws = Came(f.frame)
           /\ f.marker_seen = Ended(f.frame)

LEMMA GoneByPush ==
    ASSUME IInv, Steady, NEW g, NEW u, MayLeave(g, u),
           out' = out \o <<[frame |-> g, units |-> u]>>
    PROVE  GoneAsSent(g)
<1>1. OutType
  BY DEF IInv, OutInv
<1>2. OutInv'
  BY OneLeaves
<1>3. \A h : Leaves(h)' = IF h = g THEN Leaves(h) \cup {Len(out) + 1} ELSE Leaves(h)
  BY <1>1, PushLeaves
<1>4. /\ \A i \in DOMAIN out : i \in DOMAIN out' /\ out'[i] = out[i]
      /\ out'[Len(out) + 1].units = u
  <2>1. /\ Len(out) \in Nat /\ DOMAIN out = 1..Len(out) /\ DOMAIN out' = 1..(Len(out) + 1)
        /\ \A i \in DOMAIN out : out'[i] = out[i]
        /\ out'[Len(out) + 1] = [frame |-> g, units |-> u]
    BY <1>1, PushFacts
  <2> QED BY <2>1
<1>5. 0 \in Came(g) => \E i \in Leaves(g)' : out'[i].units = Restored(g)
  <2> SUFFICES ASSUME 0 \in Came(g)
               PROVE  Len(out) + 1 \in Leaves(g)' /\ out'[Len(out) + 1].units = Restored(g)
    OBVIOUS
  <2> QED BY <1>3, <1>4 DEF MayLeave
<1> QED BY <1>2, <1>3, <1>4, <1>5 DEF GoneAsSent

LEMMA GoneByNothing ==
    ASSUME IInv, Steady, NEW g, 0 \notin Came(g), out' = out
    PROVE  GoneAsSent(g)
BY NothingLeaves DEF GoneAsSent, Leaves

\* emit, with what it pushes.
LEMMA Emitted ==
    ASSUME IInv, Steady, NEW f, NEW extra, out' = out \o Emission(f, extra),
           \A u : (0 \in Came(f.frame) => u = Restored(f.frame)) => MayLeave(f.frame, u),
           0 \in Came(f.frame) =>
             Emission(f, extra) = <<[frame |-> f.frame, units |-> Restored(f.frame)]>>
    PROVE  GoneAsSent(f.frame)
<1>1. CASE 0 \in Came(f.frame)
  BY <1>1, GoneByPush
<1>2. CASE 0 \notin Came(f.frame)
  <2>1. CASE Emission(f, extra) = <<>>
    <3>1. out' = out
      BY <2>1, ConcatEmptySeq DEF IInv, OutInv, OutType
    <3> QED BY <1>2, <3>1, GoneByNothing
  <2>2. CASE \E u : Emission(f, extra) = <<[frame |-> f.frame, units |-> u]>>
    <3>1. PICK u : Emission(f, extra) = <<[frame |-> f.frame, units |-> u]>>
      BY <2>2
    <3>2. MayLeave(f.frame, u)
      BY <1>2
    <3> QED BY <3>1, <3>2, GoneByPush
  <2> QED BY <2>1, <2>2, EmissionShape
<1> QED BY <1>1, <1>2

\* A complete frame leaves, as the newest and for the first time or the second, ...
LEMMA CompleteLeaves ==
    ASSUME IInv, Steady, NEW f, Held(f), EmitsComplete(f),
           \A h \in Frames : Leaves(h) # {} => h <= f.frame,
           Leaves(f.frame) = {} \/ cur'.frame # f.frame,
           \A i, j \in Leaves(f.frame) : i = j
    PROVE  GoneAsSent(f.frame)
<1> DEFINE g == f.frame
<1>1. g \in Frames /\ Missed(f) = 0 /\ Ended(g) /\ Gapless(g)
  BY GapFacts DEF Held, Begun, EmitsComplete, Complete
<1>2. \A u : (0 \in Came(g) => u = Restored(g)) => MayLeave(g, u)
  BY <1>1 DEF MayLeave
<1>3. ASSUME 0 \in Came(g)
      PROVE  Emission(f, Nothing) = <<[frame |-> g, units |-> Restored(g)]>>
  <2>1. Count[g] - 1 \in f.raws /\ 0 \in f.raws
    BY <1>1, <1>3, CameFacts DEF Held
  <2> QED BY <1>1, <2>1, CompleteEmission DEF Held
<1> QED BY <1>2, <1>3, Emitted DEF EmitsComplete

\* ... and one that is repaired for the first time: its parity packet is used up.
LEMMA HealedLeaves ==
    ASSUME IInv, Steady, NEW f, Held(f), EmitsHealed(f), UNCHANGED <<awaited, storing>>
    PROVE  GoneAsSent(f.frame) /\ f.frame \in fec /\ ~Complete(f)
<1> DEFINE g == f.frame
<1>1. PICK seen \in Lookups : Healable(f, seen)
  BY DEF EmitsHealed
<1>2. g \in fec
  BY <1>1 DEF Healable, Lookups
<1>3. g \in Frames /\ Missed(f) = 1 /\ Ended(g) /\ ~Gapless(g)
  <2>1. g \in Frames /\ Missed(f) = 1 /\ Ended(g)
    BY <1>1 DEF Held, Begun, Healable
  <2>2. Gapless(g) <=> Missed(f) = 0
    BY <2>1, GapFacts DEF Held
  <2> QED BY <2>1, <2>2
<1>4. Leaves(g) = {}
  BY <1>2, <1>3 DEF IInv, OutInv, LeftInv, Usable
<1>5. ~Usable(g)'
  BY <1>2 DEF EmitsHealed, Consumed, Usable, IInv, FecInv
<1>6. \A u : (0 \in Came(g) => u = Restored(g)) => MayLeave(g, u)
  BY <1>3, <1>4, <1>5 DEF MayLeave
<1>7. ASSUME 0 \in Came(g)
      PROVE  Emission(f, Recovery(f)) = <<[frame |-> g, units |-> Restored(g)]>>
  <2>1. Count[g] - 1 \in f.raws /\ 0 \in f.raws
    BY <1>3, <1>7, CameFacts DEF Held
  <2> QED BY <1>3, <2>1, HealedEmission DEF Held
<1> QED BY <1>2, <1>3, <1>6, <1>7, Emitted DEF EmitsHealed, Complete

\* Giving a frame up counts what it misses, and nothing was counted of it before.
LEMMA CountedFacts ==
    ASSUME IInv, NEW f, Held(f), net_lost[f.frame] = 0, GivesUp(f)
    PROVE  /\ net_lost' \in [Frames -> Nat]
           /\ \A h \in Frames : h # f.frame => net_lost'[h] = net_lost[h]
           /\ Ended(f.frame) /\ 0 \in Came(f.frame) =>
                net_lost'[f.frame] = Count[f.frame] - Cardinality(Came(f.frame))
<1>1. f.frame \in Frames /\ Missed(f) \in Nat /\ net_lost \in [Frames -> Nat]
  BY MissedFacts DEF Held, Begun, IInv, TypeOK
<1>2. net_lost' = [net_lost EXCEPT ![f.frame] = 0 + Missed(f)]
  BY DEF GivesUp, Counted
<1>3. Ended(f.frame) /\ 0 \in Came(f.frame) =>
        Missed(f) = Count[f.frame] - Cardinality(Came(f.frame))
  BY GapFacts DEF Held
<1> QED BY <1>1, <1>2, <1>3

\* The frames that left before are still there as they left.
OutGrows == \A i \in DOMAIN out : i \in DOMAIN out' /\ out'[i] = out[i]

Repaired(g) == 0 \in Came(g) /\ Cardinality(Came(g)) = Count[g] - 1
                 => \E i \in Leaves(g) : Whole(i)

\* What was repaired is repaired.
LEMMA RepairedBefore ==
    ASSUME IInv, Steady, OutGrows
    PROVE  \A g \in in_time : g \in Frames /\ Ended(g)' /\ Repaired(g)'
<1>1. \A g \in in_time : g \in Frames /\ Ended(g) /\ Ended(g)' /\ Came(g)' = Came(g)
  BY DEF IInv, TypeOK, TimeInv, Steady
<1>2. ASSUME NEW g \in in_time, 0 \in Came(g), Cardinality(Came(g)) = Count[g] - 1
      PROVE  \E i \in Leaves(g)' : Whole(i)'
  <2>1. PICK i \in Leaves(g) : Whole(i)
    BY <1>2 DEF IInv, InnerLossRepaired
  <2>2. Restored(g)' = Restored(g)
    BY <1>1 DEF Restored
  <2>3. i \in Leaves(g)' /\ out'[i].frame = g /\ out'[i].units = Restored(g)
    BY <2>1 DEF OutGrows, Leaves, Whole
  <2>4. Whole(i)'
    BY <2>2, <2>3, Zenon DEF Whole
  <2> QED BY <2>3, <2>4
<1> QED BY <1>1, <1>2 DEF Repaired

LEMMA RepairedStays ==
    ASSUME IInv, Steady, OutGrows, in_time' = in_time
    PROVE  TimeInv' /\ InnerLossRepaired'
BY RepairedBefore DEF TimeInv, InnerLossRepaired, Repaired

-----------------------------------------------------------------------------
\* A packet that the jitter buffer delivers belongs to cur_ or to a new frame.
LEMMA PopFacts ==
    ASSUME IInv, NEW p \in Packets, Pop(p)
    PROVE  /\ p[1] \in Frames /\ p[2] \in Data(p[1]) /\ p = <<p[1], p[2]>>
           /\ ~Ended(p[1]) /\ Leaves(p[1]) = {}
           /\ \A q \in popped' : q[1] <= p[1]
           /\ \A h \in Frames : h # p[1] => Came(h)' = Came(h) /\ Ended(h)' = Ended(h)
           /\ Came(p[1])' = Came(p[1]) \cup {p[2]} /\ (Ended(p[1])' <=> IsMarker(p))
           /\ cur.frame # p[1] => Came(p[1]) = {}
<1>1. p[1] \in Frames /\ p[2] \in Data(p[1]) /\ p = <<p[1], p[2]>>
  BY PacketFacts
<1>2. /\ p[1] \in Nat /\ p[2] \in Nat /\ p[2] <= Count[p[1]] - 1
      /\ Count[p[1]] - 1 \in Data(p[1]) /\ Count[p[1]] \in Nat
  BY <1>1, FrameFacts
<1>3. popped \subseteq Packets /\ popped' = popped \cup {p} /\ \A q \in popped : Before(q, p)
  BY DEF IInv, TypeOK, Pop
<1>4. ~Ended(p[1])
  BY <1>2, <1>3 DEF Ended, Before
<1>5. Leaves(p[1]) = {}
  BY <1>1, <1>4 DEF IInv, OutInv, LeftInv
<1>6. \A q \in popped' : q[1] <= p[1]
  <2>1. \A q \in popped : q[1] \in Nat
    BY <1>3, PacketFacts, FrameFacts
  <2> QED BY <1>2, <1>3, <2>1 DEF Before
<1>7. \A h \in Frames : h # p[1] => Came(h)' = Came(h) /\ Ended(h)' = Ended(h)
  <2>1. \A h, k : h # p[1] => (<<h, k>> \in popped' <=> <<h, k>> \in popped)
    BY <1>1, <1>3
  <2> QED BY <2>1 DEF Came, Ended
<1>8. Came(p[1])' = Came(p[1]) \cup {p[2]} /\ (Ended(p[1])' <=> IsMarker(p))
  <2>1. \A k : <<p[1], k>> \in popped' <=> <<p[1], k>> \in popped \/ k = p[2]
    BY <1>1, <1>3
  <2>2. Came(p[1])' = Came(p[1]) \cup {p[2]}
    BY <1>1, <2>1 DEF Came
  <2>3. Ended(p[1])' <=> IsMarker(p)
    BY <1>4, <2>1 DEF Ended, IsMarker
  <2> QED BY <2>2, <2>3
<1>9. ASSUME cur.frame # p[1], NEW k \in Came(p[1]) PROVE FALSE
  <2>1. <<p[1], k>> \in popped
    BY DEF Came
  <2>2. PICK r \in popped : r[1] > p[1]
    BY <1>4, <1>9, <2>1 DEF IInv, PassedInv
  <2>3. r[1] \in Nat /\ r[1] <= p[1]
    BY <1>3, <1>6, PacketFacts, FrameFacts
  <2> QED BY <1>2, <2>2, <2>3
<1> QED BY <1>1, <1>4, <1>5, <1>6, <1>7, <1>8, <1>9

\* It is filed in cur_.
LEMMA PopFiles ==
    ASSUME IInv, NEW p \in Packets, Pop(p)
    PROVE  /\ cur' # NotStarted /\ cur' \in FrameState /\ cur'.frame = p[1]
           /\ cur'.raws = Came(p[1])' /\ cur'.marker_seen = Ended(p[1])'
           /\ cur'.raws \subseteq Data(p[1]) /\ cur'.raws # {}
           /\ Steady
<1>1. /\ p[1] \in Frames /\ p[2] \in Data(p[1]) /\ p[1] # 0 /\ Data(p[1]) \subseteq Nat
      /\ Came(p[1]) \subseteq Data(p[1])
  BY PopFacts, FrameFacts, CameFacts
<1>2. IsMarker(p) \in BOOLEAN
  BY DEF IsMarker
<1>3. ASSUME Continues(p)
      PROVE  /\ cur' \in FrameState /\ cur'.frame = p[1]
             /\ cur'.raws = Came(p[1])' /\ cur'.marker_seen = Ended(p[1])'
  <2>1. cur # NotStarted /\ cur.frame = p[1]
    BY <1>1, <1>3 DEF Continues, NotStarted
  <2>2. /\ cur \in FrameState /\ cur.raws = Came(p[1])
        /\ cur.marker_seen = FALSE
    <3>1. cur \in FrameState /\ cur.raws = Came(p[1]) /\ cur.marker_seen = Ended(p[1])
      BY <2>1, HeldFacts
    <3>2. cur.marker_seen \in BOOLEAN
      BY <3>1 DEF FrameState
    <3> QED BY <3>1, <3>2, PopFacts
  <2>3. cur' = [cur EXCEPT !.raws = Came(p[1])', !.marker_seen = IsMarker(p)]
    <3>1. Came(p[1])' = cur.raws \cup {p[2]} /\ (cur.marker_seen \/ IsMarker(p)) = IsMarker(p)
      BY <1>2, <2>2, PopFacts
    <3> QED BY <1>3, <3>1 DEF Continues, Filed
  <2>4. Came(p[1])' \subseteq Nat
    BY <1>1, PopFacts
  <2>5. Ended(p[1])' = IsMarker(p)
    BY PopFacts DEF IsMarker, Ended
  <2> HIDE DEF IsMarker, Came, Ended
  <2> QED BY <1>2, <2>1, <2>2, <2>3, <2>4, <2>5 DEF FrameState
<1>4. ASSUME Begins(p)
      PROVE  /\ cur' \in FrameState /\ cur'.frame = p[1]
             /\ cur'.raws = Came(p[1])' /\ cur'.marker_seen = Ended(p[1])'
  <2>1. cur' = [frame |-> p[1], raws |-> {p[2]}, marker_seen |-> IsMarker(p), age |-> 0]
    BY <1>2, <1>4 DEF Begins, Filed, NotStarted
  <2>2. Came(p[1])' = {p[2]} /\ Ended(p[1])' = IsMarker(p)
    BY <1>4, PopFacts DEF Begins, IsMarker, Ended
  <2>3. 0 \in 0..(GiveUpAge + 1)
    BY LimitAssumption
  <2> QED BY <1>1, <1>2, <2>1, <2>2, <2>3 DEF FrameState
<1>5. /\ cur' \in FrameState /\ cur'.frame = p[1]
      /\ cur'.raws = Came(p[1])' /\ cur'.marker_seen = Ended(p[1])'
  BY <1>3, <1>4 DEF Pop
<1>6. cur' # NotStarted
  BY <1>1, <1>5 DEF NotStarted
<1>7. cur'.raws \subseteq Data(p[1]) /\ cur'.raws # {}
  BY <1>1, <1>5, PopFacts
<1>8. Steady
  <2>1. \A h \in Frames : Ended(h) => Ended(h)' /\ Came(h)' = Came(h)
    BY PopFacts
  <2>2. \A h \in Frames : Usable(h)' => Usable(h)
    BY DEF Pop, Continues, Begins, EmitsComplete, EmitsHealed, CannotEmit, Consumed, Usable
  <2> QED BY <1>1, <1>5, <2>1, <2>2, PopFacts DEF Steady
<1> QED BY <1>5, <1>6, <1>7, <1>8

\* A frame that it ends leaves, or what it misses is counted.
LEMMA PopLeaves ==
    ASSUME IInv, NEW p \in Packets, Pop(p)
    PROVE  /\ OutInv' /\ OutGrows
           /\ \A h : Leaves(h)' = Leaves(h) \/ (h = cur.frame /\ h # p[1])
           /\ fec' \subseteq fec
           /\ \/ net_lost' = net_lost
              \/ cur # NotStarted /\ cur.frame # p[1] /\ GivesUp(cur)
<1>0. PICK f : f = cur
  OBVIOUS
<1> DEFINE g == f.frame
<1>1. Steady /\ cur'.frame = p[1]
  BY PopFiles
<1>2. ASSUME out' = out
      PROVE  OutInv' /\ OutGrows /\ \A h : Leaves(h)' = Leaves(h)
  BY <1>1, <1>2, NothingLeaves DEF OutGrows, Leaves
<1>3. CASE Continues(p)
  BY <1>2, <1>3 DEF Continues
<1>4. CASE Begins(p) /\ cur = NotStarted /\ UNCHANGED <<fec, net_lost, out>>
  BY <1>2, <1>4
<1>5. ASSUME cur # NotStarted PROVE Held(f)
  BY <1>0, <1>5, HeldFacts DEF Held
<1>6. CASE Begins(p) /\ cur # NotStarted /\ EmitsComplete(f)
  <2>1. \A h \in Frames : Leaves(h) # {} => h <= g
    <3> SUFFICES ASSUME NEW h \in Frames, Leaves(h) # {} PROVE h <= g
      OBVIOUS
    <3>1. <<h, Count[h] - 1>> \in popped
      BY DEF IInv, OutInv, LeftInv, Ended
    <3>2. \A q \in popped : q[1] <= g
      BY <1>0, <1>6 DEF IInv, CurInv
    <3> QED BY <3>1, <3>2
  <2>2. \A i, j \in Leaves(g) : i = j
    BY <1>0, <1>5, <1>6 DEF Held, Begun, IInv, OutInv, TwiceInv
  <2>3. cur'.frame # g
    BY <1>0, <1>1, <1>6 DEF Begins
  <2>4. GoneAsSent(g)
    BY <1>1, <1>5, <1>6, <2>1, <2>2, <2>3, CompleteLeaves
  <2> QED BY <1>0, <1>6, <2>4 DEF GoneAsSent, OutGrows, EmitsComplete, Begins
<1>7. CASE Begins(p) /\ cur # NotStarted /\ EmitsHealed(f)
  <2>1. GoneAsSent(g)
    BY <1>1, <1>5, <1>7, HealedLeaves DEF Pop
  <2> QED BY <1>0, <1>7, <2>1 DEF GoneAsSent, OutGrows, EmitsHealed, Consumed, Begins
<1>8. CASE Begins(p) /\ cur # NotStarted /\ CannotEmit(cur) /\ GivesUp(cur)
  BY <1>2, <1>8 DEF CannotEmit, Begins
<1> QED BY <1>0, <1>3, <1>4, <1>6, <1>7, <1>8 DEF Pop, Begins

\* fec_ only loses entries in what the assembling thread does.
LEMMA FecShrinks ==
    ASSUME TypeOK, fec' \subseteq fec
    PROVE  fec' \subseteq Frames /\ Cardinality(fec') <= FecLimit
<1>1. IsFiniteSet(fec)
  <2>1. IsFiniteSet(Frames)
    BY FramesAssumption, FS_Interval DEF Frames
  <2> QED BY <2>1, FS_Subset DEF TypeOK
<1>2. /\ IsFiniteSet(fec') /\ Cardinality(fec') <= Cardinality(fec)
      /\ Cardinality(fec) \in Nat /\ Cardinality(fec') \in Nat
  BY <1>1, FS_Subset, FS_CardinalityType
<1> QED BY <1>2, LimitAssumption DEF TypeOK

LEMMA PopKeeps ==
    ASSUME IInv, NEW p \in Packets, Pop(p)
    PROVE  IInv'
<1> DEFINE g == cur.frame
<1>1. /\ p[1] \in Frames /\ p[2] \in Data(p[1]) /\ p = <<p[1], p[2]>>
      /\ ~Ended(p[1]) /\ Leaves(p[1]) = {}
      /\ \A h \in Frames : h # p[1] => Came(h)' = Came(h) /\ Ended(h)' = Ended(h)
      /\ Came(p[1])' = Came(p[1]) \cup {p[2]} /\ (Ended(p[1])' <=> IsMarker(p))
      /\ g # p[1] => Came(p[1]) = {}
  BY PopFacts
<1>2. /\ cur' # NotStarted /\ cur' \in FrameState /\ cur'.frame = p[1]
      /\ cur'.raws = Came(p[1])' /\ cur'.marker_seen = Ended(p[1])'
      /\ cur'.raws \subseteq Data(p[1]) /\ cur'.raws # {} /\ Steady
  BY PopFiles
<1>3. /\ OutInv' /\ OutGrows
      /\ \A h : Leaves(h)' = Leaves(h) \/ (h = g /\ h # p[1])
      /\ fec' \subseteq fec
      /\ \/ net_lost' = net_lost
         \/ cur # NotStarted /\ g # p[1] /\ GivesUp(cur)
  BY PopLeaves
<1>4. /\ popped' = popped \cup {p} /\ at' = IF IsMarker(p) THEN "ending" ELSE "expiring"
      /\ UNCHANGED <<zombies, it, storing, awaited, in_time>>
      /\ at = "pop" /\ \A q \in popped : Before(q, p)
  BY DEF Pop
<1>5. ASSUME cur # NotStarted
      PROVE  Held(cur) /\ net_lost[g] = 0 /\ g \in Frames /\ Came(g) # {} /\ ~Waits(g)
  <2>1. Held(cur) /\ g \in Frames /\ Came(g) # {}
    BY <1>5, HeldFacts DEF Held, Begun
  <2>2. ~Waits(g)
    BY <2>1 DEF IInv, ZombieInv, Waits
  <2> QED BY <2>1, <2>2 DEF IInv, NetInv
<1>6. /\ net_lost' \in [Frames -> Nat]
      /\ \A h \in Frames : h # g \/ g = p[1] => net_lost'[h] = net_lost[h]
      /\ \/ net_lost' = net_lost
         \/ g \in Frames /\ Came(g) # {} /\ ~Waits(g) /\ g # p[1]
  <2>1. CASE net_lost' = net_lost
    BY <2>1 DEF IInv, TypeOK
  <2>2. CASE cur # NotStarted /\ g # p[1] /\ GivesUp(cur)
    BY <1>5, <2>2, CountedFacts
  <2> QED BY <1>3, <2>1, <2>2
<1>7. TypeOK'
  <2>1. popped' \subseteq Packets
    BY <1>4 DEF IInv, TypeOK
  <2>2. zombies' \in Seq(FrameState) /\ it' \in 1..(Len(zombies') + 1)
        /\ storing' \in Frames \cup {0} /\ awaited' \subseteq Frames
        /\ in_time' \subseteq Frames /\ at' \in {"pop", "ending", "expiring"}
    BY <1>4 DEF IInv, TypeOK
  <2>3. fec' \subseteq Frames /\ Cardinality(fec') <= FecLimit
    BY <1>3, FecShrinks DEF IInv
  <2> QED BY <1>2, <1>6, <2>1, <2>2, <2>3 DEF TypeOK
<1>8. CurInv'
  <2>1. \A q \in popped' : q[1] <= p[1]
    BY PopFacts
  <2> QED BY <1>2, <2>1 DEF CurInv
<1>9. EndInv'
  BY <1>1, <1>2, <1>3, <1>4 DEF EndInv
<1>10. PassedInv'
  <2> SUFFICES ASSUME NEW q \in popped', q[1] # p[1], ~Ended(q[1])'
               PROVE  \E r \in popped' : r[1] > q[1]
    BY <1>2 DEF PassedInv
  <2>1. q \in popped /\ q[1] \in Frames /\ p \in popped'
    BY <1>4, PacketFacts DEF IInv, TypeOK
  <2>2. CASE q[1] = g
    <3>1. q[1] < p[1]
      BY <1>4, <2>1 DEF Before
    <3>2. p[1] > q[1]
      BY <1>1, <2>1, <3>1, FrameFacts
    <3> QED BY <2>1, <3>2
  <2>3. CASE \E r \in popped : r[1] > q[1]
    BY <1>4, <2>3
  <2>4. ~Ended(q[1])
    BY <1>1, <2>1
  <2> QED BY <2>1, <2>2, <2>3, <2>4 DEF IInv, PassedInv
<1>11. ZombieInv'
  <2> SUFFICES ASSUME NEW i \in DOMAIN zombies, NEW h \in Frames, zombies[i].frame = h
               PROVE  /\ zombies[i].raws = Came(h)' /\ zombies[i].marker_seen
                      /\ Ended(h)' /\ ~Gapless(h)'
                      /\ cur'.frame # h /\ Leaves(h)' = {}
                      /\ \A j \in DOMAIN zombies : zombies[j].frame = h => i = j
    BY <1>4 DEF ZombieInv
  <2>1. /\ zombies[i].raws = Came(h) /\ zombies[i].marker_seen
        /\ Ended(h) /\ ~Gapless(h) /\ g # h /\ Leaves(h) = {}
        /\ \A j \in DOMAIN zombies : zombies[j].frame = h => i = j
    BY DEF IInv, ZombieInv
  <2>2. Gapless(h)' = Gapless(h) /\ Came(h)' = Came(h) /\ Ended(h)' /\ h # p[1]
    BY <1>1, <1>2, <2>1, SteadyGaps DEF Steady
  <2> QED BY <1>2, <1>3, <2>1, <2>2
<1>12. FecInv'
  BY <1>3, <1>4 DEF IInv, FecInv
<1>13. NetInv'
  <2> SUFFICES ASSUME NEW h \in Frames, cur'.frame = h \/ Waits(h)' \/ Came(h)' = {}
               PROVE  net_lost'[h] = 0
    BY DEF NetInv
  <2>1. Waits(h)' = Waits(h)
    BY <1>4 DEF Waits
  <2>2. net_lost'[h] = net_lost[h]
    BY <1>1, <1>2, <1>6, <2>1
  <2>3. g = h \/ Waits(h) \/ Came(h) = {}
    BY <1>1, <1>2, <2>1
  <2> QED BY <2>2, <2>3 DEF IInv, NetInv
<1>14. TimeInv' /\ InnerLossRepaired'
  BY <1>2, <1>3, <1>4, RepairedStays
<1>15. NoneDisappears'
  <2> SUFFICES ASSUME NEW h \in Frames, (0 \in Came(h))', Ended(h)', ~Ending(h)'
               PROVE  Leaves(h)' # {} \/ Waits(h)'
                      \/ net_lost'[h] = Count[h] - Cardinality(Came(h))'
    BY DEF NoneDisappears
  <2>1. h # p[1]
    BY <1>1, <1>2, <1>4 DEF Ending
  <2>2. Came(h)' = Came(h) /\ Ended(h) /\ ~Ending(h) /\ Waits(h)' = Waits(h)
    BY <1>1, <1>4, <2>1 DEF Ending, Waits
  <2>3. CASE Leaves(h) # {}
    <3>1. PICK i \in DOMAIN out : out[i].frame = h
      BY <2>3 DEF Leaves
    <3>2. i \in Leaves(h)'
      BY <1>3, <3>1 DEF OutGrows, Leaves
    <3> QED BY <3>2
  <2>4. CASE net_lost[h] = Count[h] - Cardinality(Came(h)) /\ net_lost'[h] = net_lost[h]
    BY <2>2, <2>4
  <2>5. CASE h = g /\ cur # NotStarted /\ GivesUp(cur)
    <3>1. net_lost'[h] = Count[h] - Cardinality(Came(h))
      BY <1>5, <2>2, <2>5, CountedFacts
    <3> QED BY <2>2, <3>1
  <2>6. net_lost'[h] = net_lost[h] \/ (h = g /\ cur # NotStarted /\ GivesUp(cur))
    BY <1>3, <1>6
  <2> QED BY <2>2, <2>3, <2>4, <2>5, <2>6 DEF IInv, NoneDisappears
<1> QED BY <1>3, <1>7, <1>8, <1>9, <1>10, <1>11, <1>12, <1>13, <1>14, <1>15 DEF IInv

-----------------------------------------------------------------------------
\* A frame added to the zombies is the last of them.
LEMMA AppendFacts ==
    ASSUME zombies \in Seq(FrameState), NEW f \in FrameState, zombies' = Append(zombies, f)
    PROVE  /\ zombies' \in Seq(FrameState) /\ Len(zombies) \in Nat
           /\ Len(zombies') = Len(zombies) + 1
           /\ DOMAIN zombies = 1..Len(zombies) /\ DOMAIN zombies' = 1..(Len(zombies) + 1)
           /\ \A i \in DOMAIN zombies : zombies'[i] = zombies[i]
           /\ zombies'[Len(zombies) + 1] = f
<1>1. /\ zombies' \in Seq(FrameState) /\ Len(zombies') = Len(zombies) + 1
      /\ \A i \in 1..Len(zombies) : zombies'[i] = zombies[i]
      /\ zombies'[Len(zombies) + 1] = f
  BY AppendProperties
<1>2. Len(zombies) \in Nat /\ DOMAIN zombies = 1..Len(zombies)
      /\ DOMAIN zombies' = 1..Len(zombies')
  BY <1>1, LenProperties
<1> QED BY <1>1, <1>2

\* At its last packet a frame leaves, is set aside, or what it misses is counted.
LEMMA EndsCases ==
    ASSUME IInv, Ends, NEW f, f = cur
    PROVE  /\ Steady /\ OutInv' /\ OutGrows /\ fec' \subseteq fec
           /\ cur # NotStarted /\ Held(f) /\ f.frame \in Frames
           /\ Ended(f.frame) /\ Leaves(f.frame) = {} /\ net_lost[f.frame] = 0
           /\ \A h : h # f.frame => Leaves(h)' = Leaves(h)
           /\ \/ UNCHANGED <<cur, zombies, net_lost>> /\ GoneAsSent(f.frame)
              \/ /\ cur' = NotStarted /\ CannotEmit(f) /\ Leaves(f.frame)' = {}
                 /\ ~Gapless(f.frame)
                 /\ \/ zombies' = Append(zombies, f) /\ UNCHANGED net_lost
                    \/ GivesUp(f) /\ UNCHANGED zombies
<1> DEFINE g == f.frame
<1>1. cur # NotStarted /\ Ended(g) /\ Leaves(g) = {}
  BY DEF IInv, EndInv, Ends
<1>2. Held(f) /\ g \in Frames /\ net_lost[g] = 0
  <2>1. Held(f) /\ g \in Frames
    BY <1>1, HeldFacts DEF Held, Begun
  <2> QED BY <2>1 DEF IInv, NetInv
<1>3. UNCHANGED <<popped, storing, awaited>>
  BY DEF Ends
<1>4. fec' \subseteq fec
  BY DEF Ends, EmitsComplete, EmitsHealed, CannotEmit, Consumed
<1>5. Steady
  <2>1. cur' = cur \/ cur' = NotStarted
    BY DEF Ends
  <2>2. cur'.frame \in {g, 0}
    BY <2>1 DEF NotStarted
  <2> QED BY <1>3, <1>4, <2>2 DEF Steady, Ended, Came, Usable
<1>6. CASE EmitsComplete(f) /\ UNCHANGED <<cur, zombies>>
  <2>1. \A h \in Frames : Leaves(h) # {} => h <= g
    <3> SUFFICES ASSUME NEW h \in Frames, Leaves(h) # {} PROVE h <= g
      OBVIOUS
    <3>1. <<h, Count[h] - 1>> \in popped
      BY DEF IInv, OutInv, LeftInv, Ended
    <3>2. \A q \in popped : q[1] <= g
      BY <1>1 DEF IInv, CurInv
    <3> QED BY <3>1, <3>2
  <2>2. GoneAsSent(g)
    BY <1>1, <1>2, <1>5, <1>6, <2>1, CompleteLeaves
  <2> QED BY <1>1, <1>2, <1>4, <1>5, <1>6, <2>2 DEF GoneAsSent, OutGrows, EmitsComplete
<1>7. CASE EmitsHealed(f) /\ UNCHANGED <<cur, zombies>>
  <2>1. GoneAsSent(g)
    BY <1>2, <1>3, <1>5, <1>7, HealedLeaves
  <2> QED BY <1>1, <1>2, <1>4, <1>5, <1>7, <2>1 DEF GoneAsSent, OutGrows, EmitsHealed
<1>8. CASE /\ CannotEmit(f) /\ cur' = NotStarted
           /\ \/ zombies' = Append(zombies, f) /\ UNCHANGED net_lost
              \/ GivesUp(f) /\ UNCHANGED zombies
  <2>1. out' = out
    BY <1>8 DEF CannotEmit
  <2>2. OutInv' /\ OutGrows /\ \A h : Leaves(h)' = Leaves(h)
    BY <1>5, <2>1, NothingLeaves DEF OutGrows, Leaves
  <2>3. ~Gapless(g)
    <3>1. Missed(f) # 0
      BY <1>1, <1>2, <1>8 DEF CannotEmit, Complete, Held
    <3> QED BY <1>1, <1>2, <3>1, GapFacts DEF Held
  <2> QED BY <1>1, <1>2, <1>4, <1>5, <1>8, <2>2, <2>3
<1> QED BY <1>6, <1>7, <1>8 DEF Ends

LEMMA EndsKeeps ==
    ASSUME IInv, Ends
    PROVE  IInv'
<1>0. PICK f : f = cur
  OBVIOUS
<1> USE <1>0
<1> DEFINE g == f.frame
           Leaving == UNCHANGED <<cur, zombies, net_lost>> /\ GoneAsSent(g)
           Set == /\ cur' = NotStarted /\ CannotEmit(f) /\ Leaves(g)' = {}
                  /\ ~Gapless(g)
                  /\ zombies' = Append(zombies, f) /\ UNCHANGED net_lost
           Lost == /\ cur' = NotStarted /\ CannotEmit(f) /\ Leaves(g)' = {}
                   /\ GivesUp(f) /\ UNCHANGED zombies
<1>1. /\ Steady /\ OutInv' /\ OutGrows /\ fec' \subseteq fec
      /\ cur # NotStarted /\ Held(f) /\ g \in Frames
      /\ Ended(g) /\ Leaves(g) = {} /\ net_lost[g] = 0
      /\ \A h : h # g => Leaves(h)' = Leaves(h)
      /\ Leaving \/ Set \/ Lost
  BY EndsCases
<1>2. /\ at = "ending" /\ at' = "expiring" /\ UNCHANGED <<popped, it, storing, awaited>>
      /\ in_time' = IF storing = 0 /\ g \in fec THEN in_time \cup {g} ELSE in_time
  BY DEF Ends
<1>3. \A h : Came(h)' = Came(h) /\ Ended(h)' = Ended(h) /\ Gapless(h)' = Gapless(h)
  BY <1>2 DEF Came, Ended, Gapless
<1>4. NotStarted.frame = 0 /\ \A h \in Frames : h # 0
  BY FrameFacts DEF NotStarted
<1>5. f \in FrameState /\ zombies \in Seq(FrameState) /\ ~Waits(g) /\ Came(g) # {}
  <2>1. ~Waits(g)
    BY <1>1 DEF IInv, ZombieInv, Waits
  <2> QED BY <1>1, <2>1, HeldFacts DEF IInv, TypeOK, Held, Begun
<1>6. ASSUME Set
      PROVE  /\ zombies' \in Seq(FrameState) /\ Len(zombies) \in Nat
             /\ Len(zombies') = Len(zombies) + 1
             /\ DOMAIN zombies = 1..Len(zombies) /\ DOMAIN zombies' = 1..(Len(zombies) + 1)
             /\ \A i \in DOMAIN zombies : zombies'[i] = zombies[i]
             /\ zombies'[Len(zombies) + 1] = f
  <2>1. zombies' = Append(zombies, f)
    BY <1>6
  <2> QED BY <1>5, <2>1, AppendFacts
<1>7. /\ net_lost' \in [Frames -> Nat]
      /\ \A h \in Frames : h # g \/ ~Lost => net_lost'[h] = net_lost[h]
  <2>1. CASE net_lost' = net_lost
    BY <2>1 DEF IInv, TypeOK
  <2>2. CASE Lost
    BY <1>1, <2>2, CountedFacts
  <2> QED BY <1>1, <2>1, <2>2
<1>8. TypeOK'
  <2>1. /\ cur' \in FrameState \cup {NotStarted}
        /\ cur' # NotStarted => cur'.raws \subseteq Data(cur'.frame) /\ cur'.raws # {}
    BY <1>1 DEF IInv, TypeOK
  <2>2. zombies' \in Seq(FrameState) /\ it' \in 1..(Len(zombies') + 1)
    <3>1. zombies' \in Seq(FrameState) /\ (zombies' = zombies \/ Len(zombies') = Len(zombies) + 1)
      BY <1>1, <1>5, <1>6
    <3>2. Len(zombies) \in Nat
      BY <1>5, LenProperties
    <3> QED BY <1>2, <3>1, <3>2 DEF IInv, TypeOK
  <2>3. fec' \subseteq Frames /\ Cardinality(fec') <= FecLimit
    BY <1>1, FecShrinks DEF IInv
  <2>4. in_time' \subseteq Frames
    BY <1>1, <1>2 DEF IInv, TypeOK
  <2> QED BY <1>2, <1>7, <2>1, <2>2, <2>3, <2>4 DEF IInv, TypeOK
<1>9. CurInv' /\ EndInv'
  BY <1>1, <1>2, <1>3 DEF IInv, CurInv, EndInv
<1>10. PassedInv'
  <2> SUFFICES ASSUME NEW q \in popped
               PROVE  q[1] = cur'.frame \/ Ended(q[1]) \/ \E r \in popped : r[1] > q[1]
    BY <1>2, <1>3 DEF PassedInv
  <2>1. cur'.frame = g \/ Ended(g)
    BY <1>1
  <2> QED BY <2>1, <1>1 DEF IInv, PassedInv
<1>11. ZombieInv'
  <2>1. ASSUME NEW h \in Frames, NEW i \in DOMAIN zombies, zombies[i].frame = h
        PROVE  /\ zombies[i].raws = Came(h)' /\ zombies[i].marker_seen
               /\ Ended(h)' /\ ~Gapless(h)' /\ h # g
               /\ cur'.frame # h /\ Leaves(h)' = {}
               /\ \A j \in DOMAIN zombies : zombies[j].frame = h => i = j
    <3>1. /\ zombies[i].raws = Came(h) /\ zombies[i].marker_seen
          /\ Ended(h) /\ ~Gapless(h) /\ g # h /\ Leaves(h) = {}
          /\ \A j \in DOMAIN zombies : zombies[j].frame = h => i = j
      BY <2>1 DEF IInv, ZombieInv
    <3>2. cur'.frame # h
      BY <1>1, <1>4, <3>1
    <3> QED BY <1>1, <1>3, <3>1, <3>2
  <2>2. CASE zombies' = zombies
    BY <2>1, <2>2 DEF ZombieInv
  <2>3. CASE Set
    <3> DEFINE n == Len(zombies)
    <3> SUFFICES ASSUME NEW h \in Frames, NEW i \in DOMAIN zombies', zombies'[i].frame = h
                 PROVE  /\ zombies'[i].raws = Came(h)' /\ zombies'[i].marker_seen
                        /\ Ended(h)' /\ ~Gapless(h)'
                        /\ cur'.frame # h /\ Leaves(h)' = {}
                        /\ \A j \in DOMAIN zombies' : zombies'[j].frame = h => i = j
      BY DEF ZombieInv
    <3>1. /\ \A j \in DOMAIN zombies' : j \in DOMAIN zombies \/ j = n + 1
          /\ \A j \in DOMAIN zombies : zombies'[j] = zombies[j]
          /\ zombies'[n + 1] = f
      BY <1>6, <2>3
    <3>2. CASE i \in DOMAIN zombies
      BY <2>1, <3>1, <3>2
    <3>3. CASE i = n + 1
      <4>1. h = g /\ f.raws = Came(g) /\ f.marker_seen
        BY <1>1, <3>1, <3>3 DEF Held
      <4>2. \A j \in DOMAIN zombies : zombies[j].frame # g
        BY <1>5 DEF Waits
      <4> QED BY <1>1, <1>3, <1>4, <2>3, <3>1, <3>3, <4>1, <4>2
    <3> QED BY <3>1, <3>2, <3>3
  <2> QED BY <1>1, <2>2, <2>3
<1>12. FecInv'
  BY <1>1, <1>2 DEF IInv, FecInv
<1>13. \A h \in Frames : h # g \/ Leaving \/ Lost => Waits(h)' = Waits(h)
  <2>1. CASE zombies' = zombies
    BY <2>1 DEF Waits
  <2>2. CASE Set
    <3> SUFFICES ASSUME NEW h \in Frames, h # g PROVE Waits(h)' = Waits(h)
      BY <2>1
    <3>1. /\ \A j \in DOMAIN zombies' : j \in DOMAIN zombies \/ j = Len(zombies) + 1
          /\ \A j \in DOMAIN zombies : j \in DOMAIN zombies' /\ zombies'[j] = zombies[j]
          /\ zombies'[Len(zombies) + 1] = f
      BY <1>6, <2>2
    <3> QED BY <3>1 DEF Waits
  <2> QED BY <1>1, <2>1, <2>2
<1>14. NetInv'
  <2> SUFFICES ASSUME NEW h \in Frames, cur'.frame = h \/ Waits(h)' \/ Came(h)' = {}
               PROVE  net_lost'[h] = 0
    BY DEF NetInv
  <2>1. CASE h = g /\ Lost
    <3>1. ~Waits(h)'
      BY <1>5, <1>13, <2>1
    <3> QED BY <1>1, <1>3, <1>4, <1>5, <2>1, <3>1
  <2>2. CASE h = g /\ ~Lost
    BY <1>1, <1>7, <2>2
  <2>3. CASE h # g
    <3>1. net_lost'[h] = net_lost[h] /\ Waits(h)' = Waits(h) /\ Came(h)' = Came(h)
      BY <1>3, <1>7, <1>13, <2>3
    <3>2. cur'.frame # h
      BY <1>1, <1>4, <2>3
    <3> QED BY <3>1, <3>2 DEF IInv, NetInv
  <2> QED BY <2>1, <2>2, <2>3
<1>15. NoneDisappears'
  <2> SUFFICES ASSUME NEW h \in Frames, 0 \in Came(h), Ended(h)
               PROVE  Leaves(h)' # {} \/ Waits(h)'
                      \/ net_lost'[h] = Count[h] - Cardinality(Came(h))
    BY <1>3 DEF NoneDisappears
  <2>1. CASE h # g
    <3>1. Leaves(h)' = Leaves(h) /\ Waits(h)' = Waits(h) /\ net_lost'[h] = net_lost[h]
          /\ ~Ending(h)
      BY <1>1, <1>7, <1>13, <2>1 DEF Ending
    <3> QED BY <3>1 DEF IInv, NoneDisappears
  <2>2. CASE h = g /\ Leaving
    BY <2>2 DEF GoneAsSent
  <2>3. CASE h = g /\ Set
    <3>1. Len(zombies) + 1 \in DOMAIN zombies' /\ zombies'[Len(zombies) + 1].frame = g
      BY <1>6, <2>3
    <3> QED BY <2>3, <3>1 DEF Waits
  <2>4. CASE h = g /\ Lost
    BY <1>1, <2>4, CountedFacts
  <2> QED BY <1>1, <2>1, <2>2, <2>3, <2>4
<1>16. Repaired(g)' \/ in_time' = in_time
  <2> SUFFICES ASSUME storing = 0, g \in fec, 0 \in Came(g), Cardinality(Came(g)) = Count[g] - 1
               PROVE  \E i \in Leaves(g)' : Whole(i)'
    BY <1>2, <1>3 DEF Repaired
  <2>1. Missed(f) = 1
    <3>1. Missed(f) = Count[g] - Cardinality(Came(g)) /\ Count[g] \in Nat
      BY <1>1, GapFacts, FrameFacts DEF Held
    <3> QED BY <3>1
  <2>2. Healable(f, fec) /\ Lookups = {fec}
    BY <1>1, <2>1 DEF Healable, Lookups, Held
  <2>3. ~CannotEmit(f)
    BY <2>2 DEF CannotEmit
  <2>4. GoneAsSent(g)
    BY <1>1, <2>3
  <2>5. PICK i \in Leaves(g)' : out'[i].units = Restored(g)
    BY <2>4 DEF GoneAsSent
  <2>6. Restored(g)' = Restored(g) /\ out'[i].frame = g
    BY <1>1, <2>5 DEF Steady, Restored, Leaves
  <2>7. Whole(i)'
    BY <2>5, <2>6, Zenon DEF Whole
  <2> QED BY <2>7
<1>17. TimeInv' /\ InnerLossRepaired'
  <2>1. \A h \in in_time : h \in Frames /\ Ended(h)' /\ Repaired(h)'
    BY <1>1, RepairedBefore
  <2>2. \A h \in in_time' : h \in in_time \/ (h = g /\ Ended(g)' /\ Repaired(g)')
    BY <1>1, <1>2, <1>3, <1>16
  <2>3. \A h \in in_time' : Ended(h)' /\ Repaired(h)'
    BY <2>1, <2>2
  <2> QED BY <2>3 DEF TimeInv, InnerLossRepaired, Repaired
<1> QED BY <1>1, <1>8, <1>9, <1>10, <1>11, <1>12, <1>14, <1>15, <1>17 DEF IInv

-----------------------------------------------------------------------------
\* What is where once a zombie is gone.
Old(i, j) == IF j < i THEN j ELSE j + 1

LEMMA WithoutFacts ==
    ASSUME zombies \in Seq(FrameState), NEW i \in DOMAIN zombies, zombies' = Without(i)
    PROVE  /\ zombies' \in Seq(FrameState)
           /\ Len(zombies) \in Nat /\ Len(zombies') = Len(zombies) - 1
           /\ DOMAIN zombies = 1..Len(zombies)
           /\ \A j \in DOMAIN zombies' : /\ Old(i, j) \in DOMAIN zombies \ {i}
                                         /\ zombies'[j] = zombies[Old(i, j)]
           /\ \A j, k \in DOMAIN zombies' : Old(i, j) = Old(i, k) => j = k
           /\ \A k \in DOMAIN zombies \ {i} :
                  \E j \in DOMAIN zombies' : zombies'[j] = zombies[k]
<1> DEFINE n == Len(zombies)
<1>1. n \in Nat /\ DOMAIN zombies = 1..n /\ i \in 1..n
      /\ \A j \in 1..n : zombies[j] \in FrameState
  BY LenProperties, ElementOfSeq
<1>2. \A j \in 1..(n - 1) : Old(i, j) \in (1..n) \ {i}
  BY <1>1 DEF Old
<1> HIDE DEF n
<1>3. zombies' = [j \in 1..(n - 1) |-> zombies[Old(i, j)]]
  BY <1>1 DEF Without, Old, n
<1>4. zombies' \in Seq(FrameState) /\ Len(zombies') = n - 1
  <2>1. n - 1 \in Nat
    BY <1>1
  <2>2. zombies' \in [1..(n - 1) -> FrameState]
    BY <1>1, <1>2, <1>3
  <2> DEFINE m == n - 1
  <2>3. m \in Nat /\ zombies' \in [1..m -> FrameState]
    BY <2>1, <2>2
  <2> HIDE DEF m
  <2>4. zombies' \in Seq(FrameState) /\ Len(zombies') = m
    BY <2>3
  <2> QED BY <2>4 DEF m
<1>5. DOMAIN zombies' = 1..(n - 1)
  BY <1>3
<1>6. \A j, k \in 1..(n - 1) : Old(i, j) = Old(i, k) => j = k
  BY <1>1 DEF Old
<1>7. ASSUME NEW k \in DOMAIN zombies \ {i}
      PROVE  \E j \in DOMAIN zombies' : zombies'[j] = zombies[k]
  <2>1. CASE k < i
    <3>1. k \in 1..(n - 1) /\ Old(i, k) = k
      BY <1>1, <2>1 DEF Old
    <3> QED BY <1>3, <1>5, <3>1
  <2>2. CASE ~(k < i)
    <3>1. k - 1 \in 1..(n - 1) /\ Old(i, k - 1) = k
      BY <1>1, <2>2 DEF Old
    <3> QED BY <1>3, <1>5, <3>1
  <2> QED BY <2>1, <2>2
<1> QED BY <1>1, <1>2, <1>3, <1>4, <1>5, <1>6, <1>7 DEF n

\* A zombie goes when it is repaired or given up.
LEMMA ZombieGoes ==
    ASSUME IInv, NEW i \in DOMAIN zombies, it = i, NEW f, f = zombies[i],
           at = "expiring", zombies' = Without(i),
           UNCHANGED <<popped, cur, at, it, storing, awaited, in_time>>,
           EmitsHealed(f) \/ (CannotEmit(f) /\ GivesUp(f))
    PROVE  IInv'
<1> DEFINE g == f.frame
<1>1. Held(f) /\ g \in Frames /\ Came(g) # {} /\ Ended(g) /\ ~Gapless(g)
  <2>1. /\ Begun(f) /\ f.raws = Came(g) /\ f \in FrameState /\ f.marker_seen
        /\ Ended(g) /\ ~Gapless(g)
    BY HeldFacts
  <2>2. f.marker_seen = Ended(g)
    BY <2>1 DEF FrameState, Ended
  <2> QED BY <2>1, <2>2 DEF Held, Begun
<1>2. /\ cur.frame # g /\ Leaves(g) = {}
      /\ \A j \in DOMAIN zombies : zombies[j].frame = g => i = j
  BY <1>1 DEF IInv, ZombieInv
<1>3. net_lost[g] = 0
  BY <1>1 DEF IInv, NetInv, Waits
<1>4. \A h : Came(h)' = Came(h) /\ Ended(h)' = Ended(h) /\ Gapless(h)' = Gapless(h)
  BY DEF Came, Ended, Gapless
<1>5. fec' \subseteq fec
  BY DEF EmitsHealed, CannotEmit, Consumed
<1>6. Steady
  BY <1>4, <1>5 DEF Steady, Usable
<1>7. /\ OutInv' /\ OutGrows /\ \A h : h # g => Leaves(h)' = Leaves(h)
      /\ GoneAsSent(g) \/ (GivesUp(f) /\ CannotEmit(f))
  <2>1. CASE EmitsHealed(f)
    <3>1. GoneAsSent(g)
      BY <1>1, <1>6, <2>1, HealedLeaves
    <3> QED BY <3>1 DEF GoneAsSent, OutGrows
  <2>2. CASE CannotEmit(f) /\ GivesUp(f)
    <3>1. out' = out
      BY <2>2 DEF CannotEmit
    <3> QED BY <1>6, <2>2, <3>1, NothingLeaves DEF OutGrows, Leaves
  <2> QED BY <2>1, <2>2
<1>8. /\ net_lost' \in [Frames -> Nat]
      /\ \A h \in Frames : h # g => net_lost'[h] = net_lost[h]
  <2>1. CASE EmitsHealed(f)
    BY <2>1 DEF EmitsHealed, IInv, TypeOK
  <2>2. CASE GivesUp(f)
    BY <1>1, <1>3, <2>2, CountedFacts
  <2> QED BY <2>1, <2>2
<1>9. /\ zombies' \in Seq(FrameState)
      /\ Len(zombies) \in Nat /\ Len(zombies') = Len(zombies) - 1
      /\ DOMAIN zombies = 1..Len(zombies)
      /\ \A j \in DOMAIN zombies' : /\ Old(i, j) \in DOMAIN zombies \ {i}
                                    /\ zombies'[j] = zombies[Old(i, j)]
      /\ \A j, k \in DOMAIN zombies' : Old(i, j) = Old(i, k) => j = k
      /\ \A k \in DOMAIN zombies \ {i} :
             \E j \in DOMAIN zombies' : zombies'[j] = zombies[k]
  BY WithoutFacts DEF IInv, TypeOK
<1>10. ~Waits(g)' /\ \A h : h # g => Waits(h)' = Waits(h)
  <2>1. ~Waits(g)'
    BY <1>2, <1>9 DEF Waits
  <2>2. ASSUME NEW h, h # g PROVE Waits(h)' = Waits(h)
    <3>1. Waits(h)' => Waits(h)
      BY <1>9 DEF Waits
    <3>2. ASSUME NEW k \in DOMAIN zombies, zombies[k].frame = h PROVE Waits(h)'
      <4>1. PICK j \in DOMAIN zombies' : zombies'[j] = zombies[k]
        BY <1>9, <2>2, <3>2
      <4> QED BY <3>2, <4>1 DEF Waits
    <3>3. Waits(h) => Waits(h)'
      BY <3>2 DEF Waits
    <3>4. Waits(h) \in BOOLEAN /\ Waits(h)' \in BOOLEAN
      BY DEF Waits
    <3> QED BY <3>1, <3>3, <3>4
  <2> QED BY <2>1, <2>2
<1>11. TypeOK'
  <2>1. fec' \subseteq Frames /\ Cardinality(fec') <= FecLimit
    BY <1>5, FecShrinks DEF IInv
  <2>2. it' \in 1..(Len(zombies') + 1)
    BY <1>9
  <2> QED BY <1>8, <1>9, <2>1, <2>2 DEF IInv, TypeOK
<1>12. CurInv' /\ EndInv' /\ PassedInv' /\ FecInv'
  BY <1>4, <1>5 DEF IInv, CurInv, EndInv, PassedInv, FecInv
<1>13. ZombieInv'
  <2> SUFFICES ASSUME NEW h \in Frames, NEW j \in DOMAIN zombies', zombies'[j].frame = h
               PROVE  /\ zombies'[j].raws = Came(h) /\ zombies'[j].marker_seen
                      /\ Ended(h) /\ ~Gapless(h)
                      /\ cur.frame # h /\ Leaves(h)' = {}
                      /\ \A k \in DOMAIN zombies' : zombies'[k].frame = h => j = k
    BY <1>4 DEF ZombieInv
  <2>1. Old(i, j) \in DOMAIN zombies /\ Old(i, j) # i /\ zombies'[j] = zombies[Old(i, j)]
    BY <1>9
  <2>2. /\ zombies[Old(i, j)].raws = Came(h) /\ zombies[Old(i, j)].marker_seen
        /\ Ended(h) /\ ~Gapless(h) /\ cur.frame # h /\ Leaves(h) = {}
        /\ \A k \in DOMAIN zombies : zombies[k].frame = h => Old(i, j) = k
    BY <2>1 DEF IInv, ZombieInv
  <2>3. h # g
    BY <1>2, <2>1
  <2>4. ASSUME NEW k \in DOMAIN zombies', zombies'[k].frame = h PROVE j = k
    <3>1. Old(i, k) \in DOMAIN zombies /\ zombies[Old(i, k)].frame = h
      BY <1>9, <2>4
    <3> QED BY <1>9, <2>2, <3>1
  <2> QED BY <1>7, <2>1, <2>2, <2>3, <2>4
<1>14. NetInv'
  <2> SUFFICES ASSUME NEW h \in Frames, cur.frame = h \/ Waits(h)' \/ Came(h) = {}
               PROVE  net_lost'[h] = 0
    BY <1>4 DEF NetInv
  <2>1. h # g
    BY <1>1, <1>2, <1>10
  <2> QED BY <1>8, <1>10, <2>1 DEF IInv, NetInv
<1>15. NoneDisappears'
  <2> SUFFICES ASSUME NEW h \in Frames, 0 \in Came(h), Ended(h)
               PROVE  Leaves(h)' # {} \/ Waits(h)'
                      \/ net_lost'[h] = Count[h] - Cardinality(Came(h))
    BY <1>4 DEF NoneDisappears
  <2>1. CASE h # g
    <3>1. Leaves(h)' = Leaves(h) /\ Waits(h)' = Waits(h) /\ net_lost'[h] = net_lost[h]
          /\ ~Ending(h)
      BY <1>7, <1>8, <1>10, <2>1 DEF Ending
    <3> QED BY <3>1 DEF IInv, NoneDisappears
  <2>2. CASE h = g /\ GoneAsSent(g)
    BY <2>2 DEF GoneAsSent
  <2>3. CASE h = g /\ GivesUp(f)
    BY <1>1, <1>3, <2>3, CountedFacts
  <2> QED BY <1>7, <2>1, <2>2, <2>3
<1>16. TimeInv' /\ InnerLossRepaired'
  BY <1>6, <1>7, RepairedStays
<1> QED BY <1>7, <1>11, <1>12, <1>13, <1>14, <1>15, <1>16 DEF IInv

\* Steps in which no frame comes, leaves or is given up.
LEMMA NothingHappens ==
    ASSUME IInv, TypeOK', FecInv', UNCHANGED <<popped, net_lost, out, in_time>>,
           cur' = NotStarted <=> cur = NotStarted,
           cur'.frame = cur.frame, cur'.raws = cur.raws, cur'.marker_seen = cur.marker_seen,
           DOMAIN zombies' = DOMAIN zombies,
           \A i \in DOMAIN zombies : /\ zombies'[i].frame = zombies[i].frame
                                     /\ zombies'[i].raws = zombies[i].raws
                                     /\ zombies'[i].marker_seen = zombies[i].marker_seen,
           at' = "ending" <=> at = "ending",
           \A g \in Frames : Usable(g)' => Usable(g)
    PROVE  IInv'
<1>1. \A h : /\ Came(h)' = Came(h) /\ Ended(h)' = Ended(h) /\ Gapless(h)' = Gapless(h)
             /\ Leaves(h)' = Leaves(h)
  BY DEF Came, Ended, Gapless, Leaves
<1>2. \A h : Waits(h)' = Waits(h) /\ Ending(h)' = Ending(h)
  BY DEF Waits, Ending
<1>3. Steady /\ OutGrows
  BY <1>1 DEF Steady, OutGrows
<1>4. OutInv'
  BY <1>3, NothingLeaves
<1>5. CurInv' /\ EndInv' /\ PassedInv'
  BY <1>1 DEF IInv, CurInv, EndInv, PassedInv
<1>6. ZombieInv'
  BY <1>1 DEF IInv, ZombieInv
<1>7. NetInv' /\ NoneDisappears'
  BY <1>1, <1>2 DEF IInv, NetInv, NoneDisappears
<1>8. TimeInv' /\ InnerLossRepaired'
  BY <1>3, RepairedStays
<1> QED BY <1>4, <1>5, <1>6, <1>7, <1>8 DEF IInv

\* A frame grows older and stays what it is otherwise.
LEMMA OlderFacts ==
    ASSUME NEW f \in FrameState
    PROVE  /\ Older(f) \in FrameState
           /\ Older(f).frame = f.frame /\ Older(f).raws = f.raws
           /\ Older(f).marker_seen = f.marker_seen
<1> DEFINE a == IF f.age <= GiveUpAge THEN f.age + 1 ELSE f.age
<1>1. a \in 0..(GiveUpAge + 1)
  BY LimitAssumption DEF FrameState
<1>2. Older(f) = [f EXCEPT !.age = a]
  BY DEF Older
<1> HIDE DEF a
<1> QED BY <1>1, <1>2 DEF FrameState

LEMMA TickKeeps ==
    ASSUME IInv, Tick
    PROVE  IInv'
<1>1. /\ UNCHANGED <<popped, at, it, fec, storing, awaited, net_lost, out, in_time>>
      /\ cur' = IF cur = NotStarted THEN cur ELSE Older(cur)
      /\ zombies' = [i \in DOMAIN zombies |-> Older(zombies[i])]
  BY DEF Tick
<1>2. /\ cur' = NotStarted <=> cur = NotStarted
      /\ cur'.frame = cur.frame /\ cur'.raws = cur.raws
      /\ cur'.marker_seen = cur.marker_seen
      /\ cur' \in FrameState \cup {NotStarted}
  <2>1. CASE cur = NotStarted
    BY <1>1, <2>1
  <2>2. CASE cur # NotStarted
    <3>1. cur \in FrameState /\ cur.frame \in Frames
      BY <2>2, HeldFacts DEF Begun
    <3>2. cur' = Older(cur) /\ cur.frame # 0
      BY <1>1, <2>2, <3>1, FrameFacts
    <3>3. cur' # NotStarted
      BY <3>1, <3>2, OlderFacts DEF NotStarted
    <3> QED BY <2>2, <3>1, <3>2, <3>3, OlderFacts
  <2> QED BY <2>1, <2>2
<1>3. \A i \in DOMAIN zombies : zombies[i] \in FrameState
  BY HeldFacts
<1>4. DOMAIN zombies' = DOMAIN zombies /\ \A i \in DOMAIN zombies : zombies'[i] = Older(zombies[i])
  BY <1>1
<1>5. \A i \in DOMAIN zombies : /\ zombies'[i] \in FrameState
                                /\ zombies'[i].frame = zombies[i].frame
                                /\ zombies'[i].raws = zombies[i].raws
                                /\ zombies'[i].marker_seen = zombies[i].marker_seen
  BY <1>3, <1>4, OlderFacts
<1>6. zombies' \in Seq(FrameState) /\ Len(zombies') = Len(zombies)
  <2> DEFINE n == Len(zombies)
  <2>1. n \in Nat /\ DOMAIN zombies = 1..n
    BY LenProperties DEF IInv, TypeOK
  <2> HIDE DEF n
  <2>2. zombies' \in [1..n -> FrameState]
    BY <1>1, <1>4, <1>5, <2>1
  <2> QED BY <2>1, <2>2 DEF n
<1>7. TypeOK'
  BY <1>1, <1>2, <1>6 DEF IInv, TypeOK
<1>8. FecInv' /\ \A g \in Frames : Usable(g)' => Usable(g)
  BY <1>1 DEF IInv, FecInv, Usable
<1> QED BY <1>1, <1>2, <1>4, <1>5, <1>7, <1>8, NothingHappens

\* The oldest entry makes room for a new one.
LEMMA RoomFacts ==
    ASSUME TypeOK, NEW g \in Frames
    PROVE  /\ RoomMade(fec \cup {g}) \subseteq fec \cup {g}
           /\ Cardinality(RoomMade(fec \cup {g})) <= FecLimit
<1> DEFINE E == fec \cup {g}
<1>1. IsFiniteSet(E) /\ Cardinality(E) \in Nat /\ Cardinality(E) <= FecLimit + 1
  <2>1. IsFiniteSet(Frames)
    BY FramesAssumption, FS_Interval DEF Frames
  <2>2. IsFiniteSet(fec)
    BY <2>1, FS_Subset DEF TypeOK
  <2>3. IsFiniteSet(E) /\ (Cardinality(E) = Cardinality(fec) \/ Cardinality(E) = Cardinality(fec) + 1)
    BY <2>2, FS_AddElement
  <2>4. Cardinality(fec) \in Nat /\ Cardinality(E) \in Nat
    BY <2>2, <2>3, FS_CardinalityType
  <2> QED BY <2>3, <2>4, LimitAssumption DEF TypeOK
<1>2. CASE Cardinality(E) > FecLimit
  <2>1. Min(E) \in E
    <3>1. NFrames \in Nat /\ E \in SUBSET (0..NFrames) /\ E # {}
      BY FramesAssumption DEF TypeOK, Frames
    <3> HIDE DEF E
    <3> QED BY <3>1, ExtremeFacts
  <2>2. Cardinality(E \ {Min(E)}) = Cardinality(E) - 1
    BY <1>1, <2>1, FS_RemoveElement
  <2> QED BY <1>1, <1>2, <2>2, LimitAssumption DEF RoomMade
<1>3. CASE ~(Cardinality(E) > FecLimit)
  BY <1>1, <1>3, LimitAssumption DEF RoomMade
<1> QED BY <1>2, <1>3

-----------------------------------------------------------------------------
LEMMA InitInv == Init => IInv
<1> SUFFICES ASSUME Init PROVE IInv
  OBVIOUS
<1> USE DEF Init
<1>1. Cardinality({}) = 0 /\ 0 \notin Frames
  BY FS_EmptySet, FrameFacts
<1>2. TypeOK
  BY <1>1, LimitAssumption DEF TypeOK
<1>3. CurInv /\ EndInv /\ PassedInv /\ ZombieInv /\ TimeInv /\ InnerLossRepaired
  BY DEF CurInv, EndInv, PassedInv, ZombieInv, TimeInv, InnerLossRepaired
<1>4. FecInv /\ NetInv /\ NoneDisappears
  BY <1>1 DEF FecInv, NetInv, NoneDisappears, Ended
<1>5. \A g : Leaves(g) = {}
  BY DEF Leaves
<1>6. OutType
  BY DEF OutType
<1>7. OutInv
  BY <1>5, <1>6 DEF OutInv, LeftInv, TwiceInv, OrderInv, WholeInv
<1> QED BY <1>2, <1>3, <1>4, <1>7 DEF IInv

LEMMA NextInv == IInv /\ [Next]_vars => IInv'
<1> SUFFICES ASSUME IInv, [Next]_vars PROVE IInv'
  OBVIOUS
<1>1. ASSUME NEW p \in Packets, Pop(p) PROVE IInv'
  BY <1>1, PopKeeps
<1>2. CASE Ends
  BY <1>2, EndsKeeps
<1>3. CASE HealsZombie
  <2>1. PICK i, f : it = i /\ f = zombies[i]
    OBVIOUS
  <2>2. i \in DOMAIN zombies /\ zombies' = Without(i) /\ EmitsHealed(f)
    BY <1>3, <2>1 DEF HealsZombie
  <2> QED BY <1>3, <2>1, <2>2, ZombieGoes DEF HealsZombie
<1>4. CASE PassesZombie
  <2>1. PICK i, f : it = i /\ f = zombies[i]
    OBVIOUS
  <2>2. i \in DOMAIN zombies /\ CannotEmit(f)
    BY <1>4, <2>1 DEF PassesZombie
  <2>3. CASE GivesUp(f) /\ zombies' = Without(i) /\ UNCHANGED it
    BY <1>4, <2>1, <2>2, <2>3, ZombieGoes DEF PassesZombie
  <2>4. CASE it' = it + 1 /\ UNCHANGED <<net_lost, zombies>>
    <3>1. UNCHANGED <<popped, cur, zombies, at, fec, storing, awaited, net_lost, out, in_time>>
      BY <1>4, <2>2, <2>4 DEF PassesZombie, CannotEmit
    <3>2. it' \in 1..(Len(zombies) + 1)
      <4>1. Len(zombies) \in Nat /\ DOMAIN zombies = 1..Len(zombies)
        BY LenProperties DEF IInv, TypeOK
      <4> QED BY <2>1, <2>2, <2>4, <4>1
    <3>3. TypeOK'
      BY <3>1, <3>2 DEF IInv, TypeOK
    <3> QED BY <3>1, <3>3, NothingHappens DEF IInv, FecInv, Usable
  <2> QED BY <1>4, <2>1, <2>3, <2>4 DEF PassesZombie
<1>5. CASE ExpireEnds
  <2>1. Len(zombies) \in Nat
    BY LenProperties DEF IInv, TypeOK
  <2>2. TypeOK' /\ FecInv'
    BY <1>5, <2>1 DEF ExpireEnds, IInv, TypeOK, FecInv
  <2> QED BY <1>5, <2>2, NothingHappens DEF ExpireEnds, Usable
<1>6. ASSUME NEW g \in Frames, StoreBegins(g) PROVE IInv'
  <2>1. g # 0
    BY FrameFacts
  <2>2. TypeOK' /\ FecInv'
    BY <1>6, <2>1 DEF StoreBegins, IInv, TypeOK, FecInv
  <2> QED BY <1>6, <2>2, NothingHappens DEF StoreBegins, Usable
<1>7. CASE StoreEnds
  <2>1. storing \in Frames
    BY <1>7 DEF StoreEnds, IInv, TypeOK
  <2>2. fec' \subseteq fec \cup {storing} /\ Cardinality(fec') <= FecLimit
    BY <1>7, <2>1, RoomFacts DEF StoreEnds, IInv
  <2>3. TypeOK'
    BY <1>7, <2>1, <2>2 DEF StoreEnds, IInv, TypeOK
  <2>4. FecInv'
    <3>1. 0 \notin Frames
      BY FrameFacts
    <3> QED BY <1>7, <2>1, <2>2, <2>3, <3>1 DEF StoreEnds, IInv, FecInv, TypeOK
  <2>5. \A g \in Frames : Usable(g)' => Usable(g)
    <3>1. 0 \notin Frames
      BY FrameFacts
    <3> QED BY <1>7, <2>2, <3>1 DEF StoreEnds, Usable
  <2> QED BY <1>7, <2>3, <2>4, <2>5, NothingHappens DEF StoreEnds
<1>8. CASE Tick
  BY <1>8, TickKeeps
<1>9. CASE UNCHANGED vars
  <2>1. TypeOK' /\ FecInv'
    BY <1>9 DEF vars, IInv, TypeOK, FecInv
  <2> QED BY <1>9, <2>1, NothingHappens DEF vars, Usable
<1> QED BY <1>1, <1>2, <1>3, <1>4, <1>5, <1>6, <1>7, <1>8, <1>9 DEF Next

LEMMA AlwaysIInv == Spec => []IInv
<1> QED BY InitInv, NextInv, PTL DEF Spec

-----------------------------------------------------------------------------
\* The variables have their types: fec_ never holds more than its limit.
THEOREM TypeCorrect == Spec => []TypeOK
<1>1. IInv => TypeOK
  BY DEF IInv
<1> QED BY <1>1, AlwaysIInv, PTL

\* emit pushes what rtp_server.h sent, if the frame's first packet came, whether the
\* other packets came too or fec_recover brought one of them back.
THEOREM AlwaysIntact == Spec => []Intact
<1>1. IInv => Intact
  <2> SUFFICES ASSUME IInv, NEW i \in DOMAIN out, 0 \in Came(out[i].frame) PROVE Whole(i)
    BY DEF Intact
  <2>1. out[i].frame \in Frames /\ i \in Leaves(out[i].frame)
    BY DEF IInv, OutInv, LeftInv, Leaves
  <2> QED BY <2>1 DEF IInv, OutInv, WholeInv, Whole
<1> QED BY <1>1, AlwaysIInv, PTL

\* finalize_frame and expire_zombies lose no frame of which both ends came: it leaves,
\* waits, or net_lost has grown by exactly what it misses.
THEOREM AlwaysNoneDisappears == Spec => []NoneDisappears
<1>1. IInv => NoneDisappears
  BY DEF IInv
<1> QED BY <1>1, AlwaysIInv, PTL

\* finalize_frame repairs a frame that lacks one packet inside and has its parity
\* packet in fec_.
THEOREM AlwaysInnerLossRepaired == Spec => []InnerLossRepaired
<1>1. IInv => InnerLossRepaired
  BY DEF IInv
<1> QED BY <1>1, AlwaysIInv, PTL

\* What leaves twice left from cur_ without a gap, and what leaves behind a newer frame
\* comes from zombies_.
THEOREM AlwaysOutputOrder == Spec => []OutputOrder
<1>1. IInv => OutputOrder
  <2> SUFFICES ASSUME IInv, NEW i \in DOMAIN out, NEW j \in DOMAIN out, i < j
               PROVE  /\ out[i].frame = out[j].frame =>
                            /\ Gapless(out[i].frame)
                            /\ Cardinality(Leaves(out[i].frame)) = 2
                      /\ out[i].frame > out[j].frame => ~Gapless(out[j].frame)
    BY DEF OutputOrder
  <2> DEFINE g == out[i].frame
             h == out[j].frame
  <2>1. g \in Frames /\ h \in Frames /\ i \in Leaves(g) /\ j \in Leaves(h)
    BY DEF IInv, OutInv, LeftInv, Leaves
  <2>2. i # j
    <3>1. DOMAIN out = 1..Len(out)
      BY LenProperties DEF IInv, OutInv, OutType
    <3> QED BY <3>1
  <2>3. ASSUME g = h PROVE Gapless(g) /\ Cardinality(Leaves(g)) = 2
    <3>1. Gapless(g) /\ \A k \in Leaves(g) : k = i \/ k = j
      BY <2>1, <2>2, <2>3 DEF IInv, OutInv, TwiceInv
    <3>2. Leaves(g) = {i, j}
      BY <2>1, <2>3, <3>1
    <3>3. IsFiniteSet({i}) /\ Cardinality({i}) = 1 /\ j \notin {i}
      BY <2>2, FS_Singleton
    <3>4. Cardinality({i} \cup {j}) = 1 + 1
      BY <3>3, FS_AddElement
    <3>5. {i, j} = {i} \cup {j}
      OBVIOUS
    <3> QED BY <3>1, <3>2, <3>4, <3>5
  <2>4. ASSUME g > h PROVE ~Gapless(h)
    BY <2>1, <2>4 DEF IInv, OutInv, OrderInv
  <2> QED BY <2>3, <2>4
<1> QED BY <1>1, AlwaysIInv, PTL
=============================================================================
