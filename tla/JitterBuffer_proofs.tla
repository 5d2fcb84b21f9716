------------------------ MODULE JitterBuffer_proofs ------------------------
(***************************************************************************)
(* Theorems about JitterBuffer, for every value of its constants.          *)
(***************************************************************************)
EXTENDS JitterBuffer, FiniteSetTheorems, TLAPS

(* Facts about sequence numbers and sets of them. *)

\* Any set of sequence numbers is finite and has a size.
LEMMA SeqsFinite ==
    ASSUME NEW S \in SUBSET Seqs
    PROVE  IsFiniteSet(S) /\ Cardinality(S) \in Nat
<1>1. 0 \in Int /\ SeqMod - 1 \in Int
  BY SeqAssumption DEF SeqMod
<1>2. IsFiniteSet(Seqs)
  BY <1>1, FS_Interval DEF Seqs
<1>3. QED
  BY <1>2, FS_Subset, FS_CardinalityType

\* Zero is a sequence number, and the number after one is one.
LEMMA SuccType == 0 \in Seqs /\ \A s \in Seqs : Succ(s) \in Seqs
  BY SeqAssumption DEF Succ, Seqs, SeqMod

\* Every unit is sent with a sequence number of the buffer's range.
LEMMA WireSeqType ==
    ASSUME NEW i \in Units
    PROVE  WireSeq(i) \in Seqs
<1>1. WireMod \in Nat /\ WireMod > 0 /\ WireMod <= SeqMod
  BY SeqAssumption DEF SeqMod
<1>2. i % WireMod \in 0 .. WireMod - 1
  BY <1>1, SeqAssumption DEF Units
<1>3. QED
  BY <1>1, <1>2, SeqAssumption DEF WireSeq, Seqs, SeqMod

\* The difference of two sequence numbers is a natural number below SeqMod.
LEMMA DeltaType ==
    ASSUME NEW a \in Seqs, NEW b \in Seqs
    PROVE  Delta(a, b) \in Nat /\ Delta(a, b) < SeqMod
  BY SeqAssumption DEF Delta, Seqs, SeqMod

\* A non-empty set of sequence numbers has a smallest element.
LEMMA MinOfSeqs ==
    ASSUME NEW S \in SUBSET Seqs, S # {}
    PROVE  Min(S) \in S /\ \A s \in S : Min(S) <= s
<1> DEFINE less == OpToRel(<, Nat)
<1>1. S \subseteq Nat
  BY SeqAssumption DEF Seqs, SeqMod
<1>2. \A x, y \in Nat : x < y => <<x, y>> \in less
  BY DEF OpToRel
<1> HIDE DEF less
<1>3. \E x \in S : \A y \in S : <<y, x>> \notin less
  <2>1. IsWellFoundedOn(less, Nat)
    BY NatLessThanWellFounded DEF less
  <2>2. QED
    BY <1>1, <2>1, WFMin, Zenon
<1>4. \E x \in S : \A y \in S : x <= y
  <2>1. PICK x \in S : \A y \in S : <<y, x>> \notin less
    BY <1>3
  <2>2. \A y \in S : ~(y < x)
    BY <1>1, <1>2, <2>1, Zenon
  <2>3. QED
    BY <1>1, <2>2
<1>5. QED
  BY <1>4 DEF Min

-----------------------------------------------------------------------------
(* Facts about the buffer's contents. *)

Entries == [unit : Units, held : 0..MaxDelay]
IsBuffer(b) == DOMAIN b \subseteq Seqs /\ b \in [DOMAIN b -> Entries]

\* Inserting a unit gives a buffer whose numbers are the old ones and the new.
LEMMA InsertFacts ==
    ASSUME NEW b, IsBuffer(b), NEW s \in Seqs, NEW i \in Units
    PROVE  /\ IsBuffer(Insert(b, s, i))
           /\ DOMAIN Insert(b, s, i) = DOMAIN b \cup {s}
           /\ \A n \in DOMAIN b : Insert(b, s, i)[n].unit = b[n].unit
           /\ s \notin DOMAIN b => Insert(b, s, i)[s].unit = i
<1>1. 0 \in 0..MaxDelay
  BY DelayAssumption
<1>2. QED
  BY <1>1 DEF Insert, IsBuffer, Entries

\* Restricting a buffer to some of its numbers gives a buffer.
LEMMA RestrictFacts ==
    ASSUME NEW b, IsBuffer(b), NEW S \in SUBSET (DOMAIN b)
    PROVE  /\ IsBuffer(Restrict(b, S))
           /\ DOMAIN Restrict(b, S) = S
           /\ \A n \in S : Restrict(b, S)[n].unit = b[n].unit
  BY DEF IsBuffer, Restrict

\* Eviction gives a buffer with some of the old numbers.
LEMMA EvictFacts ==
    ASSUME NEW b, IsBuffer(b)
    PROVE  /\ IsBuffer(Evict(b))
           /\ DOMAIN Evict(b) \subseteq DOMAIN b
           /\ \A n \in DOMAIN Evict(b) : Evict(b)[n].unit = b[n].unit
  BY RestrictFacts DEF Evict

-----------------------------------------------------------------------------
(* Type correctness. *)

\* What the NACK log may hold.
IsLog(l) == DOMAIN l \subseteq Seqs /\ l \in [DOMAIN l -> 0..NackInterval]

\* Reporting holes asks for some of them and leaves a well-formed log.
LEMMA NackFacts ==
    ASSUME NEW log, IsLog(log), NEW from \in Seqs, NEW S \in SUBSET Seqs
    PROVE  IsLog(NackLog(from, log, S)) /\ Nacked(from, log, S) \subseteq Seqs
<1>1. 0 \in 0..NackInterval
  BY DelayAssumption
<1>2. Due(S, log) \subseteq S
  BY DEF Due
<1>3. \A n : After(from, n, S) \subseteq S
  BY DEF After
<1>4. IsLog(Logged(log, Due(S, log)))
  BY <1>1, <1>2 DEF IsLog, Logged
<1>5. IsLog([m \in UNION {After(from, n, S) : n \in Overflows(from, log, S)} |-> 0])
  BY <1>1, <1>3 DEF IsLog
<1>6. IsLog(NackLog(from, log, S))
  BY <1>4, <1>5 DEF NackLog
<1>7. Nacked(from, log, S) \subseteq Seqs
  BY <1>2, <1>3 DEF Nacked
<1>8. QED
  BY <1>6, <1>7

\* TypeOK with its parts named.
LEMMA TypeParts ==
    TypeOK <=> /\ started \in BOOLEAN /\ stale \in BOOLEAN
               /\ next_out \in Seqs /\ asked \subseteq Seqs
               /\ IsBuffer(buf)
               /\ missing \in Unset .. MissingCap
               /\ since_pop \in 0 .. (MaxDelay + 1)
               /\ target \in MinDelay..MaxDelay
               /\ IsLog(nack_log)
               /\ net_lost \in Nat /\ evicted \in Nat
               /\ newest \in -1..LastUnit /\ last_out \in -1..LastUnit
  BY Zenon DEF TypeOK, IsBuffer, IsLog, Entries

\* The initial state is well typed.
LEMMA InitType == Init => TypeOK
<1> SUFFICES ASSUME Init PROVE TypeOK
  OBVIOUS
<1>1. started \in BOOLEAN /\ stale \in BOOLEAN
  BY Zenon DEF Init
<1>2. next_out \in Seqs /\ asked \subseteq Seqs
  BY SuccType DEF Init
<1>3. IsBuffer(buf) /\ IsLog(nack_log)
  BY DEF Init, IsBuffer, IsLog
<1>4. missing \in Unset .. MissingCap /\ target \in MinDelay..MaxDelay
  BY DelayAssumption DEF Init, MissingCap, Unset
<1>5. since_pop \in 0 .. (MaxDelay + 1) /\ net_lost \in Nat /\ evicted \in Nat
  BY DelayAssumption DEF Init
<1>6. newest \in -1..LastUnit /\ last_out \in -1..LastUnit
  BY SeqAssumption DEF Init
<1>7. QED
  BY <1>1, <1>2, <1>3, <1>4, <1>5, <1>6, TypeParts, Zenon

\* The newest unit that arrived stays a unit.
LEMMA ArrivesType ==
    ASSUME newest \in -1..LastUnit, NEW i \in Units, Arrives(i)
    PROVE  /\ newest' \in -1..LastUnit
           /\ newest' = IF i > newest THEN i ELSE newest
<1>1. Max({newest, i}) = IF i > newest THEN i ELSE newest
  BY SeqAssumption DEF Max, Units
<1>2. QED
  BY <1>1, SeqAssumption DEF Arrives, Units

\* push keeps the types.
LEMMA PushType ==
    ASSUME TypeOK, NEW i \in Units, Push(i)
    PROVE  TypeOK'
<1> USE TypeParts
<1>1. newest' \in -1..LastUnit
  BY ArrivesType DEF Push, PushRejected, PushAccepted, TypeOK
<1>2. CASE PushRejected(i)
  BY <1>1, <1>2 DEF PushRejected, TypeOK
<1>3. CASE PushAccepted(i)
  <2> DEFINE s      == WireSeq(i)
             from   == IF started THEN next_out ELSE s
             filled == Insert(buf, s, i)
             holes  == IF Realigns(s, from) THEN {} ELSE Absent(from, s, DOMAIN filled)
  <2>1. s \in Seqs /\ from \in Seqs
    BY WireSeqType DEF TypeOK
  <2>2. IsBuffer(filled)
    BY <2>1, InsertFacts, TypeParts
  <2>3. buf' = Evict(filled) /\ IsBuffer(buf')
    BY <1>3, <2>2, EvictFacts DEF PushAccepted
  <2>4. Cardinality(DOMAIN filled \ DOMAIN buf') \in Nat
    <3>1. DOMAIN filled \ DOMAIN buf' \in SUBSET Seqs
      BY <2>2 DEF IsBuffer
    <3>2. QED
      BY <3>1, SeqsFinite
  <2>5. holes \in SUBSET Seqs
    BY DEF Absent
  <2>6. started' \in BOOLEAN /\ stale' \in BOOLEAN
    BY <1>3, Zenon DEF PushAccepted
  <2>7. next_out' \in Seqs
    BY <1>3, <2>1 DEF PushAccepted
  <2>8. asked' \subseteq Seqs /\ IsLog(nack_log')
    BY <1>3, <2>1, <2>5, NackFacts, TypeParts, Zenon DEF PushAccepted
  <2>9. target' \in MinDelay..MaxDelay
    BY <1>3 DEF PushAccepted, Retune, TypeOK
  <2>10. net_lost' \in Nat /\ evicted' \in Nat
    BY <1>3, <2>4 DEF PushAccepted, TypeOK
  <2>11. UNCHANGED <<missing, since_pop, last_out>>
    BY <1>3 DEF PushAccepted
  <2>12. QED
    BY <1>1, <2>3, <2>6, <2>7, <2>8, <2>9, <2>10, <2>11 DEF TypeOK, IsBuffer, IsLog, Entries
<1>4. QED
  BY <1>2, <1>3 DEF Push

\* Handing out a buffered unit keeps the types of what it changes.
LEMMA ReleaseType ==
    ASSUME TypeOK, NEW s \in DOMAIN buf, Release(s)
    PROVE  /\ IsBuffer(buf') /\ next_out' \in Seqs
           /\ missing' \in Unset .. MissingCap
           /\ since_pop' \in 0 .. (MaxDelay + 1)
           /\ last_out' \in -1..LastUnit
           /\ DOMAIN buf' = DOMAIN buf \ {s}
<1>1. IsBuffer(buf) /\ s \in Seqs
  BY TypeParts DEF TypeOK
<1>2. IsBuffer(buf') /\ DOMAIN buf' = DOMAIN buf \ {s}
  BY <1>1, RestrictFacts DEF Release
<1>3. next_out' \in Seqs
  BY <1>1, SuccType DEF Release
<1>4. missing' \in Unset .. MissingCap /\ since_pop' \in 0 .. (MaxDelay + 1)
  BY DelayAssumption DEF Release, Unset, MissingCap
<1>5. last_out' \in -1..LastUnit
  BY <1>1, SeqAssumption DEF Release, IsBuffer, Entries, Units
<1>6. QED
  BY <1>2, <1>3, <1>4, <1>5

\* A gap is given up in favour of a number that is in the buffer.
LEMMA SkipToFacts ==
    ASSUME TypeOK, CanPop
    PROVE  SkipTo \in DOMAIN buf /\ \A s \in DOMAIN buf : SkipTo <= s
  BY MinOfSeqs DEF SkipTo, TypeOK, CanPop

\* pop keeps the types.
LEMMA PopType ==
    ASSUME TypeOK, Pop
    PROVE  TypeOK'
<1>1. CASE PopHead
  BY <1>1, ReleaseType DEF PopHead, TypeOK, IsBuffer, Entries
<1>2. CASE PopHolds
  BY <1>2, DelayAssumption DEF PopHolds, TypeOK, Unset, MissingCap
<1>3. CASE PopAsks
  BY <1>3, DelayAssumption DEF PopAsks, TypeOK, HeadMissing, Unset, MissingCap
<1>4. CASE PopSkips
  <2>1. SkipTo \in DOMAIN buf
    BY <1>4, SkipToFacts DEF PopSkips
  <2>2. LostBySkip(SkipTo) \in Nat
    BY <2>1, DeltaType DEF LostBySkip, TypeOK
  <2>3. net_lost' \in Nat
    BY <1>4, <2>2 DEF PopSkips, TypeOK
  <2>4. Release(SkipTo) /\ asked' = {}
        /\ UNCHANGED <<started, target, nack_log, newest, evicted, stale>>
    BY <1>4 DEF PopSkips
  <2>5. QED
    BY <2>1, <2>3, <2>4, ReleaseType DEF TypeOK, IsBuffer, Entries
<1>5. QED
  BY <1>1, <1>2, <1>3, <1>4 DEF Pop

\* An age grows within its bound.
LEMMA OlderType ==
    ASSUME NEW cap \in Nat, NEW age \in Unset .. cap
    PROVE  Older(age, cap) \in Unset .. cap /\ (age >= 0 => Older(age, cap) \in 0..cap)
  BY DEF Older, Unset

\* A tick keeps the types.
LEMMA TickType ==
    ASSUME TypeOK, Tick
    PROVE  TypeOK'
<1>1. MissingCap \in Nat /\ MaxDelay \in Nat /\ MaxDelay + 1 \in Nat /\ NackInterval \in Nat
  BY DelayAssumption DEF MissingCap
<1>2. IsBuffer(buf')
  <2>1. IsBuffer(buf) /\ DOMAIN buf' = DOMAIN buf
    BY TypeParts DEF Tick
  <2>2. ASSUME NEW s \in DOMAIN buf PROVE buf'[s] \in Entries
    <3>1. buf[s].unit \in Units /\ buf[s].held \in 0..MaxDelay
      BY <2>1 DEF IsBuffer, Entries
    <3>2. Older(buf[s].held, MaxDelay) \in 0..MaxDelay
      BY <1>1, <3>1 DEF Older
    <3>3. buf'[s] = [unit |-> buf[s].unit, held |-> Older(buf[s].held, MaxDelay)]
      BY <2>1 DEF Tick, IsBuffer, Entries
    <3>4. QED
      BY <3>1, <3>2, <3>3 DEF Entries
  <2>3. QED
    BY <2>1, <2>2 DEF IsBuffer, Tick
<1>3. missing' \in Unset .. MissingCap
  BY <1>1 DEF Tick, TypeOK, Older, Unset
<1>4. since_pop' \in 0 .. (MaxDelay + 1)
  BY <1>1 DEF Tick, TypeOK, Older
<1>5. IsLog(nack_log')
  BY <1>1 DEF Tick, TypeOK, IsLog, Older
<1>6. UNCHANGED <<started, next_out, target, net_lost, newest, last_out, evicted, stale>>
  BY DEF Tick
<1>7. asked' \subseteq Seqs
  BY DEF Tick
<1>8. /\ started' \in BOOLEAN /\ stale' \in BOOLEAN /\ next_out' \in Seqs
      /\ target' \in MinDelay..MaxDelay /\ net_lost' \in Nat /\ evicted' \in Nat
      /\ newest' \in -1..LastUnit /\ last_out' \in -1..LastUnit
  BY <1>6, Zenon DEF TypeOK
<1>9. QED
  BY <1>2, <1>3, <1>4, <1>5, <1>7, <1>8, Zenon DEF TypeOK, IsBuffer, IsLog, Entries

\* Every step keeps the types.
LEMMA NextType == TypeOK /\ [Next]_vars => TypeOK'
<1> SUFFICES ASSUME TypeOK, [Next]_vars PROVE TypeOK'
  OBVIOUS
<1>1. ASSUME NEW i \in Units, Push(i) PROVE TypeOK'
  BY <1>1, PushType
<1>2. CASE Pop
  BY <1>2, PopType
<1>3. CASE SetRtt
  BY <1>3 DEF SetRtt, TypeOK
<1>4. CASE Tick
  BY <1>4, TickType
<1>5. CASE UNCHANGED vars
  BY <1>5 DEF vars, TypeOK
<1>6. QED
  BY <1>1, <1>2, <1>3, <1>4, <1>5 DEF Next

\* Every variable of the jitter buffer keeps its type, whatever arrives.
THEOREM TypeCorrect == Spec => []TypeOK
  BY InitType, NextType, PTL DEF Spec

-----------------------------------------------------------------------------
(* The order of the output.  While the numbers do not wrap, a unit is its  *)
(* own number; what is buffered is never behind next_out, and the last     *)
(* unit delivered always is, unless a realignment left units behind.       *)

NoWrap == LastUnit < WireMod /\ LastUnit < Half

OrderInv == /\ ~started => DOMAIN buf = {} /\ next_out = 0
            /\ next_out <= LastUnit + 1
            /\ \A s \in DOMAIN buf : buf[s].unit = s
            /\ stale \/ /\ last_out < next_out
                        /\ \A s \in DOMAIN buf : next_out <= s

\* Without wrapping, numbers are units and seq_lt is the order of the integers.
LEMMA NoWrapFacts ==
    ASSUME NoWrap
    PROVE  /\ \A i \in Units : WireSeq(i) = i
           /\ \A i \in Units, n \in 0..(LastUnit + 1) : SeqLt(i, n) <=> i < n
           /\ \A i \in Units : Succ(i) = i + 1
<1>1. WireMod \in Nat /\ WireMod > 0
  BY SeqAssumption DEF SeqMod
<1>2. \A i \in Units : i \in Nat /\ i < WireMod
  BY SeqAssumption DEF NoWrap, Units
<1>3. \A i \in Units : WireSeq(i) = i
  BY <1>1, <1>2 DEF WireSeq
<1>4. \A i \in Units, n \in 0..(LastUnit + 1) : SeqLt(i, n) <=> i < n
  BY SeqAssumption DEF SeqLt, Delta, NoWrap, Units, SeqMod
<1>5. \A i \in Units : Succ(i) = i + 1
  BY SeqAssumption DEF Succ, NoWrap, Units, SeqMod
<1>6. QED
  BY <1>3, <1>4, <1>5

\* At first nothing is buffered.
LEMMA InitOrder == Init => OrderInv
  BY SeqAssumption DEF Init, OrderInv

\* push keeps the order: it refuses what next_out has passed.
LEMMA PushOrder ==
    ASSUME NoWrap, TypeOK, OrderInv, NEW i \in Units, Push(i)
    PROVE  OrderInv' /\ last_out' = last_out
<1>1. CASE PushRejected(i)
  BY <1>1 DEF PushRejected, OrderInv
<1>2. CASE PushAccepted(i)
  <2> DEFINE from   == IF started THEN next_out ELSE i
             filled == Insert(buf, i, i)
             jumps  == Realigns(i, from)
  <2>1. WireSeq(i) = i /\ i \in Seqs
    BY NoWrapFacts, WireSeqType
  <2>2. next_out \in 0..(LastUnit + 1) /\ i \in 0..LastUnit /\ last_out \in Int
    BY SeqAssumption DEF TypeOK, OrderInv, Seqs, Units
  <2>3. next_out <= i
    <3>1. CASE started
      <4>1. ~SeqLt(i, next_out)
        BY <1>2, <2>1, <3>1, Zenon DEF PushAccepted, TooOld
      <4>2. QED
        BY <2>2, <4>1, NoWrapFacts DEF Units
    <3>2. CASE ~started
      BY <2>2, <3>2 DEF OrderInv
    <3>3. QED
      BY <3>1, <3>2
  <2>4. from \in {next_out, i}
    BY Zenon
  <2>5. IsBuffer(buf) /\ IsBuffer(filled)
    BY <2>1, InsertFacts, TypeParts
  <2>6. DOMAIN filled = DOMAIN buf \cup {i} /\ \A n \in DOMAIN filled : filled[n].unit = n
    <3>1. /\ DOMAIN filled = DOMAIN buf \cup {i}
          /\ \A n \in DOMAIN buf : filled[n].unit = buf[n].unit
          /\ i \notin DOMAIN buf => filled[i].unit = i
      BY <2>1, <2>5, InsertFacts, Zenon
    <3>2. QED
      BY <3>1 DEF OrderInv
  <2>7. /\ started' = TRUE
        /\ stale' = (stale \/ (jumps /\ DOMAIN buf \ {i} # {}))
        /\ buf' = Evict(filled)
        /\ last_out' = last_out
    BY <1>2, <2>1, Zenon DEF PushAccepted
  <2>8. next_out' = i \/ (~jumps /\ next_out' = from)
    BY <1>2, <2>1, Zenon DEF PushAccepted
  <2> HIDE DEF from, filled, jumps
  <2>9. DOMAIN buf' \subseteq DOMAIN filled /\ \A n \in DOMAIN buf' : buf'[n].unit = n
    BY <2>5, <2>6, <2>7, EvictFacts
  <2>10. next_out' \in {next_out, i}
    BY <2>4, <2>8
  <2>11. ASSUME ~stale' PROVE last_out' < next_out' /\ \A s \in DOMAIN buf' : next_out' <= s
    <3>1. ~stale /\ (jumps => DOMAIN buf \subseteq {i})
      BY <2>7, <2>11, Zenon
    <3>2. last_out < next_out /\ \A s \in DOMAIN buf : next_out <= s
      BY <3>1 DEF OrderInv
    <3>3. last_out' < next_out'
      BY <2>2, <2>3, <2>7, <2>10, <3>2
    <3>4. CASE jumps
      <4>1. next_out' = i /\ DOMAIN buf' \subseteq {i}
        BY <2>6, <2>8, <2>9, <3>1, <3>4, Zenon
      <4>2. QED
        BY <2>2, <3>3, <4>1
    <3>5. CASE next_out' = next_out
      BY <2>3, <2>6, <2>9, <3>2, <3>3, <3>5
    <3>6. CASE ~jumps /\ next_out' = i /\ next_out' # next_out
      <4>1. ~started
        BY <1>2, <2>1, <3>6, Zenon DEF PushAccepted, jumps, from
      <4>2. DOMAIN buf' \subseteq {i}
        BY <2>6, <2>9, <4>1 DEF OrderInv
      <4>3. QED
        BY <2>2, <3>3, <3>6, <4>2
    <3>7. QED
      BY <2>10, <3>4, <3>5, <3>6
  <2>12. next_out' <= LastUnit + 1
    BY <2>2, <2>10, SeqAssumption
  <2>13. QED
    BY <2>7, <2>9, <2>11, <2>12, Zenon DEF OrderInv
<1>3. QED
  BY <1>1, <1>2 DEF Push

\* Handing out a unit that next_out has not passed keeps the order.
LEMMA ReleaseOrder ==
    ASSUME NoWrap, TypeOK, OrderInv, NEW s \in DOMAIN buf, Release(s), CanPop,
           \A n \in DOMAIN buf : s <= n \/ stale,
           UNCHANGED <<started, stale>>
    PROVE  OrderInv' /\ last_out' = s
<1>1. IsBuffer(buf)
  BY TypeParts
<1>2. s \in Units /\ s \in 0..LastUnit
  BY <1>1, Zenon DEF OrderInv, IsBuffer, Entries, Units
<1>3. last_out' = s /\ next_out' = s + 1
  BY <1>2, NoWrapFacts DEF Release, OrderInv
<1>4. DOMAIN buf' = DOMAIN buf \ {s} /\ \A n \in DOMAIN buf' : buf'[n].unit = n
  BY <1>1, RestrictFacts DEF Release, OrderInv
<1>5. DOMAIN buf \subseteq Int
  BY <1>1, SeqAssumption DEF IsBuffer, Seqs, SeqMod
<1>6. started'
  BY Zenon DEF CanPop
<1>7. next_out' <= LastUnit + 1 /\ last_out' < next_out'
  BY <1>2, <1>3, SeqAssumption
<1>8. ASSUME ~stale', NEW n \in DOMAIN buf' PROVE next_out' <= n
  <2>1. s <= n /\ n # s /\ n \in Int
    BY <1>4, <1>5, <1>8
  <2>2. QED
    BY <1>2, <1>3, <2>1
<1>9. QED
  BY <1>3, <1>4, <1>6, <1>7, <1>8, Zenon DEF OrderInv

\* pop keeps the order, and hands out units that are newer than the last one.
LEMMA PopOrder ==
    ASSUME NoWrap, TypeOK, OrderInv, Pop
    PROVE  OrderInv' /\ (PopHead \/ PopSkips => last_out' > last_out \/ stale)
<1>1. last_out \in Int /\ next_out \in Int /\ DOMAIN buf \subseteq Int
  BY SeqAssumption DEF TypeOK, Seqs, SeqMod
<1>2. CASE PopHead
  <2>1. \A n \in DOMAIN buf : next_out <= n \/ stale
    BY Zenon DEF OrderInv
  <2>2. OrderInv' /\ last_out' = next_out
    BY <1>2, <2>1, ReleaseOrder DEF PopHead
  <2>3. last_out < next_out \/ stale
    BY Zenon DEF OrderInv
  <2>4. QED
    BY <1>1, <2>2, <2>3
<1>3. CASE PopSkips
  <2>1. SkipTo \in DOMAIN buf /\ \A n \in DOMAIN buf : SkipTo <= n
    BY <1>3, SkipToFacts DEF PopSkips
  <2>2. OrderInv' /\ last_out' = SkipTo
    BY <1>3, <2>1, ReleaseOrder DEF PopSkips
  <2>3. (last_out < next_out /\ next_out <= SkipTo) \/ stale
    BY <2>1, Zenon DEF OrderInv
  <2>4. QED
    BY <1>1, <2>1, <2>2, <2>3
<1>4. CASE PopHolds
  BY <1>4 DEF PopHolds, PopHead, PopSkips, OrderInv
<1>5. CASE PopAsks
  BY <1>5 DEF PopAsks, PopHead, PopSkips, OrderInv
<1>6. QED
  BY <1>2, <1>3, <1>4, <1>5 DEF Pop

\* Every step keeps the order.
LEMMA NextOrder ==
    ASSUME NoWrap, TypeOK, OrderInv, [Next]_vars
    PROVE  OrderInv'
<1>1. ASSUME NEW i \in Units, Push(i) PROVE OrderInv'
  BY <1>1, PushOrder
<1>2. CASE Pop
  BY <1>2, PopOrder
<1>3. CASE SetRtt
  BY <1>3 DEF SetRtt, OrderInv
<1>4. CASE Tick
  <2>1. IsBuffer(buf)
    BY TypeParts
  <2>2. DOMAIN buf' = DOMAIN buf /\ \A s \in DOMAIN buf : buf'[s].unit = buf[s].unit
    BY <1>4, <2>1 DEF Tick, IsBuffer, Entries
  <2>3. UNCHANGED <<started, next_out, last_out, stale>>
    BY <1>4 DEF Tick
  <2>4. QED
    BY <2>2, <2>3, Zenon DEF OrderInv
<1>5. CASE UNCHANGED vars
  BY <1>5 DEF vars, OrderInv
<1>6. QED
  BY <1>1, <1>2, <1>3, <1>4, <1>5 DEF Next

-----------------------------------------------------------------------------
(* The buffer implements the in-order stream when no gap is wide enough to *)
(* be a new session.                                                       *)

NoNewSession == LastUnit <= MaxGap

\* A unit at or after next_out never realigns.
LEMMA NoRealignment ==
    ASSUME NoWrap, NoNewSession, NEW i \in Units, NEW n \in 0..(LastUnit + 1), n <= i
    PROVE  ~Realigns(i, n)
  BY SeqAssumption, SizeAssumption
     DEF NoNewSession, NoWrap, Units, Realigns, Delta, SeqMod

\* What a step of push does to the stream.
LEMMA PushStream ==
    ASSUME NoWrap, NoNewSession, TypeOK, OrderInv, ~stale, NEW i \in Units, Push(i)
    PROVE  ~stale' /\ (Stream!Open \/ UNCHANGED Stream!streamVars)
<1>1. CASE PushRejected(i)
  BY <1>1 DEF PushRejected, Stream!streamVars
<1>2. CASE PushAccepted(i)
  <2> DEFINE from == IF started THEN next_out ELSE i
             size == Cardinality(DOMAIN Insert(buf, i, i) \ DOMAIN buf')
  <2>1. WireSeq(i) = i /\ i \in Seqs /\ i \in Nat
    BY NoWrapFacts, WireSeqType DEF Units
  <2>2. next_out \in 0..(LastUnit + 1) /\ i \in 0..LastUnit
    BY SeqAssumption DEF TypeOK, OrderInv, Seqs, Units
  <2>3. started => next_out <= i
    <3>1. ~(started /\ SeqLt(i, next_out))
      BY <1>2, <2>1, Zenon DEF PushAccepted, TooOld
    <3>2. SeqLt(i, next_out) <=> i < next_out
      BY <2>2, NoWrapFacts
    <3>3. QED
      BY <2>2, <3>1, <3>2
  <2>4. ~Realigns(i, from)
    <3>1. CASE started
      <4>1. from = next_out
        BY <3>1, Zenon
      <4> HIDE DEF from
      <4>2. next_out <= i
        BY <2>3, <3>1, Zenon
      <4>3. ~Realigns(i, next_out)
        BY <2>2, <4>2, NoRealignment
      <4>4. QED
        BY <4>1, <4>3
    <3>2. CASE ~started
      <4>1. from = i
        BY <3>2, Zenon
      <4> HIDE DEF from
      <4>2. i \in 0..(LastUnit + 1) /\ i <= i
        BY <2>2, SeqAssumption
      <4>3. QED
        BY <4>1, <4>2, NoRealignment
    <3>3. QED
      BY <3>1, <3>2
  <2>5. /\ started' = TRUE
        /\ next_out' = from
        /\ ~stale'
        /\ net_lost' = net_lost + size
        /\ evicted' = evicted + size
    BY <1>2, <2>1, <2>4, Zenon DEF PushAccepted
  <2>6. size \in Nat
    <3>1. IsBuffer(buf)
      BY TypeParts
    <3>2. DOMAIN Insert(buf, i, i) \ DOMAIN buf' \in SUBSET Seqs
      BY <2>1, <3>1, InsertFacts DEF IsBuffer
    <3>3. QED
      BY <3>2, SeqsFinite
  <2> HIDE DEF size
  <2>7. net_lost' - evicted' = net_lost - evicted
    BY <2>5, <2>6 DEF TypeOK
  <2>8. CASE started
    <3>1. started' = started /\ next_out' = next_out
      BY <2>5, <2>8, Zenon DEF TypeOK
    <3>2. QED
      BY <2>5, <2>7, <3>1 DEF Stream!streamVars
  <2>9. CASE ~started
    <3>1. next_out' = i
      BY <2>5, <2>9, Zenon
    <3>2. QED
      BY <2>1, <2>5, <2>7, <2>9, <3>1 DEF Stream!Open
  <2>10. QED
    BY <2>8, <2>9
<1>3. QED
  BY <1>1, <1>2 DEF Push

\* What a step of pop does to the stream.
LEMMA PopStream ==
    ASSUME NoWrap, TypeOK, OrderInv, ~stale, Pop
    PROVE  ~stale' /\ (Stream!Deliver \/ UNCHANGED Stream!streamVars)
<1>1. net_lost \in Nat /\ evicted \in Nat /\ next_out \in Nat /\ IsBuffer(buf)
  BY TypeParts, SeqAssumption DEF TypeOK, Seqs, SeqMod
<1>2. ASSUME NEW s \in DOMAIN buf PROVE s \in Nat /\ next_out <= s /\ Succ(s) = s + 1
  <2>1. s \in Units /\ next_out <= s
    BY <1>1, <1>2, Zenon DEF OrderInv, IsBuffer, Entries
  <2>2. QED
    BY <2>1, NoWrapFacts DEF Units
<1>3. CASE PopHead
  <2>1. started /\ started' = started /\ ~stale'
    BY <1>3, Zenon DEF PopHead, CanPop
  <2>2. next_out' = next_out + 1 /\ net_lost' = net_lost /\ evicted' = evicted
    BY <1>2, <1>3 DEF PopHead, Release
  <2>3. QED
    BY <1>1, <2>1, <2>2 DEF Stream!Deliver
<1>4. CASE PopHolds
  BY <1>4 DEF PopHolds, Stream!streamVars
<1>5. CASE PopAsks
  BY <1>5 DEF PopAsks, Stream!streamVars
<1>6. CASE PopSkips
  <2>1. started /\ started' = started /\ ~stale'
    BY <1>6, Zenon DEF PopSkips, CanPop
  <2>2. SkipTo \in DOMAIN buf
    BY <1>6, SkipToFacts DEF PopSkips
  <2>3. SkipTo \in Nat /\ next_out <= SkipTo /\ next_out' = SkipTo + 1
    BY <1>2, <1>6, <2>2 DEF PopSkips, Release
  <2>4. net_lost' = net_lost + (SkipTo - next_out) /\ evicted' = evicted
    BY <1>1, <1>6, <2>3 DEF PopSkips, LostBySkip, Delta
  <2>5. QED
    BY <1>1, <2>1, <2>3, <2>4 DEF Stream!Deliver
<1>7. QED
  BY <1>3, <1>4, <1>5, <1>6 DEF Pop

\* Without wrapping and without a gap that is taken for a new session, the
\* jitter buffer implements the in-order stream: everything that is not delivered
\* in order is counted in net_lost exactly once, beside what was evicted.
THEOREM Implements == ASSUME NoWrap, NoNewSession PROVE Spec => ImplementsStream
<1>1. Init => TypeOK /\ OrderInv /\ ~stale
  BY InitType, InitOrder, Zenon DEF Init
<1>2. Init => Stream!Init
  BY DEF Init, Stream!Init
<1>3. ASSUME TypeOK, OrderInv, ~stale, [Next]_vars
      PROVE  ~stale' /\ [Stream!Next]_(Stream!streamVars)
  <2>1. ASSUME NEW i \in Units, Push(i)
        PROVE  ~stale' /\ [Stream!Next]_(Stream!streamVars)
    BY <1>3, <2>1, PushStream, NoWrap, NoNewSession DEF Stream!Next
  <2>2. CASE Pop
    BY <1>3, <2>2, PopStream, NoWrap DEF Stream!Next
  <2>3. CASE SetRtt
    BY <1>3, <2>3 DEF SetRtt, Stream!streamVars
  <2>4. CASE Tick
    BY <1>3, <2>4 DEF Tick, Stream!streamVars
  <2>5. CASE UNCHANGED vars
    BY <1>3, <2>5 DEF vars, Stream!streamVars
  <2>6. QED
    BY <1>3, <2>1, <2>2, <2>3, <2>4, <2>5 DEF Next
<1>4. TypeOK /\ OrderInv /\ ~stale /\ [Next]_vars
        => (TypeOK /\ OrderInv /\ ~stale)' /\ [Stream!Next]_(Stream!streamVars)
  BY <1>3, NextType, NextOrder, NoWrap
<1>5. QED
  BY <1>1, <1>2, <1>4, PTL DEF Spec, ImplementsStream, Stream!Spec

\* While the numbers do not wrap and no gap is taken for a new session, each unit
\* handed out is newer than the one before: whatever is reordered, duplicated,
\* lost, evicted or given up, for every size of the buffer and every delay.
THEOREM InOrder ==
    ASSUME NoWrap, NoNewSession
    PROVE  Spec => DeliveredInOrder
<1>1. Init => TypeOK /\ OrderInv /\ ~stale
  BY InitType, InitOrder, Zenon DEF Init
<1>2. ASSUME TypeOK, OrderInv, ~stale, [Next]_vars
      PROVE  ~stale' /\ (PopHead \/ PopSkips => last_out' > last_out)
  <2>1. ~stale'
    <3>1. ASSUME NEW i \in Units, Push(i) PROVE ~stale'
      BY <1>2, <3>1, PushStream, NoWrap, NoNewSession
    <3>2. CASE Pop
      BY <1>2, <3>2, PopStream, NoWrap
    <3>3. CASE SetRtt
      BY <1>2, <3>3 DEF SetRtt
    <3>4. CASE Tick
      BY <1>2, <3>4 DEF Tick
    <3>5. CASE UNCHANGED vars
      BY <1>2, <3>5 DEF vars
    <3>6. QED
      BY <1>2, <3>1, <3>2, <3>3, <3>4, <3>5 DEF Next
  <2>2. PopHead \/ PopSkips => last_out' > last_out
    BY <1>2, PopOrder, NoWrap DEF Pop
  <2>3. QED
    BY <2>1, <2>2
<1>3. TypeOK /\ OrderInv /\ ~stale /\ [Next]_vars => (TypeOK /\ OrderInv /\ ~stale)'
  BY <1>2, NextType, NextOrder, NoWrap
<1>4. TypeOK /\ OrderInv /\ ~stale /\ [Next]_vars
        => [PopHead \/ PopSkips => last_out' > last_out]_vars
  BY <1>2
<1>5. QED
  BY <1>1, <1>3, <1>4, PTL DEF Spec, DeliveredInOrder

-----------------------------------------------------------------------------
(* The wait for a missing head. *)

\* An age of missing never exceeds that of since_pop, up to where it saturates.
WaitInv == missing <= since_pop \/ since_pop = MaxDelay + 1

\* Every step keeps it: the timer of the gap starts after the last delivery.
LEMMA NextWait ==
    ASSUME TypeOK, WaitInv, [Next]_vars
    PROVE  WaitInv'
<1>1. missing \in Int /\ since_pop \in 0 .. (MaxDelay + 1) /\ MaxDelay \in Nat
  BY DelayAssumption DEF TypeOK, Unset, MissingCap
<1>2. ASSUME NEW i \in Units, Push(i) PROVE WaitInv'
  BY <1>2 DEF Push, PushRejected, PushAccepted, WaitInv
<1>3. CASE PopHead \/ PopSkips
  BY <1>3 DEF PopHead, PopSkips, Release, WaitInv, Unset
<1>4. CASE PopHolds
  BY <1>1, <1>4 DEF PopHolds, WaitInv, Unset
<1>5. CASE PopAsks
  BY <1>1, <1>5 DEF PopAsks, HeadMissing, WaitInv, Unset
<1>6. CASE SetRtt
  BY <1>6 DEF SetRtt, WaitInv
<1>7. CASE Tick
  BY <1>1, <1>7 DEF Tick, Older, WaitInv, Unset
<1>8. CASE UNCHANGED vars
  BY <1>8 DEF vars, WaitInv
<1>9. QED
  BY <1>2, <1>3, <1>4, <1>5, <1>6, <1>7, <1>8 DEF Next, Pop

\* For all delays, the documented time-out of a missing head, 2 * target + 50 ms,
\* is reached only when downstream has already starved for longer than target,
\* which ends the wait by itself.
THEOREM MaxWaitNeverDecides == Spec => []StarvesBeforeMaxWait
<1>1. Init => TypeOK /\ WaitInv
  BY InitType, DelayAssumption DEF Init, WaitInv, Unset
<1>2. TypeOK /\ WaitInv /\ [Next]_vars => (TypeOK /\ WaitInv)'
  BY NextType, NextWait
<1>3. TypeOK /\ WaitInv => StarvesBeforeMaxWait
  BY DelayAssumption DEF TypeOK, WaitInv, StarvesBeforeMaxWait, MaxWait, Starved,
                         Unset, MissingCap
<1>4. QED
  BY <1>1, <1>2, <1>3, PTL DEF Spec

-----------------------------------------------------------------------------
(* The size of the buffer, and what it asks for. *)

\* Removing the smallest of at most MaxUnits + 1 numbers leaves room.
LEMMA EvictBounds ==
    ASSUME NEW b, IsBuffer(b), Cardinality(DOMAIN b) <= MaxUnits + 1
    PROVE  Cardinality(DOMAIN Evict(b)) <= MaxUnits
<1>1. DOMAIN b \in SUBSET Seqs /\ IsFiniteSet(DOMAIN b) /\ Cardinality(DOMAIN b) \in Nat
      /\ MaxUnits \in Nat
  BY SeqsFinite, SizeAssumption DEF IsBuffer
<1>2. CASE Cardinality(DOMAIN b) <= MaxUnits
  BY <1>2 DEF Evict
<1>3. CASE Cardinality(DOMAIN b) > MaxUnits
  <2>1. DOMAIN b # {}
    <3>1. ASSUME NEW S, S = {} PROVE ~(Cardinality(S) > MaxUnits)
      <4>1. Cardinality(S) = 0
        BY <3>1, FS_EmptySet
      <4> QED BY <1>1, <4>1
    <3> QED BY <1>3, <3>1
  <2>2. Min(DOMAIN b) \in DOMAIN b
    BY <1>1, <2>1, MinOfSeqs
  <2>3. Cardinality(DOMAIN b \ {Min(DOMAIN b)}) = Cardinality(DOMAIN b) - 1
    BY <1>1, <2>2, FS_RemoveElement
  <2>4. DOMAIN Evict(b) = DOMAIN b \ {Min(DOMAIN b)}
    <3>1. Evict(b) = Restrict(b, DOMAIN b \ {Min(DOMAIN b)})
      BY <1>1, <1>3 DEF Evict
    <3> QED BY <3>1, RestrictFacts
  <2> QED BY <1>1, <2>3, <2>4
<1> QED BY <1>1, <1>2, <1>3

\* No step leaves more than MaxUnits units in the buffer.
LEMMA NextBounded ==
    ASSUME TypeOK, BufferBounded, [Next]_vars
    PROVE  BufferBounded'
<1>1. /\ IsBuffer(buf) /\ IsFiniteSet(DOMAIN buf) /\ Cardinality(DOMAIN buf) \in Nat
      /\ MaxUnits \in Nat
  BY TypeParts, SeqsFinite, SizeAssumption DEF IsBuffer
<1>2. ASSUME NEW i \in Units, PushAccepted(i) PROVE BufferBounded'
  <2> DEFINE s == WireSeq(i)
             filled == Insert(buf, s, i)
  <2>1. s \in Seqs
    BY WireSeqType
  <2>2. IsBuffer(filled) /\ DOMAIN filled = DOMAIN buf \cup {s}
    BY <1>1, <2>1, InsertFacts
  <2>3. Cardinality(DOMAIN filled) <= Cardinality(DOMAIN buf) + 1
    <3>1. Cardinality(DOMAIN buf \cup {s}) \in {Cardinality(DOMAIN buf),
                                                Cardinality(DOMAIN buf) + 1}
      BY <1>1, FS_AddElement
    <3> QED BY <1>1, <2>2, <3>1
  <2>4. Cardinality(DOMAIN filled) \in Nat
    BY <2>2, SeqsFinite DEF IsBuffer
  <2>5. buf' = Evict(filled)
    BY <1>2 DEF PushAccepted
  <2> HIDE DEF filled
  <2>6. Cardinality(DOMAIN filled) <= MaxUnits + 1
    BY <1>1, <2>3, <2>4 DEF BufferBounded
  <2> QED BY <2>2, <2>5, <2>6, EvictBounds DEF BufferBounded
<1>3. ASSUME NEW S \in SUBSET (DOMAIN buf), DOMAIN buf' = S PROVE BufferBounded'
  <2>1. Cardinality(S) <= Cardinality(DOMAIN buf) /\ Cardinality(S) \in Nat
    BY <1>1, <1>3, FS_Subset, FS_CardinalityType
  <2> QED BY <1>1, <1>3, <2>1 DEF BufferBounded
<1>4. CASE buf' = buf
  BY <1>3, <1>4
<1>5. CASE Tick
  <2>1. DOMAIN buf' = DOMAIN buf
    BY <1>5 DEF Tick
  <2> QED BY <1>3, <2>1
<1>6. ASSUME NEW s \in DOMAIN buf, Release(s) PROVE BufferBounded'
  <2>1. DOMAIN buf' = DOMAIN buf \ {s}
    BY <1>1, <1>6, RestrictFacts DEF Release
  <2> QED BY <1>3, <2>1
<1>7. CASE Pop
  <2>1. CASE PopHead
    BY <1>6, <2>1 DEF PopHead
  <2>2. CASE PopSkips
    BY <1>6, <2>2, SkipToFacts DEF PopSkips
  <2>3. CASE PopHolds \/ PopAsks
    BY <1>4, <2>3 DEF PopHolds, PopAsks
  <2> QED BY <1>7, <2>1, <2>2, <2>3 DEF Pop
<1>8. ASSUME NEW i \in Units, Push(i) PROVE BufferBounded'
  BY <1>2, <1>4, <1>8 DEF Push, PushRejected
<1> QED BY <1>4, <1>5, <1>7, <1>8 DEF Next, SetRtt, vars

\* The buffer never holds more than max_units_ units, for any numbers, wrapping or not.
THEOREM AlwaysBounded == Spec => []BufferBounded
<1>1. Init => BufferBounded
  <2>1. Cardinality({}) = 0
    BY FS_EmptySet
  <2>2. ASSUME Init PROVE DOMAIN buf = {}
    BY <2>2 DEF Init
  <2> QED BY <2>1, <2>2, SizeAssumption DEF BufferBounded
<1>2. TypeOK /\ BufferBounded /\ [Next]_vars => BufferBounded'
  BY NextBounded
<1> QED BY <1>1, <1>2, TypeCorrect, PTL DEF Spec

\* What a push asks for lies between next_out and the unit it inserted.
LEMMA PushAsks ==
    ASSUME TypeOK, NEW i \in Units, PushAccepted(i)
    PROVE  AsksOnlyForMissing'
<1> DEFINE s      == WireSeq(i)
           from   == IF started THEN next_out ELSE s
           filled == Insert(buf, s, i)
           holes  == IF Realigns(s, from) THEN {} ELSE Absent(from, s, DOMAIN filled)
<1>1. s \in Seqs /\ from \in Seqs /\ IsBuffer(buf)
  BY WireSeqType, TypeParts
<1>2. asked' = Nacked(from, nack_log, holes) /\ buf' = Evict(filled)
      /\ next_out' = IF Realigns(s, from) THEN s ELSE from
  BY DEF PushAccepted
<1>3. IsBuffer(filled) /\ DOMAIN buf' \subseteq DOMAIN filled
  BY <1>1, <1>2, InsertFacts, EvictFacts
<1>4. Nacked(from, nack_log, holes) \subseteq holes
  BY DEF Nacked, Due, After
<1>5. Delta(s, from) < Half
  <2>1. CASE started
    <3>1. ~SeqLt(s, next_out) /\ from = next_out
      BY <2>1 DEF PushAccepted, TooOld
    <3>2. Delta(s, from) \in Nat
      BY <1>1, DeltaType
    <3> HIDE DEF s, from
    <3> QED BY <3>1, <3>2, SeqAssumption DEF SeqLt
  <2>2. CASE ~started
    <3>1. from = s
      BY <2>2
    <3> HIDE DEF s, from
    <3> QED BY <1>1, <3>1, SeqAssumption DEF Delta, Seqs, SeqMod
  <2> QED BY <2>1, <2>2
<1> HIDE DEF s, from, filled
<1>6. ASSUME NEW n \in asked' PROVE n \notin DOMAIN buf' /\ ~SeqLt(n, next_out')
  <2>1. ~Realigns(s, from) /\ n \in Absent(from, s, DOMAIN filled)
    BY <1>2, <1>4, <1>6
  <2>2. n \in Seqs /\ n \notin DOMAIN filled /\ Delta(n, from) < Delta(s, from)
    BY <2>1 DEF Absent
  <2>3. Delta(n, from) \in Nat /\ Delta(s, from) \in Nat
    BY <1>1, <2>2, DeltaType
  <2>4. ~SeqLt(n, from) /\ next_out' = from
    BY <1>2, <1>5, <2>1, <2>2, <2>3, SeqAssumption DEF SeqLt
  <2> QED BY <1>3, <2>2, <2>4
<1> QED BY <1>6 DEF AsksOnlyForMissing, SeqLt

\* No NACK is requested for a unit that is buffered or behind the output, by push or by
\* pop, whether numbers wrap, the log is cleared or the buffer overflows.
THEOREM AlwaysAsksOnlyForMissing == Spec => []AsksOnlyForMissing
<1>1. Init => AsksOnlyForMissing
  BY DEF Init, AsksOnlyForMissing
<1>2. ASSUME TypeOK, AsksOnlyForMissing, [Next]_vars PROVE AsksOnlyForMissing'
  <2>1. ASSUME NEW i \in Units, Push(i) PROVE AsksOnlyForMissing'
    <3>1. CASE PushRejected(i)
      BY <3>1 DEF PushRejected, AsksOnlyForMissing
    <3>2. CASE PushAccepted(i)
      BY <1>2, <3>2, PushAsks
    <3> QED BY <2>1, <3>1, <3>2 DEF Push
  <2>2. CASE PopAsks
    <3>1. asked' = {next_out} /\ next_out' = next_out /\ buf' = buf
          /\ next_out \notin DOMAIN buf /\ next_out \in Seqs
      BY <1>2, <2>2, TypeParts DEF PopAsks
    <3>2. ~SeqLt(next_out, next_out)
      BY <3>1, SeqAssumption DEF SeqLt, Delta, Seqs, SeqMod
    <3> QED BY <3>1, <3>2 DEF AsksOnlyForMissing, SeqLt
  <2>3. CASE PopHead \/ PopHolds \/ PopSkips \/ SetRtt \/ Tick
    <3>1. asked' = {}
      BY <2>3 DEF PopHead, PopHolds, PopSkips, SetRtt, Tick
    <3> QED BY <3>1 DEF AsksOnlyForMissing
  <2>4. CASE UNCHANGED vars
    BY <1>2, <2>4 DEF vars, AsksOnlyForMissing, SeqLt
  <2> QED BY <1>2, <2>1, <2>2, <2>3, <2>4 DEF Next, Pop
<1> QED BY <1>1, <1>2, TypeCorrect, PTL DEF Spec

-----------------------------------------------------------------------------
(* The newest unit is accepted: the output and the buffer are never ahead  *)
(* of what arrived.                                                        *)

NewestInv == next_out <= newest + 1 /\ \A s \in DOMAIN buf : s <= newest

\* A unit newer than all before it is in the buffer after its push, and nothing else
\* makes a unit the newest.
LEMMA NextNewest ==
    ASSUME NoWrap, TypeOK, OrderInv, NewestInv, [Next]_vars
    PROVE  NewestInv' /\ (newest' > newest => WireSeq(newest') \in DOMAIN buf')
<1>1. /\ IsBuffer(buf) /\ DOMAIN buf \subseteq Nat /\ MaxUnits \in Nat \ {0}
      /\ newest \in -1..LastUnit /\ LastUnit \in Nat /\ next_out \in Nat
  BY TypeParts, SeqAssumption, SizeAssumption DEF IsBuffer, Seqs, SeqMod
<1>2. ASSUME NEW i \in Units, Push(i)
      PROVE  NewestInv' /\ (newest' > newest => WireSeq(newest') \in DOMAIN buf')
  <2>1. newest' = (IF i > newest THEN i ELSE newest) /\ i \in Nat /\ newest' \in -1..LastUnit
    BY <1>1, <1>2, ArrivesType DEF Push, PushRejected, PushAccepted, Units
  <2>2. WireSeq(i) = i /\ i \in Seqs
    BY NoWrapFacts, WireSeqType
  <2>3. CASE PushRejected(i)
    <3>1. SeqLt(i, next_out) /\ UNCHANGED <<next_out, buf>>
      BY <2>2, <2>3 DEF PushRejected, TooOld
    <3>2. next_out \in 0..(LastUnit + 1)
      BY <1>1 DEF OrderInv
    <3>3. i < next_out
      BY <3>1, <3>2, NoWrapFacts
    <3> QED BY <1>1, <2>1, <3>1, <3>3 DEF NewestInv
  <2>4. CASE PushAccepted(i)
    <3> DEFINE filled == Insert(buf, i, i)
    <3>1. IsBuffer(filled) /\ DOMAIN filled = DOMAIN buf \cup {i}
      BY <1>1, <2>2, InsertFacts
    <3>2. buf' = Evict(filled)
      BY <2>2, <2>4 DEF PushAccepted
    <3> HIDE DEF filled
    <3>3. DOMAIN buf' \subseteq DOMAIN buf \cup {i}
      BY <3>1, <3>2, EvictFacts
    <3>4. next_out' \in {next_out, i}
      BY <2>2, <2>4 DEF PushAccepted
    <3>5. NewestInv'
      BY <1>1, <2>1, <3>3, <3>4 DEF NewestInv
    <3>6. ASSUME i > newest PROVE i \in DOMAIN buf'
      <4>1. CASE Cardinality(DOMAIN filled) <= MaxUnits
        BY <3>1, <3>2, <4>1 DEF Evict
      <4>2. CASE ~(Cardinality(DOMAIN filled) <= MaxUnits)
        <5>1. DOMAIN buf' = DOMAIN filled \ {Min(DOMAIN filled)}
          <6>1. buf' = Restrict(filled, DOMAIN filled \ {Min(DOMAIN filled)})
            BY <3>2, <4>2 DEF Evict
          <6> QED BY <3>1, <6>1, RestrictFacts
        <5>2. DOMAIN filled # {i}
          <6>1. Cardinality({i}) = 1
            BY FS_Singleton
          <6> QED BY <1>1, <4>2, <6>1
        <5>3. PICK n \in DOMAIN buf : n # i
          BY <3>1, <5>2
        <5>4. n < i
          BY <1>1, <2>1, <3>6, <5>3 DEF NewestInv
        <5>5. Min(DOMAIN filled) <= n
          BY <3>1, MinOfSeqs DEF IsBuffer
        <5>6. Min(DOMAIN filled) # i
          BY <1>1, <2>1, <5>4, <5>5
        <5> QED BY <3>1, <5>1, <5>6
      <4> QED BY <4>1, <4>2
    <3>7. newest' > newest => newest' = i /\ i > newest
      BY <1>1, <2>1
    <3> QED BY <2>2, <3>5, <3>6, <3>7
  <2> QED BY <1>2, <2>3, <2>4 DEF Push
<1>3. ASSUME NEW s \in DOMAIN buf, Release(s), newest' = newest PROVE NewestInv'
  <2>1. DOMAIN buf' \subseteq DOMAIN buf
    BY <1>1, <1>3, RestrictFacts DEF Release
  <2>2. s \in Units /\ s <= newest
    BY <1>1 DEF OrderInv, NewestInv, IsBuffer, Entries
  <2>3. next_out' = s + 1
    BY <1>3, <2>2, NoWrapFacts DEF Release
  <2> QED BY <1>1, <1>3, <2>1, <2>2, <2>3 DEF NewestInv
<1>4. CASE Pop \/ SetRtt \/ Tick \/ UNCHANGED vars
  <2>1. newest' = newest /\ ~(newest' > newest)
    BY <1>1, <1>4 DEF Pop, PopHead, PopHolds, PopAsks, PopSkips, SetRtt, Tick, vars
  <2>2. CASE PopHead
    BY <1>3, <2>1, <2>2 DEF PopHead
  <2>3. CASE PopSkips
    BY <1>3, <2>1, <2>3, SkipToFacts DEF PopSkips
  <2>4. CASE PopHolds \/ PopAsks \/ SetRtt \/ Tick \/ UNCHANGED vars
    <3>1. next_out' = next_out /\ DOMAIN buf' = DOMAIN buf
      BY <2>4 DEF PopHolds, PopAsks, SetRtt, Tick, vars
    <3> QED BY <2>1, <3>1 DEF NewestInv
  <2> QED BY <1>4, <2>1, <2>2, <2>3, <2>4 DEF Pop
<1> QED BY <1>2, <1>4 DEF Next

\* The stream cannot stop by refusal: the newest unit of a stream whose numbers do not
\* wrap is always taken into the buffer, however full that is.
THEOREM NewestNeverRefused == ASSUME NoWrap PROVE Spec => NewestAccepted
<1>1. Init => NewestInv
  BY DEF Init, NewestInv
<1>2. TypeOK /\ OrderInv /\ [Next]_vars => OrderInv'
  BY NextOrder, NoWrap
<1>3. TypeOK /\ OrderInv /\ NewestInv /\ [Next]_vars
        => NewestInv' /\ (newest' > newest => WireSeq(newest') \in DOMAIN buf')
  BY NextNewest, NoWrap
<1>4. TypeOK /\ OrderInv /\ NewestInv /\ [Next]_vars
        => NewestInv' /\ [newest' > newest => WireSeq(newest') \in DOMAIN buf']_vars
  BY <1>3
<1> QED BY <1>1, <1>2, <1>4, InitOrder, TypeCorrect, PTL DEF Spec, NewestAccepted

-----------------------------------------------------------------------------
(* Every gap is reported.  The log keeps the reports as long as it is not  *)
(* cleared, which a stream of up to NackLogCap units never makes it.       *)

NeverCleared == LastUnit < NackLogCap

GapInv == /\ DOMAIN nack_log \subseteq Units
          /\ evicted = 0 /\ ~stale =>
                \A s \in DOMAIN buf : \A n \in Units :
                    next_out <= n /\ n < s /\ n \notin DOMAIN buf => n \in DOMAIN nack_log

\* What is absent before a unit that is not behind the output, without wrapping.
LEMMA AbsentFacts ==
    ASSUME NoWrap, NEW from \in 0..(LastUnit + 1), NEW s \in Units, from <= s, NEW b
    PROVE  Absent(from, s, b) = {n \in Units : from <= n /\ n < s /\ n \notin b}
<1>1. LastUnit \in Nat /\ Half \in Nat /\ LastUnit < Half
  BY SeqAssumption DEF NoWrap
<1>2. ASSUME NEW n \in Seqs
      PROVE  Delta(n, from) < Delta(s, from) <=> (from <= n /\ n < s)
  BY <1>1 DEF Delta, Seqs, SeqMod, Units
<1>3. \A n \in Units : n \in Seqs
  BY <1>1 DEF Units, Seqs, SeqMod
<1>4. \A n \in Seqs : from <= n /\ n < s => n \in Units
  BY <1>1 DEF Units, Seqs, SeqMod
<1> QED BY <1>2, <1>3, <1>4 DEF Absent

\* Reporting some units leaves every one of them in the log, and what was there.
LEMMA ReportedFacts ==
    ASSUME NeverCleared, NEW log, IsLog(log), DOMAIN log \subseteq Units, NEW from,
           NEW S \in SUBSET Units
    PROVE  DOMAIN NackLog(from, log, S) = DOMAIN log \cup S
<1>1. IsFiniteSet(Units) /\ Cardinality(Units) = LastUnit + 1 /\ LastUnit \in Nat
      /\ NackLogCap \in Nat
  <2>1. LastUnit \in Nat /\ 0 \in Int /\ LastUnit \in Int /\ ~(0 > LastUnit)
        /\ LastUnit - 0 + 1 = LastUnit + 1
    BY SeqAssumption
  <2> QED BY <2>1, FS_Interval, SizeAssumption DEF Units
<1>2. ASSUME NEW n \in Overflows(from, log, S) PROVE FALSE
  <2> DEFINE A == {m \in S \ DOMAIN log : Delta(m, from) <= Delta(n, from)}
             D == DOMAIN log
  <2>1. Cardinality(A) = NackLogCap + 1 - Cardinality(D)
    BY DEF Overflows
  <2>2. A \subseteq Units /\ D \subseteq Units /\ A \cap D = {}
    OBVIOUS
  <2> HIDE DEF A, D
  <2>3. IsFiniteSet(A) /\ IsFiniteSet(D)
    BY <1>1, <2>2, FS_Subset
  <2>4. Cardinality(A \cup D) = Cardinality(A) + Cardinality(D) - Cardinality(A \cap D)
    BY <2>3, FS_Union
  <2>5. Cardinality(A \cap D) = 0
    BY <2>2, FS_EmptySet
  <2>6. Cardinality(A \cup D) <= LastUnit + 1
    <3>1. A \cup D \subseteq Units
      BY <2>2
    <3>2. Cardinality(A \cup D) <= Cardinality(Units)
      BY <1>1, <3>1, FS_Subset
    <3> QED BY <1>1, <3>2
  <2>7. Cardinality(A) \in Nat /\ Cardinality(D) \in Nat
    BY <2>3, FS_CardinalityType
  <2> QED BY <1>1, <2>1, <2>4, <2>5, <2>6, <2>7 DEF NeverCleared
<1>3. NackLog(from, log, S) = Logged(log, Due(S, log))
  BY <1>2 DEF NackLog
<1>4. DOMAIN Logged(log, Due(S, log)) = DOMAIN log \cup Due(S, log)
  BY DEF Logged
<1>5. S \subseteq DOMAIN log \cup Due(S, log) /\ Due(S, log) \subseteq S
  BY DEF Due, Throttled
<1> QED BY <1>3, <1>4, <1>5

\* A push reports the gap it opens.
LEMMA PushGap ==
    ASSUME NoWrap, NeverCleared, TypeOK, OrderInv, GapInv, NEW i \in Units, PushAccepted(i)
    PROVE  GapInv'
<1> DEFINE from   == IF started THEN next_out ELSE i
           filled == Insert(buf, i, i)
           jumps  == Realigns(i, from)
           holes  == IF jumps THEN {} ELSE Absent(from, i, DOMAIN filled)
<1>1. WireSeq(i) = i /\ i \in Seqs /\ IsBuffer(buf) /\ IsLog(nack_log)
      /\ evicted \in Nat /\ LastUnit \in Nat
  BY NoWrapFacts, WireSeqType, TypeParts, SeqAssumption
<1>2. /\ next_out' = IF jumps THEN i ELSE from
      /\ stale' = (stale \/ (jumps /\ DOMAIN buf \ {i} # {}))
      /\ nack_log' = NackLog(from, nack_log, holes)
      /\ buf' = Evict(filled)
      /\ evicted' = evicted + Cardinality(DOMAIN filled \ DOMAIN buf')
  BY <1>1, Zenon DEF PushAccepted
<1>3. from \in 0..(LastUnit + 1) /\ from <= i /\ i \in Nat
  <2>1. next_out \in 0..(LastUnit + 1) /\ i \in 0..LastUnit
    BY <1>1 DEF OrderInv, TypeOK, Seqs, Units
  <2>2. CASE started
    <3>1. ~SeqLt(i, next_out)
      BY <1>1, <2>2 DEF PushAccepted, TooOld
    <3> QED BY <2>1, <2>2, <3>1, NoWrapFacts
  <2>3. CASE ~started
    <3>1. from = i
      BY <2>3
    <3> HIDE DEF from
    <3> QED BY <1>1, <2>1, <3>1
  <2> QED BY <2>1, <2>2, <2>3
<1>4. IsBuffer(filled) /\ DOMAIN filled = DOMAIN buf \cup {i}
      /\ DOMAIN buf' \subseteq DOMAIN filled
  BY <1>1, <1>2, InsertFacts, EvictFacts
<1>5. jumps \/ holes = {n \in Units : from <= n /\ n < i /\ n \notin DOMAIN filled}
  <2> HIDE DEF from, filled
  <2> QED BY <1>3, AbsentFacts
<1>6. holes \in SUBSET Units
  BY <1>5, Zenon
<1>7. started \/ DOMAIN buf = {}
  BY DEF OrderInv
<1>8. started => from = next_out
  OBVIOUS
<1> HIDE DEF from, filled, jumps, holes
<1>9. DOMAIN nack_log' = DOMAIN nack_log \cup holes
  BY <1>1, <1>2, <1>6, ReportedFacts DEF GapInv
<1>10. ASSUME evicted' = 0, ~stale' PROVE evicted = 0 /\ ~stale /\ DOMAIN buf' = DOMAIN filled
  <2> DEFINE gone == DOMAIN filled \ DOMAIN buf'
  <2>1. IsFiniteSet(gone) /\ Cardinality(gone) \in Nat
    BY <1>4, SeqsFinite DEF IsBuffer
  <2>2. evicted' = evicted + Cardinality(gone)
    BY <1>2
  <2>3. evicted = 0 /\ Cardinality(gone) = 0
    <3> HIDE DEF gone
    <3> QED BY <1>1, <1>10, <2>1, <2>2
  <2>4. gone = {}
    BY <2>1, <2>3, FS_EmptySet
  <2> QED BY <1>2, <1>4, <1>10, <2>3, <2>4
<1>11. ASSUME evicted' = 0, ~stale', NEW s \in DOMAIN buf', NEW n \in Units,
              next_out' <= n, n < s, n \notin DOMAIN buf'
       PROVE  n \in DOMAIN nack_log'
  <2>1. evicted = 0 /\ ~stale /\ DOMAIN buf' = DOMAIN filled
    BY <1>10, <1>11
  <2>2. n \in Nat /\ s \in DOMAIN buf \cup {i}
    BY <1>4, <2>1 DEF Units
  <2>3. CASE jumps
    <3>1. next_out' = i /\ DOMAIN buf \subseteq {i}
      BY <1>2, <1>11, <2>3
    <3>2. s = i
      BY <2>2, <3>1
    <3> QED BY <1>3, <1>11, <2>2, <3>1, <3>2
  <2>4. CASE ~jumps
    <3>1. next_out' = from
      BY <1>2, <2>4
    <3>2. CASE s = i
      BY <1>5, <1>9, <1>11, <2>1, <2>4, <3>1, <3>2
    <3>3. CASE s \in DOMAIN buf
      <4>1. from = next_out
        BY <1>7, <1>8, <3>3
      <4>2. n \notin DOMAIN buf
        BY <1>4, <1>11, <2>1
      <4> QED BY <1>9, <1>11, <2>1, <3>1, <3>3, <4>1, <4>2 DEF GapInv
    <3> QED BY <2>2, <3>2, <3>3
  <2> QED BY <2>3, <2>4
<1>12. DOMAIN nack_log' \subseteq Units
  BY <1>6, <1>9 DEF GapInv
<1> QED BY <1>11, <1>12 DEF GapInv

\* pop only passes units, and never opens a gap.
LEMMA ReleaseGap ==
    ASSUME NoWrap, TypeOK, OrderInv, GapInv, NEW s \in DOMAIN buf, Release(s),
           stale \/ next_out <= s, UNCHANGED <<nack_log, evicted, stale>>
    PROVE  GapInv'
<1>1. IsBuffer(buf) /\ next_out \in Nat /\ DOMAIN buf \subseteq Nat
  BY TypeParts, SeqAssumption DEF IsBuffer, Seqs, SeqMod
<1>2. s \in Units /\ s \in Nat /\ next_out' = s + 1
  <2>1. s \in Units
    BY <1>1 DEF OrderInv, IsBuffer, Entries
  <2> QED BY <2>1, NoWrapFacts DEF Release, Units
<1>3. DOMAIN buf' = DOMAIN buf \ {s}
  BY <1>1, RestrictFacts DEF Release
<1>4. ASSUME evicted = 0, ~stale, NEW r \in DOMAIN buf', NEW n \in Units,
             next_out' <= n, n < r, n \notin DOMAIN buf'
      PROVE  n \in DOMAIN nack_log
  <2>1. n \in Nat /\ next_out <= n /\ n # s
    BY <1>1, <1>2, <1>4 DEF Units
  <2> QED BY <1>3, <1>4, <2>1 DEF GapInv
<1> QED BY <1>4 DEF GapInv

\* Every step keeps the gaps in the log.
LEMMA NextGap ==
    ASSUME NoWrap, NeverCleared, TypeOK, OrderInv, GapInv, [Next]_vars
    PROVE  GapInv'
<1>1. ASSUME NEW i \in Units, Push(i) PROVE GapInv'
  <2>1. CASE PushRejected(i)
    BY <2>1 DEF PushRejected, GapInv
  <2> QED BY <1>1, <2>1, PushGap DEF Push
<1>2. CASE PopHead
  <2>1. next_out <= next_out
    BY SeqAssumption DEF TypeOK, Seqs, SeqMod
  <2> QED BY <1>2, <2>1, ReleaseGap DEF PopHead
<1>3. CASE PopSkips
  <2>1. SkipTo \in DOMAIN buf /\ (stale \/ next_out <= SkipTo)
    BY <1>3, SkipToFacts DEF PopSkips, OrderInv
  <2> QED BY <1>3, <2>1, ReleaseGap DEF PopSkips
<1>4. CASE PopHolds \/ PopAsks \/ SetRtt \/ Tick \/ UNCHANGED vars
  <2>1. UNCHANGED <<next_out, evicted, stale>> /\ DOMAIN buf' = DOMAIN buf
        /\ DOMAIN nack_log' = DOMAIN nack_log
    BY <1>4 DEF PopHolds, PopAsks, SetRtt, Tick, vars
  <2> QED BY <2>1 DEF GapInv
<1> QED BY <1>1, <1>2, <1>3, <1>4 DEF Next, Pop

\* Whatever is missing in front of a buffered unit was asked for at least once, for
\* streams that neither wrap nor fill the log: no gap escapes the NACKs through the
\* throttle, the order of arrival or a pop in between.
THEOREM NoGapSilent == ASSUME NoWrap, NeverCleared PROVE Spec => []NoSilentGap
<1>1. Init => GapInv
  BY DEF Init, GapInv
<1>2. TypeOK /\ OrderInv /\ [Next]_vars => OrderInv'
  BY NextOrder, NoWrap
<1>3. TypeOK /\ OrderInv /\ GapInv /\ [Next]_vars => GapInv'
  BY NextGap, NoWrap, NeverCleared
<1>4. ASSUME TypeOK, OrderInv, GapInv PROVE NoSilentGap
  <2>1. ASSUME evicted = 0, ~stale, NEW s \in DOMAIN buf
        PROVE  Absent(next_out, s, DOMAIN buf) \subseteq DOMAIN nack_log
    <3>1. s \in Units /\ next_out <= s /\ next_out \in 0..(LastUnit + 1)
      <4>1. IsBuffer(buf) /\ next_out \in Nat /\ LastUnit \in Nat
        BY <1>4, TypeParts, SeqAssumption DEF Seqs, SeqMod
      <4> QED BY <1>4, <2>1, <4>1 DEF OrderInv, IsBuffer, Entries
    <3>2. Absent(next_out, s, DOMAIN buf)
            = {n \in Units : next_out <= n /\ n < s /\ n \notin DOMAIN buf}
      BY <3>1, AbsentFacts, NoWrap
    <3> QED BY <1>4, <2>1, <3>2 DEF GapInv
  <2> QED BY <2>1 DEF NoSilentGap
<1> QED BY <1>1, <1>2, <1>3, <1>4, InitOrder, TypeCorrect, PTL DEF Spec
=============================================================================
