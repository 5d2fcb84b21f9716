--------------------------- MODULE Client_proofs ---------------------------
(***************************************************************************)
(* Theorems about the client: type correctness of ClientProgram, the order *)
(* of frames and pictures and the end of its threads, for any number of    *)
(* frames and queues of any size, and the extension of time stamps         *)
(* (TimeStamps), for all values.                                           *)
(***************************************************************************)
EXTENDS ClientProgram, TimeStamps, SequenceTheorems, TLAPS

\* The numbers in q rise, above lo and up to hi.
Rising(q, lo, hi) ==
    \A i \in 1..Len(q) : /\ lo < q[i] /\ q[i] <= hi
                         /\ \A j \in 1..(i - 1) : q[j] < q[i]

\* What is in a queue was pushed to out later than what left it last: the picture shown,
\* those in decoded_q, the frame with the decoder, those in out, in this order.
OrderInv ==
    /\ Rising(decoded_q, shown, newest)
    /\ decoder = "decodes" /\ "decode" \in alive => newest < frame
    /\ Rising(out, frame, Len(pushed))

\* A frame that was set aside has not been pushed, one that will be pushed again has been
\* pushed once.
PushInv ==
    /\ PushedInOrder
    /\ \A i \in DOMAIN pushed : pushed[i] \notin aside
    /\ again => \E i \in DOMAIN pushed :
                   pushed[i] = pos /\ \A k \in DOMAIN pushed : pushed[k] = pos => k = i

\* What main has waited for where it is.
JoinInv ==
    /\ out_closed <=> main \in {"joins_decoder", "returned"}
    /\ main \in {"joins_rx", "joins_decoder", "returned"} => ~running /\ stop_flag
    /\ main \in {"joins_decoder", "returned"} => alive \subseteq {"decode"}
    /\ main = "returned" => alive = {}

\* A push of the drop-oldest queue keeps its size and puts the new element behind.
Shifted(p, q, v, d) == /\ Len(p) = Len(q) + 1 - d
                       /\ \A i \in 1..(Len(q) - d) : p[i] = q[i + d]
                       /\ p[Len(p)] = v
LEMMA PushedQueue ==
    ASSUME NEW S, NEW q \in Seq(S), NEW v \in S, NEW size \in Nat \ {0}, Len(q) <= size
    PROVE  /\ Pushed(q, v, size) \in Seq(S) /\ Len(Pushed(q, v, size)) <= size
           /\ \E d \in {0, 1} : Shifted(Pushed(q, v, size), q, v, d)
<1>1. CASE Len(q) < size
  <2>1. Pushed(q, v, size) = Append(q, v)
    BY <1>1 DEF Pushed
  <2>2. \A i \in 1..Len(q) : Append(q, v)[i] = q[i]
    OBVIOUS
  <2>3. Shifted(Append(q, v), q, v, 0)
    BY <2>2 DEF Shifted
  <2> QED BY <1>1, <2>1, <2>3
<1>2. CASE ~(Len(q) < size)
  <2>1. Pushed(q, v, size) = Append(Tail(q), v) /\ Len(q) = size /\ q # <<>>
    BY <1>2 DEF Pushed
  <2>2. Tail(q) \in Seq(S) /\ Len(Tail(q)) = Len(q) - 1
    BY <2>1
  <2>3. \A i \in 1..(Len(q) - 1) : Append(Tail(q), v)[i] = q[i + 1]
    BY <2>1, <2>2
  <2>4. Shifted(Append(Tail(q), v), q, v, 1)
    BY <2>1, <2>2, <2>3 DEF Shifted
  <2>5. Append(Tail(q), v) \in Seq(S) /\ Len(Append(Tail(q), v)) = size
    BY <2>1, <2>2
  <2> QED BY <2>1, <2>4, <2>5
<1> QED BY <1>1, <1>2

\* A newer number keeps the queue rising, whether or not the oldest one leaves.
LEMMA PushRises ==
    ASSUME NEW q \in Seq(Nat), NEW lo \in Nat, NEW hi \in Nat, NEW v \in Nat,
           NEW size \in Nat \ {0}, Len(q) <= size,
           Rising(q, lo, hi), lo <= hi, hi < v
    PROVE  Rising(Pushed(q, v, size), lo, v)
<1> DEFINE p == Pushed(q, v, size)
<1>3. PICK d \in {0, 1} : Shifted(p, q, v, d)
  BY PushedQueue
<1>1. /\ Len(p) = Len(q) + 1 - d
      /\ \A i \in 1..(Len(q) - d) : p[i] = q[i + d]
      /\ p[Len(p)] = v
  BY <1>3 DEF Shifted
<1> HIDE DEF p
<1>2. Len(q) \in Nat /\ \A i \in 1..Len(q) : q[i] \in Nat
  OBVIOUS
<1>4. ASSUME NEW i \in 1..Len(p)
      PROVE  lo < p[i] /\ p[i] <= v /\ \A j \in 1..(i - 1) : p[j] < p[i]
  <2>1. \A j \in 1..(Len(p) - 1) : p[j] = q[j + d] /\ j + d \in 1..Len(q)
    BY <1>1, <1>2
  <2>2. CASE i = Len(p)
    <3>1. p[i] = v /\ \A j \in 1..(i - 1) : p[j] = q[j + d] /\ j + d \in 1..Len(q)
      BY <1>1, <2>1, <2>2
    <3>2. \A j \in 1..(i - 1) : q[j + d] \in Nat /\ q[j + d] <= hi
      BY <1>2, <3>1 DEF Rising
    <3>3. ASSUME NEW j \in 1..(i - 1) PROVE p[j] < v
      <4>1. p[j] = q[j + d] /\ q[j + d] \in Nat /\ q[j + d] <= hi
        BY <3>1, <3>2
      <4> QED BY <4>1
    <3> QED BY <3>1, <3>3
  <2>3. CASE i # Len(p)
    <3>1. i \in 1..(Len(p) - 1) /\ \A j \in 1..(i - 1) : j \in 1..(Len(p) - 1)
      BY <1>1, <1>2, <2>3
    <3>2. lo < q[i + d] /\ q[i + d] <= hi
      BY <2>1, <3>1 DEF Rising
    <3>3. \A j \in 1..(i - 1) : q[j + d] < q[i + d]
      BY <1>2, <2>1, <3>1 DEF Rising
    <3>4. p[i] = q[i + d] /\ q[i + d] \in Nat /\ \A j \in 1..(i - 1) : p[j] = q[j + d]
      BY <1>2, <2>1, <3>1
    <3>5. lo < p[i] /\ p[i] <= v
      BY <3>2, <3>4
    <3>6. \A j \in 1..(i - 1) : p[j] < p[i]
      BY <3>3, <3>4
    <3> QED BY <3>5, <3>6
  <2> QED BY <2>2, <2>3
<1> QED BY <1>4 DEF Rising, p

\* What is left rises above what was taken.
LEMMA PopRises ==
    ASSUME NEW q \in Seq(Nat), NEW lo \in Nat, NEW hi \in Nat, q # <<>>, Rising(q, lo, hi)
    PROVE  /\ Rising(Tail(q), Head(q), hi)
           /\ Head(q) \in Nat /\ lo < Head(q) /\ Head(q) <= hi
           /\ Tail(q) \in Seq(Nat) /\ Len(Tail(q)) <= Len(q)
<1>1. Head(q) = q[1] /\ Len(q) \in Nat \ {0}
  OBVIOUS
<1>2. Tail(q) \in Seq(Nat) /\ Len(Tail(q)) = Len(q) - 1
  OBVIOUS
<1>3. \A i \in 1..Len(Tail(q)) : Tail(q)[i] = q[i + 1]
  BY <1>2
<1>4. \A i \in 1..Len(q) : q[i] \in Nat
  OBVIOUS
<1>5. ASSUME NEW i \in 1..Len(Tail(q))
      PROVE  /\ Head(q) < Tail(q)[i] /\ Tail(q)[i] <= hi
             /\ \A j \in 1..(i - 1) : Tail(q)[j] < Tail(q)[i]
  <2>1. i + 1 \in 1..Len(q) /\ 1 \in 1..((i + 1) - 1)
    BY <1>1, <1>2
  <2>2. \A j \in 1..(i - 1) : /\ j \in 1..Len(Tail(q))
                              /\ j + 1 \in 1..((i + 1) - 1)
    BY <1>2
  <2>3. q[1] < q[i + 1] /\ q[i + 1] <= hi
    BY <2>1 DEF Rising
  <2>4. \A j \in 1..(i - 1) : q[j + 1] < q[i + 1]
    BY <2>1, <2>2 DEF Rising
  <2> QED BY <1>1, <1>3, <2>2, <2>3, <2>4
<1>6. lo < q[1] /\ q[1] <= hi
  BY <1>1 DEF Rising
<1> QED BY <1>1, <1>2, <1>4, <1>5, <1>6 DEF Rising

-----------------------------------------------------------------------------
IInv == SizesOK /\ TypeOK /\ OrderInv /\ PushInv /\ JoinInv

\* At first the queues are empty and every thread is there.
LEMMA InitIInv == SizesOK /\ Init => IInv
<1> SUFFICES ASSUME SizesOK, Init PROVE IInv
  OBVIOUS
<1>1. /\ out \in Seq(Nat) /\ decoded_q \in Seq(Nat) /\ pushed \in Seq(1..pos)
      /\ 0 \in Numbers /\ Len(out) = 0 /\ Len(decoded_q) = 0 /\ Len(pushed) = 0
      /\ pushed = <<>>
  BY DEF Init, Numbers, SizesOK
<1>2. TypeOK
  <2>1. /\ main \in {"opens", "pops"} /\ decoder = "opens"
        /\ closing \in BOOLEAN /\ stop_flag \in BOOLEAN /\ running \in BOOLEAN
        /\ out_closed \in BOOLEAN /\ transport \in {"tcp", "udp", "rtp"}
        /\ headless \in BOOLEAN /\ again \in BOOLEAN
    BY Zenon DEF Init
  <2>2. /\ came = 0 /\ pos = 0 /\ aside = {} /\ frame = 0 /\ newest = 0 /\ shown = 0
        /\ alive = RxThreads(transport) \cup {"decode"}
    BY DEF Init
  <2>3. 0 \in 0..0 /\ 0 <= OutSize /\ 0 <= DecodedSize
    BY DEF SizesOK
  <2> QED BY <1>1, <2>1, <2>2, <2>3 DEF TypeOK
<1>3. OrderInv
  BY <1>1 DEF Init, OrderInv, Rising
<1>4. DOMAIN pushed = {}
  BY <1>1
<1>5. PushInv
  BY <1>4 DEF Init, PushInv, PushedInOrder
<1>6. JoinInv
  BY DEF Init, JoinInv
<1> QED BY <1>2, <1>3, <1>5, <1>6 DEF IInv

\* What is numbered are natural numbers.
LEMMA NumbersFacts ==
    ASSUME SizesOK, TypeOK
    PROVE  /\ out \in Seq(Nat) /\ decoded_q \in Seq(Nat)
           /\ frame \in Nat /\ newest \in Nat /\ shown \in Nat
           /\ newest <= frame /\ shown <= newest /\ frame <= Len(pushed)
           /\ came \in Nat /\ pos \in Nat /\ pos <= came /\ came <= NFrames
           /\ NFrames \in Nat /\ OutSize \in Nat \ {0} /\ DecodedSize \in Nat \ {0}
           /\ pushed \in Seq(1..pos) /\ Len(pushed) \in Nat
           /\ DOMAIN pushed = 1..Len(pushed)
           /\ \A i \in 1..Len(pushed) : pushed[i] \in 1..pos
<1>1. pushed \in Seq(1..pos) /\ Len(pushed) \in Nat
  BY DEF TypeOK
<1>2. ASSUME NEW S, NEW q \in Seq(S)
      PROVE  DOMAIN q = 1..Len(q) /\ \A i \in 1..Len(q) : q[i] \in S
  OBVIOUS
<1>3. DOMAIN pushed = 1..Len(pushed) /\ \A i \in 1..Len(pushed) : pushed[i] \in 1..pos
  BY <1>1, <1>2, Zenon
<1> QED BY <1>1, <1>3 DEF TypeOK, Numbers, SizesOK

\* Its upper limit may rise.
LEMMA LimitRises ==
    ASSUME NEW q \in Seq(Nat), NEW lo \in Nat, NEW hi \in Nat, NEW higher \in Nat,
           Rising(q, lo, hi), hi <= higher
    PROVE  Rising(q, lo, higher)
<1>1. \A i \in 1..Len(q) : q[i] \in Nat
  OBVIOUS
<1> QED BY <1>1 DEF Rising

\* A frame is pushed to out, open or closed.
LEMMA PushOutStep ==
    ASSUME IInv, NEW p \in Nat, pos <= p, NEW f \in 1..p, PushOut(f)
    PROVE  /\ out' \in Seq(Nat) /\ Len(out') <= OutSize
           /\ pushed' \in Seq(1..p) /\ Len(pushed') = Len(pushed) + 1
           /\ Rising(out', frame, Len(pushed'))
<1> DEFINE n == Len(pushed)
<1>1. /\ out \in Seq(Nat) /\ frame \in Nat /\ OutSize \in Nat \ {0}
      /\ pushed \in Seq(1..pos) /\ n \in Nat /\ pos \in Nat /\ frame <= n
  BY NumbersFacts DEF IInv
<1>2. Len(out) <= OutSize /\ Rising(out, frame, n)
  BY DEF IInv, TypeOK, OrderInv
<1>3. pushed' \in Seq(1..p) /\ Len(pushed') = n + 1
  <2>1. pushed \in Seq(1..p)
    <3>1. 1..pos \subseteq 1..p
      BY <1>1
    <3> QED BY <1>1, <3>1, SeqMonotonic
  <2> QED BY <2>1 DEF PushOut
<1> HIDE DEF n
<1>4. CASE out_closed
  <2>1. out' = out
    BY <1>4 DEF PushOut
  <2>2. Rising(out, frame, n + 1)
    BY <1>1, <1>2, LimitRises
  <2> QED BY <1>1, <1>2, <1>3, <2>1, <2>2 DEF n
<1>5. CASE ~out_closed
  <2>1. out' = Pushed(out, n + 1, OutSize)
    BY <1>5 DEF PushOut, n
  <2>2. out' \in Seq(Nat) /\ Len(out') <= OutSize
    <3>1. n + 1 \in Nat
      BY <1>1
    <3>2. /\ Pushed(out, n + 1, OutSize) \in Seq(Nat)
          /\ Len(Pushed(out, n + 1, OutSize)) <= OutSize
      BY <1>1, <1>2, <3>1, PushedQueue
    <3> QED BY <2>1, <3>2
  <2>3. Rising(out', frame, n + 1)
    BY <1>1, <1>2, <2>1, PushRises
  <2> QED BY <1>3, <2>2, <2>3 DEF n
<1> QED BY <1>4, <1>5

\* The last one of the pushes is new, the others are the old ones.
LEMMA PushedOut ==
    ASSUME SizesOK, TypeOK, NEW f, PushOut(f)
    PROVE  /\ DOMAIN pushed' = 1..(Len(pushed) + 1) /\ pushed'[Len(pushed) + 1] = f
           /\ \A i \in 1..Len(pushed) : pushed'[i] = pushed[i]
<1>1. pushed \in Seq(1..pos) /\ Len(pushed) \in Nat
  BY NumbersFacts
<1>2. pushed' = Append(pushed, f)
  BY DEF PushOut
<1> QED BY <1>1, <1>2

\* How the frame of push i may stand to one that is pushed behind it.
Before(i, f) ==
    \/ pushed[i] < f
    \/ /\ transport = "rtp" /\ pushed[i] = f
       /\ \A k \in (i + 1)..Len(pushed) : pushed[k] < f
    \/ /\ transport = "rtp" /\ pushed[i] > f
       /\ \A k \in 1..Len(pushed) : pushed[k] # f

\* The order is kept if it holds between each push and the new one, which repeats none
\* that is behind a newer one.
LEMMA OrderAppends ==
    ASSUME SizesOK, TypeOK, PushedInOrder, NEW f \in Nat, PushOut(f),
           transport' = transport,
           \A i \in 1..Len(pushed) : Before(i, f),
           \A i, j \in 1..Len(pushed) : i < j /\ pushed[i] > pushed[j] => pushed[j] # f
    PROVE  PushedInOrder'
<1> DEFINE n == Len(pushed)
           q == pushed'
<1>1. /\ n \in Nat /\ DOMAIN pushed = 1..n /\ DOMAIN q = 1..(n + 1) /\ q[n + 1] = f
      /\ \A i \in 1..n : q[i] = pushed[i] /\ pushed[i] \in Nat
  BY PushedOut, NumbersFacts
<1>2. /\ \A i \in 1..n : Before(i, f)
      /\ \A i, j \in 1..n : i < j /\ pushed[i] > pushed[j] => pushed[j] # f
  OBVIOUS
<1> HIDE DEF n, q
<1>3. ASSUME NEW i \in DOMAIN q, NEW j \in DOMAIN q, i < j
      PROVE  \/ q[i] < q[j]
             \/ /\ transport = "rtp" /\ q[i] = q[j]
                /\ \A k \in (i + 1)..(j - 1) : q[k] < q[j]
             \/ /\ transport = "rtp" /\ q[i] > q[j]
                /\ \A k \in DOMAIN q : q[k] = q[j] => k = j
  <2>1. i \in 1..n
    BY <1>1, <1>3
  <2>2. CASE j = n + 1
    <3>1. q[j] = f /\ q[i] = pushed[i]
      BY <1>1, <2>1, <2>2
    <3>2. \A k \in (i + 1)..(j - 1) : k \in 1..n /\ q[k] = pushed[k]
      BY <1>1, <2>1, <2>2
    <3>3. \/ q[i] < f
          \/ /\ transport = "rtp" /\ q[i] = f
             /\ \A k \in (i + 1)..n : pushed[k] < f
          \/ /\ transport = "rtp" /\ q[i] > f
             /\ \A k \in 1..n : pushed[k] # f
      BY <1>2, <2>1, <3>1, Zenon DEF Before, n
    <3>4. ASSUME \A k \in 1..n : pushed[k] # f, NEW k \in DOMAIN q, q[k] = q[j]
          PROVE  k = j
      <4>1. k \in 1..n \/ k = n + 1
        BY <1>1
      <4> QED BY <1>1, <2>2, <3>1, <3>4, <4>1
    <3>5. ASSUME \A k \in (i + 1)..n : pushed[k] < f, NEW k \in (i + 1)..(j - 1)
          PROVE  q[k] < q[j]
      BY <1>1, <2>1, <2>2, <3>1, <3>2, <3>5
    <3> QED BY <3>1, <3>3, <3>4, <3>5
  <2>3. CASE j \in 1..n
    <3>1. q[i] = pushed[i] /\ q[j] = pushed[j]
      BY <1>1, <2>1, <2>3
    <3>2. \A k \in (i + 1)..(j - 1) : q[k] = pushed[k]
      BY <1>1, <2>1, <2>3
    <3>3. \/ pushed[i] < pushed[j]
          \/ /\ transport = "rtp" /\ pushed[i] = pushed[j]
             /\ \A k \in (i + 1)..(j - 1) : pushed[k] < pushed[j]
          \/ /\ transport = "rtp" /\ pushed[i] > pushed[j]
             /\ \A k \in 1..n : pushed[k] = pushed[j] => k = j
      BY <1>1, <1>3, <2>1, <2>3, Zenon DEF PushedInOrder
    <3>4. ASSUME pushed[i] > pushed[j], \A k \in 1..n : pushed[k] = pushed[j] => k = j,
                 NEW k \in DOMAIN q, q[k] = q[j]
          PROVE  k = j
      <4>1. q[n + 1] # q[j]
        BY <1>1, <1>2, <1>3, <2>1, <2>3, <3>1, <3>4
      <4>2. k \in 1..n
        BY <1>1, <3>4, <4>1
      <4> QED BY <1>1, <3>1, <3>4, <4>2
    <3> QED BY <3>1, <3>2, <3>3, <3>4
  <2> QED BY <1>1, <1>3, <2>2, <2>3
<1> QED BY <1>3 DEF PushedInOrder, q

\* A newer frame is pushed.
LEMMA NewPush ==
    ASSUME IInv, NEW f \in Nat, pos < f, PushOut(f), pos' = f,
           aside' = aside, transport' = transport
    PROVE  PushInv'
<1>1. SizesOK /\ TypeOK /\ PushInv
  BY DEF IInv
<1>2. /\ DOMAIN pushed' = 1..(Len(pushed) + 1) /\ pushed'[Len(pushed) + 1] = f
      /\ \A i \in 1..Len(pushed) : pushed'[i] = pushed[i]
  BY <1>1, PushedOut
<1>3. /\ pos \in Nat /\ Len(pushed) \in Nat /\ DOMAIN pushed = 1..Len(pushed)
      /\ \A i \in 1..Len(pushed) : pushed[i] \in 1..pos /\ pushed[i] < f
  BY <1>1, NumbersFacts
<1>4. aside \subseteq 1..pos
  BY <1>1 DEF TypeOK
<1>5. PushedInOrder'
  <2>1. \A i \in 1..Len(pushed) : Before(i, f) /\ pushed[i] # f
    BY <1>3 DEF Before
  <2> QED BY <1>1, <2>1, OrderAppends DEF PushInv
<1>6. \A i \in DOMAIN pushed' : pushed'[i] \notin aside'
  BY <1>1, <1>2, <1>3, <1>4 DEF PushInv
<1>7. \E i \in DOMAIN pushed' : /\ pushed'[i] = pos'
                               /\ \A k \in DOMAIN pushed' : pushed'[k] = pos' => k = i
  <2>1. Len(pushed) + 1 \in DOMAIN pushed'
    BY <1>2, <1>3
  <2>2. \A k \in DOMAIN pushed' : pushed'[k] = pos' => k = Len(pushed) + 1
    BY <1>2, <1>3
  <2> QED BY <1>2, <2>1, <2>2
<1> QED BY <1>5, <1>6, <1>7 DEF PushInv

\* The frame in cur_ is pushed again.
LEMMA RepeatedPush ==
    ASSUME IInv, again, transport = "rtp", PushOut(pos), ~again', pos' = pos,
           aside' = aside, transport' = transport
    PROVE  PushInv'
<1>1. SizesOK /\ TypeOK /\ PushInv
  BY DEF IInv
<1>2. /\ DOMAIN pushed' = 1..(Len(pushed) + 1) /\ pushed'[Len(pushed) + 1] = pos
      /\ \A i \in 1..Len(pushed) : pushed'[i] = pushed[i]
  BY <1>1, PushedOut
<1>3. /\ pos \in Nat /\ Len(pushed) \in Nat /\ DOMAIN pushed = 1..Len(pushed)
      /\ \A i \in 1..Len(pushed) : pushed[i] \in 1..pos
  BY <1>1, NumbersFacts
<1>4. PICK once \in 1..Len(pushed) :
        pushed[once] = pos /\ \A k \in 1..Len(pushed) : pushed[k] = pos => k = once
  BY <1>1, <1>3 DEF PushInv
<1>5. PushedInOrder'
  <2>1. ASSUME NEW i \in 1..Len(pushed) PROVE Before(i, pos)
    <3>1. CASE pushed[i] # pos
      BY <1>3, <3>1 DEF Before
    <3>2. CASE pushed[i] = pos
      <4>1. i = once
        BY <1>4, <3>2
      <4>2. ASSUME NEW k \in (i + 1)..Len(pushed) PROVE pushed[k] < pos
        <5>1. k \in 1..Len(pushed) /\ k # once
          BY <1>3, <4>1
        <5> QED BY <1>3, <1>4, <5>1
      <4> QED BY <3>2, <4>2 DEF Before
    <3> QED BY <3>1, <3>2
  <2>2. \A i, j \in 1..Len(pushed) : pushed[i] > pushed[j] => pushed[j] # pos
    BY <1>3
  <2> QED BY <1>1, <1>3, <2>1, <2>2, OrderAppends DEF PushInv
<1>6. ASSUME NEW i \in DOMAIN pushed' PROVE pushed'[i] \notin aside'
  <2>1. \A k \in 1..Len(pushed) : pushed[k] \notin aside
    BY <1>1, <1>3 DEF PushInv
  <2>2. pos \notin aside
    BY <1>4, <2>1
  <2>3. i = Len(pushed) + 1 \/ i \in 1..Len(pushed)
    BY <1>2, <1>3
  <2> QED BY <1>2, <2>1, <2>2, <2>3
<1> QED BY <1>5, <1>6 DEF PushInv

\* A frame that was set aside is pushed, or given up.
LEMMA ZombiePush ==
    ASSUME IInv, transport = "rtp", NEW f \in aside, aside' = aside \ {f},
           PushOut(f) \/ UNCHANGED pushed, again' = again, pos' = pos,
           transport' = transport
    PROVE  PushInv'
<1>1. SizesOK /\ TypeOK /\ PushInv
  BY DEF IInv
<1>2. /\ pos \in Nat /\ Len(pushed) \in Nat /\ DOMAIN pushed = 1..Len(pushed)
      /\ \A i \in 1..Len(pushed) : pushed[i] \in 1..pos /\ pushed[i] # f
      /\ f \in 1..pos
  BY <1>1, NumbersFacts DEF PushInv, TypeOK
<1>3. CASE PushOut(f)
  <2>1. /\ DOMAIN pushed' = 1..(Len(pushed) + 1) /\ pushed'[Len(pushed) + 1] = f
        /\ \A i \in 1..Len(pushed) : pushed'[i] = pushed[i]
    BY <1>1, <1>3, PushedOut
  <2>2. PushedInOrder'
    <3>1. \A i \in 1..Len(pushed) : Before(i, f)
      BY <1>2 DEF Before
    <3> QED BY <1>1, <1>2, <1>3, <3>1, OrderAppends DEF PushInv
  <2>3. \A i \in DOMAIN pushed' : pushed'[i] \notin aside'
    BY <1>1, <1>2, <2>1 DEF PushInv
  <2>4. ASSUME again
        PROVE  \E i \in DOMAIN pushed' :
                 /\ pushed'[i] = pos'
                 /\ \A k \in DOMAIN pushed' : pushed'[k] = pos' => k = i
    <3>1. PICK once \in 1..Len(pushed) :
            pushed[once] = pos /\ \A k \in 1..Len(pushed) : pushed[k] = pos => k = once
      BY <1>1, <1>2, <2>4 DEF PushInv
    <3>2. f # pos /\ once \in DOMAIN pushed' /\ pushed'[once] = pos
      BY <1>2, <2>1, <3>1
    <3>3. \A k \in DOMAIN pushed' : pushed'[k] = pos => k = once
      BY <1>2, <2>1, <3>1, <3>2
    <3> QED BY <3>2, <3>3
  <2> QED BY <2>2, <2>3, <2>4 DEF PushInv
<1>4. CASE UNCHANGED pushed
  BY <1>1, <1>4 DEF PushInv, PushedInOrder
<1> QED BY <1>3, <1>4

\* What a step of the receiver does with the frames.
LEMMA ReceiverStep ==
    ASSUME IInv, FrameComes \/ Outputs
    PROVE  /\ came' \in Numbers /\ pos' \in 0..came' /\ again' \in BOOLEAN
           /\ aside' \subseteq 1..pos' /\ pushed' \in Seq(1..pos')
           /\ out' \in Seq(Nat) /\ Len(out') <= OutSize
           /\ Len(pushed) <= Len(pushed') /\ Rising(out', frame, Len(pushed'))
           /\ PushInv'
<1>1. SizesOK /\ TypeOK /\ OrderInv /\ PushInv
  BY DEF IInv
<1>2. /\ came \in Nat /\ pos \in Nat /\ pos <= came /\ came <= NFrames /\ NFrames \in Nat
      /\ Len(pushed) \in Nat
  BY <1>1, NumbersFacts
<1>3. /\ again \in BOOLEAN /\ aside \subseteq 1..pos /\ pushed \in Seq(1..pos)
      /\ out \in Seq(Nat) /\ Len(out) <= OutSize /\ Rising(out, frame, Len(pushed))
  BY <1>1 DEF TypeOK, OrderInv
<1>4. transport' = transport
  BY DEF FrameComes, Outputs, arguments
\* Every push, and what it needs.
<1>5. ASSUME NEW f \in Nat, pos < f, f <= came', PushOut(f), pos' = f, aside' = aside,
             came' \in Numbers, again' \in BOOLEAN
      PROVE  /\ pos' \in 0..came' /\ aside' \subseteq 1..pos' /\ pushed' \in Seq(1..pos')
             /\ out' \in Seq(Nat) /\ Len(out') <= OutSize
             /\ Len(pushed) <= Len(pushed') /\ Rising(out', frame, Len(pushed'))
             /\ PushInv'
  <2>1. PushInv'
    BY <1>4, <1>5, NewPush
  <2>2. f \in 1..f /\ pos <= f
    BY <1>2, <1>5
  <2>3. /\ out' \in Seq(Nat) /\ Len(out') <= OutSize
        /\ pushed' \in Seq(1..f) /\ Len(pushed') = Len(pushed) + 1
        /\ Rising(out', frame, Len(pushed'))
    BY <1>5, <2>2, PushOutStep
  <2>4. pos' \in 0..came' /\ aside' \subseteq 1..pos'
    BY <1>2, <1>3, <1>5 DEF Numbers
  <2> QED BY <1>2, <1>5, <2>1, <2>3, <2>4
<1>6. CASE FrameComes
  <2>1. /\ came' = came + 1 /\ came' \in Numbers /\ again' = again /\ aside' = aside
    BY <1>2, <1>6 DEF FrameComes, Numbers
  <2>2. CASE transport = "tcp"
    <3>1. PushOut(came + 1) /\ pos' = came + 1
      BY <1>6, <2>1, <2>2 DEF FrameComes
    <3> QED BY <1>2, <1>3, <1>5, <2>1, <3>1
  <2>3. CASE transport # "tcp"
    <3>1. UNCHANGED <<pos, pushed, out>>
      BY <1>6, <2>3 DEF FrameComes
    <3>2. PushInv'
      BY <1>1, <1>4, <2>1, <3>1 DEF PushInv, PushedInOrder
    <3> QED BY <1>2, <1>3, <2>1, <3>1, <3>2
  <2> QED BY <2>2, <2>3
<1>7. CASE Outputs
  <2>1. came' = came /\ came' \in Numbers
    BY <1>1, <1>7 DEF Outputs, TypeOK
  <2>2. CASE HandsOn
    <3>1. PICK f \in (pos + 1)..came : pos' = f /\ PushOut(f)
      BY <2>2 DEF HandsOn
    <3>2. aside' = aside /\ again' = again
      BY <2>2 DEF HandsOn
    <3> QED BY <1>2, <1>3, <1>5, <2>1, <3>1, <3>2
  <2>3. CASE FrameEnds
    <3>1. PICK f \in (pos + 1)..came :
            /\ pos' = f
            /\ \/ PushOut(f) /\ again' \in BOOLEAN /\ UNCHANGED aside
               \/ aside' = aside \cup {f} /\ UNCHANGED <<again, pushed, out>>
      BY <2>3 DEF FrameEnds
    <3>2. CASE PushOut(f) /\ again' \in BOOLEAN /\ UNCHANGED aside
      BY <1>2, <1>5, <2>1, <3>1, <3>2
    <3>3. CASE aside' = aside \cup {f} /\ UNCHANGED <<again, pushed, out>>
      <4>1. f \in Nat /\ pos < f /\ f <= came /\ ~again /\ 1..pos \subseteq 1..f
        BY <1>2, <2>3 DEF FrameEnds
      <4>2. pushed \in Seq(1..f)
        BY <1>3, <4>1, SeqMonotonic
      <4>3. \A i \in DOMAIN pushed : pushed[i] # f
        BY <1>1, <4>1, NumbersFacts
      <4>4. PushInv'
        BY <1>1, <1>4, <3>3, <4>1, <4>3 DEF PushInv, PushedInOrder
      <4> QED BY <1>2, <1>3, <2>1, <3>1, <3>3, <4>1, <4>2, <4>4
    <3> QED BY <3>1, <3>2, <3>3
  <2>4. CASE FrameRepeats
    <3>1. /\ transport = "rtp" /\ again /\ PushOut(pos) /\ again' = FALSE
          /\ pos' = pos /\ aside' = aside
      BY <2>4 DEF FrameRepeats
    <3>2. PushInv'
      BY <1>4, <3>1, RepeatedPush
    <3>3. pos \in 1..pos
      <4>1. PICK i \in DOMAIN pushed : pushed[i] = pos
        BY <1>1, <3>1 DEF PushInv
      <4> QED BY <1>1, <4>1, NumbersFacts
    <3>4. /\ out' \in Seq(Nat) /\ Len(out') <= OutSize
          /\ pushed' \in Seq(1..pos) /\ Len(pushed') = Len(pushed) + 1
          /\ Rising(out', frame, Len(pushed'))
      BY <1>2, <3>1, <3>3, PushOutStep
    <3>5. pos' \in 0..came' /\ aside' \subseteq 1..pos'
      BY <1>2, <1>3, <2>1, <3>1
    <3>6. Len(pushed) <= Len(pushed')
      BY <1>2, <3>4
    <3>7. again' \in BOOLEAN
      BY <3>1, Zenon
    <3>8. pushed' \in Seq(1..pos')
      BY <3>1, <3>4, Zenon
    <3> QED BY <2>1, <3>2, <3>4, <3>5, <3>6, <3>7, <3>8
  <2>5. CASE ZombieEnds
    <3>1. PICK f \in aside : /\ aside' = OffAside(f)
                             /\ PushOut(f) \/ UNCHANGED <<pushed, out>>
      BY <2>5 DEF ZombieEnds
    <3>2. /\ transport = "rtp" /\ pos' = pos /\ again' = again
          /\ aside' = aside \ {f} /\ f \in 1..pos
      BY <1>3, <2>5, <3>1 DEF ZombieEnds, OffAside
    <3>3. PushInv'
      BY <1>4, <3>1, <3>2, ZombiePush
    <3>4. CASE PushOut(f)
      <4>1. /\ out' \in Seq(Nat) /\ Len(out') <= OutSize
            /\ pushed' \in Seq(1..pos) /\ Len(pushed') = Len(pushed) + 1
            /\ Rising(out', frame, Len(pushed'))
        BY <1>2, <3>2, <3>4, PushOutStep
      <4> QED BY <1>2, <1>3, <2>1, <3>2, <3>3, <4>1
    <3>5. CASE UNCHANGED <<pushed, out>>
      BY <1>2, <1>3, <2>1, <3>2, <3>3, <3>5
    <3> QED BY <3>1, <3>4, <3>5
  <2> QED BY <1>7, <2>2, <2>3, <2>4, <2>5 DEF Outputs
<1> QED BY <1>6, <1>7

\* What the actions that leave the queues and the numbers alone keep.
numberVars == <<came, outputVars, out, frame, decoded_q, newest, shown>>

\* The rest of TypeOK.
PlacesOK ==
    /\ transport \in {"tcp", "udp", "rtp"} /\ headless \in BOOLEAN
    /\ main \in {"opens", "tests", "pops", "joins_rx", "joins_decoder", "returned",
                 "aborted"}
    /\ closing \in BOOLEAN /\ stop_flag \in BOOLEAN /\ running \in BOOLEAN
    /\ alive \subseteq RxThreads(transport) \cup {"decode"}
    /\ out_closed \in BOOLEAN /\ decoder \in {"opens", "pops", "decodes"}

\* Threads end, and main goes on, without a touch of the queues.
LEMMA PlacesStep ==
    ASSUME TypeOK, JoinInv, [Next]_vars
    PROVE  PlacesOK' /\ JoinInv' /\ alive' \subseteq alive
<1> USE DEF TypeOK, PlacesOK, JoinInv, arguments, queueVars
<1>1. CASE UNCHANGED vars
  BY <1>1 DEF vars
<1>2. CASE FrameComes \/ Outputs
  <2>1. UNCHANGED <<arguments, main, closing, stop_flag, running, alive, out_closed,
                    decoder>>
    BY <1>2 DEF FrameComes, Outputs
  <2> QED BY <2>1
<1>3. CASE RecvEnds \/ OutputEnds \/ PingEnds
  BY <1>3 DEF RecvEnds, OutputEnds, PingEnds, LoopEnds
<1>4. CASE Decoder
  <2>1. /\ UNCHANGED <<arguments, main, closing, running, out_closed>>
        /\ alive' \in {alive, alive \ {"decode"}}
        /\ decoder' \in {decoder, "pops", "decodes"}
    BY <1>4 DEF Decoder, DecoderOpens, DecoderFails, DecoderPops, Decodes, DecoderGoesOn
  <2>2. stop_flag' \in {stop_flag, TRUE}
    BY <1>4, Zenon DEF Decoder, DecoderOpens, DecoderFails, DecoderPops, Decodes
  <2>3. stop_flag' \in BOOLEAN /\ (stop_flag => stop_flag')
    BY <2>2, Zenon
  <2> QED BY <2>1, <2>3
<1>5. CASE WindowOpens \/ WindowFails \/ MainTests \/ MainPops
  BY <1>5 DEF WindowOpens, WindowFails, MainTests, MainPops, Goes
<1>6. CASE MainStops
  BY <1>6 DEF MainStops, LoopIsOver
<1>7. CASE MainJoinsReceiver
  BY <1>7 DEF MainJoinsReceiver, Joined, OutCloses
<1>8. CASE MainJoinsDecoder
  BY <1>8 DEF MainJoinsDecoder, Goes
<1>9. CASE Closes
  BY <1>9 DEF Closes
<1> QED BY <1>1, <1>2, <1>3, <1>4, <1>5, <1>6, <1>7, <1>8, <1>9 DEF Next, Main

\* The other part.
NumbersOK ==
    /\ came \in Numbers /\ pos \in 0..came /\ again \in BOOLEAN
    /\ aside \subseteq 1..pos /\ pushed \in Seq(1..pos)
    /\ out \in Seq(Nat) /\ Len(out) <= OutSize
    /\ frame \in 0..Len(pushed)
    /\ decoded_q \in Seq(Nat) /\ Len(decoded_q) <= DecodedSize
    /\ newest \in 0..frame /\ shown \in 0..newest

\* The numbers and the queues: who touches them keeps their order.
LEMMA NumbersStep ==
    ASSUME IInv, [Next]_vars, alive' \subseteq alive
    PROVE  NumbersOK' /\ OrderInv' /\ PushInv'
<1>0. SizesOK /\ TypeOK /\ OrderInv /\ PushInv /\ NumbersOK
  BY DEF IInv, TypeOK, NumbersOK
<1>a. /\ frame \in Nat /\ newest \in Nat /\ shown \in Nat /\ Len(pushed) \in Nat
      /\ newest <= frame /\ shown <= newest /\ frame <= Len(pushed)
      /\ OutSize \in Nat \ {0} /\ DecodedSize \in Nat \ {0}
  BY <1>0, NumbersFacts
<1>b. /\ Rising(decoded_q, shown, newest) /\ Rising(out, frame, Len(pushed))
      /\ (decoder = "decodes" /\ "decode" \in alive => newest < frame)
      /\ out \in Seq(Nat) /\ decoded_q \in Seq(Nat) /\ Len(decoded_q) <= DecodedSize
  BY <1>0 DEF OrderInv, NumbersOK
<1>1. CASE UNCHANGED numberVars /\ (decoder' = "decodes" => decoder = "decodes")
           /\ transport' = transport
  <2>1. NumbersOK'
    BY <1>0, <1>1 DEF numberVars, outputVars, NumbersOK
  <2>2. OrderInv'
    BY <1>0, <1>1 DEF numberVars, outputVars, OrderInv
  <2>3. PushInv'
    BY <1>0, <1>1 DEF numberVars, outputVars, PushInv, PushedInOrder
  <2> QED BY <2>1, <2>2, <2>3
<1>2. CASE FrameComes \/ Outputs
  <2>1. UNCHANGED <<frame, decoded_q, newest, shown, decoder, alive>>
    BY <1>2 DEF FrameComes, Outputs
  <2>2. /\ came' \in Numbers /\ pos' \in 0..came' /\ again' \in BOOLEAN
        /\ aside' \subseteq 1..pos' /\ pushed' \in Seq(1..pos')
        /\ out' \in Seq(Nat) /\ Len(out') <= OutSize
        /\ Len(pushed) <= Len(pushed') /\ Rising(out', frame, Len(pushed'))
        /\ PushInv'
    BY <1>2, ReceiverStep
  <2>3. frame' \in 0..Len(pushed')
    BY <1>a, <2>1, <2>2
  <2> QED BY <1>0, <1>b, <2>1, <2>2, <2>3 DEF OrderInv, NumbersOK
<1>3. ASSUME UNCHANGED outputVars, UNCHANGED transport PROVE PushInv'
  BY <1>0, <1>3 DEF outputVars, PushInv, PushedInOrder
<1>4. CASE DecoderPops
  <2>1. UNCHANGED <<came, outputVars, transport, decoded_q, newest, shown>>
    BY <1>4 DEF DecoderPops, arguments
  <2>2. CASE out # <<>>
    <3>1. /\ frame' = Head(out) /\ out' = Tail(out) /\ decoder' = "decodes"
      BY <1>4, <2>2 DEF DecoderPops
    <3>2. /\ Rising(out', frame', Len(pushed)) /\ frame' \in Nat /\ frame < frame'
          /\ frame' <= Len(pushed)
      BY <1>a, <1>b, <2>2, <3>1, PopRises
    <3>3. out' \in Seq(Nat) /\ Len(out') = Len(out) - 1
      BY <1>b, <2>2, <3>1
    <3>4. Len(out') <= OutSize
      BY <1>0, <1>a, <1>b, <3>3 DEF NumbersOK
    <3>5. NumbersOK'
      BY <1>0, <1>a, <2>1, <3>2, <3>3, <3>4 DEF NumbersOK, outputVars
    <3>6. OrderInv'
      BY <1>a, <1>b, <2>1, <3>2 DEF OrderInv, outputVars
    <3> QED BY <1>3, <2>1, <3>5, <3>6
  <2>3. CASE out = <<>>
    <3>1. UNCHANGED <<frame, out, decoder>>
      BY <1>4, <2>3 DEF DecoderPops
    <3> QED BY <1>1, <2>1, <3>1 DEF numberVars
  <2> QED BY <2>2, <2>3
<1>5. CASE Decodes
  <2>1. /\ UNCHANGED <<came, outputVars, transport, out, frame, shown>>
        /\ decoder = "decodes" /\ "decode" \in alive
        /\ decoder' = "decodes" => "decode" \notin alive'
    BY <1>5 DEF Decodes, DecoderGoesOn, arguments
  <2>2. CASE decoded_q' = Pushed(decoded_q, frame, DecodedSize) /\ newest' = frame
    <3>1. newest < frame
      BY <1>b, <2>1
    <3>2. decoded_q' \in Seq(Nat) /\ Len(decoded_q') <= DecodedSize
      BY <1>a, <1>b, <2>2, PushedQueue
    <3>3. Rising(decoded_q', shown, frame)
      BY <1>a, <1>b, <2>2, <3>1, PushRises
    <3>4. NumbersOK'
      BY <1>0, <1>a, <2>1, <2>2, <3>2 DEF NumbersOK, outputVars
    <3>5. OrderInv'
      BY <1>b, <2>1, <2>2, <3>3 DEF OrderInv, outputVars
    <3> QED BY <1>3, <2>1, <3>4, <3>5
  <2>3. CASE UNCHANGED <<decoded_q, newest>>
    BY <1>1, <2>1, <2>3 DEF numberVars
  <2> QED BY <1>5, <2>2, <2>3 DEF Decodes
<1>6. CASE MainPops
  <2>1. UNCHANGED <<came, outputVars, transport, out, frame, newest, alive, decoder>>
    BY <1>6 DEF MainPops, arguments
  <2>2. CASE decoded_q # <<>>
    <3>1. shown' = Head(decoded_q) /\ decoded_q' = Tail(decoded_q)
      BY <1>6, <2>2 DEF MainPops
    <3>2. /\ Rising(decoded_q', shown', newest) /\ shown' \in Nat /\ shown < shown'
          /\ shown' <= newest
      BY <1>a, <1>b, <2>2, <3>1, PopRises
    <3>3. decoded_q' \in Seq(Nat) /\ Len(decoded_q') = Len(decoded_q) - 1
      BY <1>b, <2>2, <3>1
    <3>4. Len(decoded_q') <= DecodedSize
      BY <1>a, <1>b, <3>3
    <3>5. NumbersOK'
      BY <1>0, <1>a, <2>1, <3>2, <3>3, <3>4 DEF NumbersOK, outputVars
    <3>6. OrderInv'
      BY <1>b, <2>1, <3>2 DEF OrderInv, outputVars
    <3> QED BY <1>3, <2>1, <3>5, <3>6
  <2>3. CASE decoded_q = <<>>
    <3>1. UNCHANGED <<shown, decoded_q>>
      BY <1>6, <2>3 DEF MainPops
    <3> QED BY <1>1, <2>1, <3>1 DEF numberVars
  <2> QED BY <2>2, <2>3
<1>7. CASE \/ RecvEnds \/ OutputEnds \/ PingEnds \/ DecoderOpens \/ DecoderFails \/ Closes
           \/ WindowOpens \/ WindowFails \/ MainTests \/ MainStops \/ MainJoinsReceiver
           \/ MainJoinsDecoder
  <2>1. /\ UNCHANGED numberVars /\ (decoder' = "decodes" => decoder = "decodes")
        /\ transport' = transport
    BY <1>7 DEF RecvEnds, OutputEnds, PingEnds, LoopEnds, DecoderOpens, DecoderGoesOn,
                DecoderFails, Closes, WindowOpens, WindowFails, MainTests, MainStops,
                MainJoinsReceiver, MainJoinsDecoder, Goes, numberVars, queueVars, arguments
  <2> QED BY <1>1, <2>1
<1>8. CASE UNCHANGED vars
  <2>1. UNCHANGED numberVars /\ decoder' = decoder /\ transport' = transport
    BY <1>8 DEF vars, queueVars, numberVars, arguments
  <2> QED BY <1>1, <2>1
<1> QED BY <1>2, <1>4, <1>5, <1>6, <1>7, <1>8 DEF Next, Decoder, Main

\* Every step keeps the four parts.
LEMMA NextIInv == IInv /\ [Next]_vars => IInv'
<1> SUFFICES ASSUME IInv, [Next]_vars PROVE IInv'
  OBVIOUS
<1>1. TypeOK /\ JoinInv
  BY DEF IInv
<1>2. PlacesOK' /\ JoinInv' /\ alive' \subseteq alive
  BY <1>1, PlacesStep
<1>3. NumbersOK' /\ OrderInv' /\ PushInv'
  BY <1>2, NumbersStep
<1>4. TypeOK'
  BY <1>2, <1>3, Zenon DEF PlacesOK, NumbersOK, TypeOK
<1>5. SizesOK'
  BY DEF IInv, SizesOK
<1> QED BY <1>2, <1>3, <1>4, <1>5 DEF IInv

\* The queues keep their bounds, and what is shown was pushed to decoded_q before, what
\* is there to out, once for each push, repetitions of the RTP receiver included.
THEOREM AlwaysTypeOK == ASSUME SizesOK PROVE Spec => []TypeOK
<1>1. IInv => TypeOK
  BY DEF IInv
<1> QED BY <1>1, InitIInv, NextIInv, PTL DEF Spec

\* main waits for every thread.
THEOREM AlwaysNoThreadLeft == ASSUME SizesOK PROVE Spec => []NoThreadLeft
<1>1. IInv => NoThreadLeft
  BY DEF IInv, JoinInv, NoThreadLeft
<1> QED BY <1>1, InitIInv, NextIInv, PTL DEF Spec

\* And every thread that it waits for has been told to end.
THEOREM AlwaysReleased == ASSUME SizesOK PROVE Spec => []Released
<1>1. IInv => Released
  BY DEF IInv, JoinInv, Released
<1> QED BY <1>1, InitIInv, NextIInv, PTL DEF Spec

\* What reaches out: over TCP and UDP frames in order, each once; over RTP a frame twice
\* at most, with none but repaired ones in between, and late only if it is repaired.
THEOREM AlwaysPushedInOrder == ASSUME SizesOK PROVE Spec => []PushedInOrder
<1>1. IInv => PushedInOrder
  BY DEF IInv, PushInv
<1> QED BY <1>1, InitIInv, NextIInv, PTL DEF Spec

\* Pictures are shown in the order in which their frames were pushed to out, one for each
\* push at most, whatever the queues and the decoder leave out.
THEOREM AlwaysShownInOrder == ASSUME SizesOK PROVE Spec => ShownInOrder
<1>1. IInv /\ [Next]_vars => [MainPops /\ decoded_q # <<>> => shown' > shown]_vars
  <2> SUFFICES ASSUME IInv, MainPops, decoded_q # <<>> PROVE shown' > shown
    OBVIOUS
  <2>1. shown' = Head(decoded_q)
    BY DEF MainPops
  <2>2. /\ shown \in Nat /\ newest \in Nat /\ decoded_q \in Seq(Nat)
        /\ Rising(decoded_q, shown, newest)
    BY NumbersFacts DEF IInv, OrderInv
  <2>3. Head(decoded_q) \in Nat /\ shown < Head(decoded_q)
    BY <2>2, PopRises
  <2> QED BY <2>1, <2>2, <2>3
<1> QED BY <1>1, InitIInv, NextIInv, PTL DEF Spec, ShownInOrder

-----------------------------------------------------------------------------
\* Within half a wrap of the reference, before it or after, the extension is the time
\* that was sent: packets that come out of order around a wrap are no exception.
THEOREM ExtendsNearby ==
    ASSUME NEW ref \in Int, NEW t \in Int, t - ref < Half, ref - t < Half
    PROVE  Extend(ref, Low(t)) = t
BY DEF Extend, Candidate, Low, Half, Wrap

\* A reference off by whole wraps, as after a first packet from a host with another
\* uptime, stays off by as many: time stamps never jump by a wrap.
THEOREM KeepsOffset ==
    ASSUME NEW ref \in Int, NEW t \in Int, NEW k \in Int,
           t - ref < Half, ref - t < Half
    PROVE  Extend(ref + k * Wrap, Low(t)) = t + k * Wrap
<1>1. Low(t) = Low(t + k * Wrap)
  BY DEF Low, Wrap
<1> DEFINE r == ref + k * Wrap
           u == t + k * Wrap
<1>2. r \in Int /\ u \in Int /\ u - r < Half /\ r - u < Half
  BY DEF Wrap
<1> HIDE DEF r, u
<1>3. Extend(r, Low(u)) = u
  BY <1>2, ExtendsNearby
<1> QED BY <1>1, <1>3 DEF r, u

\* The first packet is extended with the local clock: whatever it shows, the extension
\* is off by whole wraps.
THEOREM FirstOffset ==
    ASSUME NEW now \in Int, NEW t \in Int
    PROVE  \E k \in Int : Extend(now, Low(t)) = t + k * Wrap
<1> DEFINE j == (now \div Wrap) - (t \div Wrap)
<1>1. j \in Int
  BY DEF Wrap
<1>2. Candidate(now, Low(t)) = t + j * Wrap
  BY DEF Candidate, Low, Wrap
<1>3. \/ Extend(now, Low(t)) = t + j * Wrap
      \/ Extend(now, Low(t)) = t + (j + 1) * Wrap
      \/ Extend(now, Low(t)) = t + (j - 1) * Wrap
  BY <1>1, <1>2 DEF Extend, Wrap
<1> HIDE DEF j
<1> QED BY <1>1, <1>3

\* The receiver finds the parity packet of a frame under its own key as long as its
\* reference is a time of the server: the assembly may name both by the frame.
THEOREM ParityFound ==
    ASSUME NEW ms \in Nat, NEW ref \in Int,
           ms * TicksPerMs - ref < Half, ref - ms * TicksPerMs < Half
    PROVE  LookupKey(ref, Timestamp(ms)) = ParityKey(ms)
<1> DEFINE t == ms * TicksPerMs
<1>1. t \in Int /\ t - ref < Half /\ ref - t < Half
  BY DEF TicksPerMs
<1>2. t \div TicksPerMs = ms /\ t >= 0
  BY DEF TicksPerMs
<1> HIDE DEF t
<1>3. Extend(ref, Low(t)) = t
  BY <1>1, ExtendsNearby
<1> QED BY <1>1, <1>2, <1>3 DEF t, LookupKey, CaptureMs, Truncated, Timestamp, ParityKey

\* With a reference that is off by wraps, fewer than 90 (seven weeks), it never finds
\* one: 2^32 is no multiple of 90.  Between hosts whose uptimes differ by more than
\* six hours FEC repairs no frame of the RTP link.
THEOREM ParityNeverFound ==
    ASSUME NEW ms \in Nat, NEW ref \in Int, NEW k \in -89..89, k # 0,
           ms * TicksPerMs - ref < Half, ref - ms * TicksPerMs < Half
    PROVE  LookupKey(ref + k * Wrap, Timestamp(ms)) # ParityKey(ms)
<1> DEFINE t == ms * TicksPerMs
           c == Truncated(t + k * Wrap)
           d == c - ms
<1>1. t \in Int /\ t - ref < Half /\ ref - t < Half
  BY DEF TicksPerMs
<1>2. d \in Int /\ -Wrap < d /\ d < Wrap /\ d # 0
  <2>1. CASE t + k * Wrap >= 0
    <3>1. c = ms + (k * Wrap) \div TicksPerMs
      BY <2>1 DEF Truncated, TicksPerMs, Wrap
    <3>2. /\ (k * Wrap) \div TicksPerMs \in Int /\ (k * Wrap) \div TicksPerMs # 0
          /\ -Wrap < (k * Wrap) \div TicksPerMs /\ (k * Wrap) \div TicksPerMs < Wrap
      BY DEF TicksPerMs, Wrap
    <3> HIDE DEF c
    <3> QED BY <3>1, <3>2
  <2>2. CASE ~(t + k * Wrap >= 0)
    <3> DEFINE x == ((-k) * Wrap) \div TicksPerMs
    <3>1. c = ms - x
      BY <2>2 DEF Truncated, TicksPerMs, Wrap
    <3>2. x \in Int /\ x # 0 /\ -Wrap < x /\ x < Wrap
      BY DEF TicksPerMs, Wrap
    <3>3. Wrap \in Int
      BY DEF Wrap
    <3> HIDE DEF c, x
    <3> QED BY <3>1, <3>2, <3>3
  <2> QED BY <2>1, <2>2
<1>3. c = ms + d
  <2>1. c \in Int
    BY DEF Truncated, TicksPerMs, Wrap
  <2> HIDE DEF c
  <2> QED BY <2>1
<1>4. Low(ms + d) # Low(ms)
  <2> HIDE DEF d
  <2> QED BY <1>2 DEF Low, Wrap
<1> HIDE DEF t, c, d
<1>5. Extend(ref + k * Wrap, Low(t)) = t + k * Wrap
  BY <1>1, KeepsOffset
<1> QED BY <1>3, <1>4, <1>5 DEF t, c, LookupKey, CaptureMs, Timestamp, ParityKey
=============================================================================
