----------------------- MODULE ThreadSafeQueue_proofs -----------------------
(***************************************************************************)
(* Theorems about ThreadSafeQueue, for all sets of threads, capacities and *)
(* both settings of drop_old_.                                             *)
(***************************************************************************)
EXTENDS ThreadSafeQueue, Integers, FiniteSetTheorems, TLAPS

\* A notification leaves every thread in one of the states.
LEMMA NotifyOneType ==
    ASSUME NEW s \in [Threads -> States], NEW awake \in States, NEW asleep,
           NEW r \in NotifyOne(s, asleep, awake)
    PROVE  r \in [Threads -> States]
  BY DEF NotifyOne, In

\* So does waking all sleepers.
LEMMA NotifyAllType ==
    ASSUME NEW s \in [Threads -> States], NEW awake \in States, NEW asleep
    PROVE  NotifyAll(s, asleep, awake) \in [Threads -> States]
  BY DEF NotifyAll

\* Putting an element into the queue: it becomes the last one, and the first
\* one leaves if the queue was full.
LEMMA EnqueueFacts ==
    ASSUME q \in Seq(Nat), NEW v \in Nat
    PROVE  /\ Enqueue(v) \in Seq(Nat)
           /\ Full  => /\ Len(Enqueue(v)) = Len(q)
                       /\ \A i \in 1..Len(q) :
                             Enqueue(v)[i] = IF i = Len(q) THEN v ELSE q[i + 1]
           /\ ~Full => /\ Len(Enqueue(v)) = Len(q) + 1
                       /\ \A i \in 1..(Len(q) + 1) :
                             Enqueue(v)[i] = IF i = Len(q) + 1 THEN v ELSE q[i]
<1>1. CASE Full
  <2>1. q # <<>> /\ Len(q) \in Nat /\ Len(q) > 0
    BY <1>1, CapacityAssumption DEF Full
  <2>2. Tail(q) \in Seq(Nat) /\ Len(Tail(q)) = Len(q) - 1
        /\ \A i \in 1..(Len(q) - 1) : Tail(q)[i] = q[i + 1]
    BY <2>1
  <2>3. Enqueue(v) = Append(Tail(q), v)
    BY <1>1 DEF Enqueue
  <2> DEFINE t == Tail(q)
  <2> HIDE DEF t
  <2>4. Enqueue(v) \in Seq(Nat) /\ Len(Enqueue(v)) = Len(t) + 1
        /\ \A i \in 1..(Len(t) + 1) :
              Append(t, v)[i] = IF i = Len(t) + 1 THEN v ELSE t[i]
    <3>1. t \in Seq(Nat) /\ Enqueue(v) = Append(t, v)
      BY <2>2, <2>3 DEF t
    <3>2. QED
      BY <3>1
  <2>5. Len(t) + 1 = Len(q) /\ \A i \in 1..(Len(q) - 1) : t[i] = q[i + 1]
    BY <2>1, <2>2 DEF t
  <2>6. Enqueue(v) = Append(t, v)
    BY <2>3 DEF t
  <2>7. ASSUME NEW i \in 1..Len(q)
        PROVE  Enqueue(v)[i] = IF i = Len(q) THEN v ELSE q[i + 1]
    <3>1. i = Len(q) \/ i \in 1..(Len(q) - 1)
      BY <2>1
    <3>2. Enqueue(v)[i] = IF i = Len(q) THEN v ELSE t[i]
      BY <2>4, <2>5, <2>6
    <3>3. QED
      BY <2>1, <2>5, <3>1, <3>2
  <2>8. QED
    BY <1>1, <2>1, <2>4, <2>5, <2>7
<1>2. CASE ~Full
  BY <1>2 DEF Enqueue
<1>3. QED
  BY <1>1, <1>2

-----------------------------------------------------------------------------
(* The inductive invariant: types, and the elements inside are the last    *)
(* ones that entered.                                                      *)

QueueInv == /\ q \in Seq(Nat)
            /\ pushed \in Nat /\ dropped \in Nat
            /\ Contiguous

\* At first the queue is empty.
LEMMA InitQueue == Init => QueueInv
  BY CapacityAssumption DEF Init, QueueInv, Contiguous, Left

\* Nothing has left it yet.
LEMMA InitLeft == Init => Left = 0
<1> SUFFICES ASSUME Init PROVE Left = 0
  OBVIOUS
<1>1. Len(q) \in Nat /\ Len(q) <= pushed
  BY InitQueue DEF QueueInv, Contiguous
<1>2. pushed = 0
  BY Zenon DEF Init
<1>3. QED
  BY <1>1, <1>2 DEF Left

\* An insertion keeps the interval and moves it on by one.
LEMMA InsertQueue ==
    ASSUME QueueInv, Insert
    PROVE  /\ QueueInv'
           /\ Full => Left' = Left + 1 /\ dropped' = dropped + 1
           /\ ~Full => Left' = Left /\ dropped' = dropped
           /\ pushed' = pushed + 1
<1>1. pushed' = pushed + 1 /\ q' = Enqueue(pushed + 1) /\ pushed + 1 \in Nat
  BY DEF Insert, QueueInv
<1>2. Len(q) \in Nat /\ Len(q) <= Capacity /\ Len(q) <= pushed
      /\ \A i \in 1..Len(q) : q[i] = pushed - Len(q) + i
  BY DEF QueueInv, Contiguous, Left
<1> DEFINE n == Len(q)
           n1 == Len(q')
<1>3. CASE Full
  <2>1. q' \in Seq(Nat) /\ Len(q') = Len(q)
        /\ \A i \in 1..Len(q) : q'[i] = IF i = Len(q) THEN pushed + 1 ELSE q[i + 1]
    BY <1>1, <1>3, EnqueueFacts DEF QueueInv
  <2>2. Left' = Left + 1 /\ dropped' = dropped + 1
    <3>1. n \in Nat /\ pushed \in Nat /\ pushed' = pushed + 1 /\ n1 = n
      BY <1>1, <1>2, <2>1 DEF QueueInv
    <3>2. Left = pushed - n /\ Left' = pushed' - n1
      BY DEF Left
    <3>3. dropped' = dropped + 1
      BY <1>3, Zenon DEF Insert
    <3> HIDE DEF n, n1
    <3>4. QED
      BY <3>1, <3>2, <3>3
  <2>3. ASSUME NEW i \in 1..Len(q') PROVE q'[i] = Left' + i
    <3>1. i \in Int /\ 1 <= i /\ i <= Len(q) /\ i \in 1..Len(q)
      BY <1>2, <2>1
    <3>2. q'[i] = IF i = Len(q) THEN pushed + 1 ELSE q[i + 1]
      BY <2>1, <3>1
    <3>3. Left' = pushed - Len(q) + 1
      BY <1>2, <2>2 DEF Left, QueueInv
    <3>4. i # Len(q) => q[i + 1] = pushed - Len(q) + (i + 1)
      BY <1>2, <3>1
    <3>5. pushed \in Int /\ Len(q) \in Int
      BY <1>2 DEF QueueInv
    <3>6. QED
      BY <3>1, <3>2, <3>3, <3>4, <3>5
  <2>4. QED
    BY <1>1, <1>2, <1>3, <2>1, <2>2, <2>3 DEF QueueInv, Contiguous
<1>4. CASE ~Full
  <2>1. q' \in Seq(Nat) /\ Len(q') = Len(q) + 1
        /\ \A i \in 1..(Len(q) + 1) : q'[i] = IF i = Len(q) + 1 THEN pushed + 1 ELSE q[i]
    BY <1>1, <1>4, EnqueueFacts DEF QueueInv
  <2>2. Left' = Left /\ dropped' = dropped
    <3>1. n \in Nat /\ pushed \in Nat /\ pushed' = pushed + 1 /\ n1 = n + 1
      BY <1>1, <1>2, <2>1 DEF QueueInv
    <3>2. Left = pushed - n /\ Left' = pushed' - n1
      BY DEF Left
    <3>3. dropped' = dropped
      BY <1>4, Zenon DEF Insert
    <3> HIDE DEF n, n1
    <3>4. QED
      BY <3>1, <3>2, <3>3
  <2>3. ASSUME NEW i \in 1..Len(q') PROVE q'[i] = Left' + i
    <3>1. i \in Int /\ 1 <= i /\ i <= Len(q) + 1 /\ i \in 1..(Len(q) + 1)
      BY <1>2, <2>1
    <3>2. q'[i] = IF i = Len(q) + 1 THEN pushed + 1 ELSE q[i]
      BY <2>1, <3>1
    <3>3. Left' = pushed - Len(q)
      BY <1>2, <2>2 DEF Left, QueueInv
    <3>4. i # Len(q) + 1 => q[i] = pushed - Len(q) + i
      BY <1>2, <3>1
    <3>5. pushed \in Int /\ Len(q) \in Int
      BY <1>2 DEF QueueInv
    <3>6. QED
      BY <3>1, <3>2, <3>3, <3>4, <3>5
  <2>4. Len(q') <= Capacity
    BY <1>2, <1>4, <2>1, CapacityAssumption DEF Full
  <2>5. QED
    BY <1>1, <1>2, <1>4, <2>1, <2>2, <2>3, <2>4 DEF QueueInv, Contiguous
<1>5. QED
  BY <1>1, <1>3, <1>4

\* A delivery takes the head of the interval.
LEMMA TakeQueue ==
    ASSUME QueueInv, NEW c \in Consumers, PopTakes(c)
    PROVE  QueueInv' /\ Left' = Left + 1 /\ Left < pushed /\ Head(q) = Left + 1
<1>1. q # <<>> /\ q' = Tail(q) /\ UNCHANGED <<pushed, dropped>>
  BY DEF PopTakes
<1>2. Len(q) \in Nat /\ Len(q) > 0 /\ Len(q) <= Capacity /\ Len(q) <= pushed
      /\ \A i \in 1..Len(q) : q[i] = pushed - Len(q) + i
  BY <1>1 DEF QueueInv, Contiguous, Left
<1>3. q' \in Seq(Nat) /\ Len(q') = Len(q) - 1
      /\ \A i \in 1..(Len(q) - 1) : q'[i] = q[i + 1]
  BY <1>1, <1>2 DEF QueueInv
<1>4. Left' = Left + 1 /\ Left < pushed
  BY <1>1, <1>2, <1>3 DEF Left, QueueInv
<1>5. Head(q) = Left + 1
  BY <1>1, <1>2 DEF Left, QueueInv
<1>6. \A i \in 1..Len(q') : q'[i] = Left' + i
  BY <1>1, <1>2, <1>3 DEF Left, QueueInv
<1>7. QED
  BY <1>1, <1>2, <1>3, <1>4, <1>5, <1>6, CapacityAssumption DEF QueueInv, Contiguous

\* Steps that leave the queue's contents alone keep the invariant.
LEMMA StutterQueue ==
    ASSUME QueueInv, UNCHANGED <<q, pushed, dropped>>
    PROVE  QueueInv'
  BY DEF QueueInv, Contiguous, Left

\* What a step does to the contents: an insertion into an open queue, a
\* delivery, a close, or nothing.
LEMMA StepKinds ==
    ASSUME [Next]_vars
    PROVE  \/ Insert /\ ~closed /\ closed' = closed
           \/ (\E c \in Consumers : PopTakes(c)) /\ closed' = closed
           \/ UNCHANGED <<q, pushed, dropped>> /\ (closed' = closed \/ closed' = TRUE)
<1>1. ASSUME NEW p \in Pushers, Push(p)
      PROVE  \/ Insert /\ ~closed /\ closed' = closed
             \/ UNCHANGED <<q, pushed, dropped, closed>>
  BY <1>1, Zenon DEF Push, PushWaits, PushRefused, PushAccepted
<1>2. ASSUME NEW p \in TryPushers, TryPush(p) \/ TryPushNotifies(p)
      PROVE  \/ Insert /\ ~closed /\ closed' = closed
             \/ UNCHANGED <<q, pushed, dropped, closed>>
  BY <1>2, Zenon DEF TryPush, TryPushNotifies
<1>3. ASSUME NEW c \in Consumers, Pop(c) \/ Timeout(c)
      PROVE  \/ PopTakes(c) /\ closed' = closed
             \/ UNCHANGED <<q, pushed, dropped, closed>>
  BY <1>3, Zenon DEF Pop, PopWaits, PopRefused, PopTakes, Timeout
<1>4. ASSUME NEW t \in Threads, SpuriousWakeup(t)
      PROVE  UNCHANGED <<q, pushed, dropped, closed>>
  BY <1>4, Zenon DEF SpuriousWakeup
<1>5. CASE CloseSteps
  BY <1>5, Zenon DEF CloseSteps, Close, CloseNotifiesEmpty, CloseNotifiesFull
<1>6. CASE UNCHANGED vars
  BY <1>6, Zenon DEF vars
<1>7. QED
  BY <1>1, <1>2, <1>3, <1>4, <1>5, <1>6, Zenon DEF Next

\* Every step keeps the invariant.
LEMMA NextQueue == QueueInv /\ [Next]_vars => QueueInv'
<1> SUFFICES ASSUME QueueInv, [Next]_vars PROVE QueueInv'
  OBVIOUS
<1>1. CASE Insert
  BY <1>1, InsertQueue
<1>2. CASE \E c \in Consumers : PopTakes(c)
  BY <1>2, TakeQueue
<1>3. CASE UNCHANGED <<q, pushed, dropped>>
  BY <1>3, StutterQueue
<1>4. QED
  BY <1>1, <1>2, <1>3, StepKinds

\* For every number of threads and every capacity, the queue holds the interval
\* of the last elements that entered it and never more than its capacity.
THEOREM AlwaysContiguous == Spec => []Contiguous
<1>1. QueueInv => Contiguous
  BY DEF QueueInv
<1>2. QED
  BY <1>1, InitQueue, NextQueue, PTL DEF Spec

\* The queue implements the abstract lossy FIFO: whatever its threads do, it
\* gives up an element only when full and then the oldest, hands out the oldest,
\* and takes nothing in once closed.
THEOREM ImplementsLossyFifo == Spec => ImplementsFifo
<1>1. Init => Fifo!Init
  <2> SUFFICES ASSUME Init PROVE Fifo!Init
    OBVIOUS
  <2>1. Left = 0 /\ pushed = 0 /\ dropped = 0
    <3>1. q = <<>> /\ pushed = 0 /\ dropped = 0
      BY Zenon DEF Init
    <3>2. QED
      BY <3>1, InitLeft
  <2>2. ~closed = TRUE
    BY Zenon DEF Init
  <2>3. QED
    BY <2>1, <2>2, Zenon DEF Fifo!Init
<1>2. ASSUME QueueInv, [Next]_vars PROVE [Fifo!Next]_(Fifo!fifoVars)
  <2>1. CASE Insert /\ ~closed /\ closed' = closed
    <3>1. /\ Full => Left' = Left + 1 /\ dropped' = dropped + 1
          /\ ~Full => Left' = Left /\ dropped' = dropped
          /\ pushed' = pushed + 1
      BY <1>2, <2>1, InsertQueue
    <3>2. pushed - Left >= Capacity <=> Full
      BY <1>2 DEF QueueInv, Full, Left
    <3>3. CASE Full
      BY <2>1, <3>1, <3>2, <3>3, Zenon DEF Fifo!Next, Fifo!Replace, Fifo!Full
    <3>4. CASE ~Full
      BY <2>1, <3>1, <3>2, <3>4, Zenon DEF Fifo!Next, Fifo!Put, Fifo!Full
    <3>5. QED
      BY <3>3, <3>4
  <2>2. CASE (\E c \in Consumers : PopTakes(c)) /\ closed' = closed
    <3>1. Left' = Left + 1 /\ Left < pushed
      BY <1>2, <2>2, TakeQueue
    <3>2. pushed' = pushed /\ dropped' = dropped
      BY <2>2, Zenon DEF PopTakes
    <3>3. QED
      BY <2>2, <3>1, <3>2, Zenon DEF Fifo!Next, Fifo!Take
  <2>3. CASE UNCHANGED <<q, pushed, dropped>> /\ closed' = closed
    BY <2>3, Zenon DEF Fifo!fifoVars, Left
  <2>4. CASE UNCHANGED <<q, pushed, dropped>> /\ closed' = TRUE
    <3>1. UNCHANGED <<Left, pushed, dropped>>
      BY <2>4, Zenon DEF Left
    <3>2. (~closed)' = FALSE
      BY <2>4, Zenon
    <3>3. QED
      BY <3>1, <3>2, Zenon DEF Fifo!Next, Fifo!Close
  <2>5. QED
    BY <1>2, <2>1, <2>2, <2>3, <2>4, StepKinds
<1>3. QueueInv /\ [Next]_vars => [Fifo!Next]_(Fifo!fifoVars)
  BY <1>2
<1>4. QED
  BY <1>1, <1>3, InitQueue, NextQueue, PTL DEF Spec, ImplementsFifo, Fifo!Spec

-----------------------------------------------------------------------------
(* The order of delivery. *)

\* What a consumer has received has left the queue.
GotInv == /\ got \in [Consumers -> Nat]
          /\ \A c \in Consumers : got[c] <= Left

\* Every step keeps it, and a delivery is newer than all deliveries before it.
LEMMA NextGot ==
    ASSUME QueueInv, GotInv, [Next]_vars
    PROVE  /\ GotInv'
           /\ \A c \in Consumers : got'[c] # got[c] =>
                  \A d \in Consumers : got'[c] > got[d]
<1>1. Left \in Int
  BY DEF Left, QueueInv
<1>2. CASE \E c \in Consumers : PopTakes(c)
  <2>1. PICK c \in Consumers : PopTakes(c)
    BY <1>2
  <2>2. Left' = Left + 1 /\ Head(q) = Left + 1 /\ Left' \in Nat
    BY <2>1, TakeQueue DEF QueueInv, Contiguous, Left
  <2>3. got' = [got EXCEPT ![c] = Left + 1]
    BY <2>1, <2>2, Zenon DEF PopTakes
  <2>4. QED
    BY <1>1, <2>2, <2>3 DEF GotInv
<1>3. CASE got' = got /\ Left' >= Left
  <2>1. Left' \in Int
    BY NextQueue DEF QueueInv, Left
  <2>2. QED
    BY <1>1, <1>3, <2>1 DEF GotInv
<1>4. got' = got \/ \E c \in Consumers : PopTakes(c)
  BY Zenon DEF Next, vars, Push, PushWaits, PushRefused, PushAccepted, TryPush,
     TryPushNotifies, Pop, PopWaits, PopRefused, Timeout, SpuriousWakeup,
     CloseSteps, Close, CloseNotifiesEmpty, CloseNotifiesFull
<1>5. Left' >= Left
  <2>1. CASE Insert
    BY <1>1, <2>1, InsertQueue
  <2>2. CASE \E c \in Consumers : PopTakes(c)
    BY <1>1, <2>2, TakeQueue
  <2>3. CASE UNCHANGED <<q, pushed, dropped>>
    BY <1>1, <2>3 DEF Left
  <2>4. QED
    BY <2>1, <2>2, <2>3, StepKinds
<1>6. QED
  BY <1>2, <1>3, <1>4, <1>5

\* For every number of producers and consumers, elements are delivered in the
\* order they were pushed, over all consumers together, and none twice.
THEOREM AlwaysInOrder == Spec => DeliveredInOrder
<1>1. Init => GotInv
  <2> SUFFICES ASSUME Init PROVE GotInv
    OBVIOUS
  <2>1. got = [c \in Consumers |-> 0]
    BY Zenon DEF Init
  <2>2. Left = 0
    BY InitLeft
  <2>3. QED
    BY <2>1, <2>2 DEF GotInv
<1>2. QueueInv /\ GotInv /\ [Next]_vars => (QueueInv /\ GotInv)'
  BY NextQueue, NextGot
<1>3. QueueInv /\ GotInv /\ [Next]_vars
        => [\A c \in Consumers : got'[c] # got[c] =>
                \A d \in Consumers : got'[c] > got[d]]_vars
  BY NextGot
<1>4. QED
  BY <1>1, <1>2, <1>3, InitQueue, PTL DEF Spec, DeliveredInOrder

-----------------------------------------------------------------------------
(* Wake-ups *)

StInv == st \in [Threads -> States]

\* What each role is part of.
LEMMA Roles ==
    /\ Pushers \subseteq Threads /\ TryPushers \subseteq Threads
    /\ Consumers \subseteq Threads /\ Closer \in Threads
    /\ Closer \notin Pushers \cup TryPushers \cup Consumers
BY ThreadsAssumption DEF Threads

\* Threads stay in one of the states.
LEMMA NextStates == StInv /\ [Next]_vars => StInv'
<1> SUFFICES ASSUME StInv, [Next]_vars PROVE StInv'
  OBVIOUS
<1> USE Roles DEF StInv
<1>0. ASSUME NEW t \in Threads, NEW x \in States
      PROVE  [st EXCEPT ![t] = x] \in [Threads -> States]
  OBVIOUS
<1>1. {"idle", "waitFull", "wokenFull", "waitEmpty", "wokenEmpty", "timedOut", "notify",
       "closeEmpty", "closeFull"} \subseteq States
  BY DEF States
<1>2. ASSUME NEW p \in Pushers, Push(p) PROVE StInv'
  BY <1>0, <1>1, <1>2, NotifyOneType DEF Push, PushWaits, PushRefused, PushAccepted
<1>3. ASSUME NEW p \in TryPushers, TryPush(p) \/ TryPushNotifies(p) PROVE StInv'
  BY <1>0, <1>1, <1>3, NotifyOneType DEF TryPush, TryPushNotifies
<1>4. ASSUME NEW c \in Consumers, Pop(c) \/ Timeout(c) PROVE StInv'
  BY <1>0, <1>1, <1>4, NotifyOneType DEF Pop, PopWaits, PopRefused, PopTakes, Timeout
<1>5. ASSUME NEW t \in Threads, SpuriousWakeup(t) PROVE StInv'
  BY <1>0, <1>1, <1>5 DEF SpuriousWakeup
<1>6. CASE CloseSteps
  <2>1. CASE Close
    BY <1>0, <1>1, <2>1 DEF Close
  <2>2. CASE CloseNotifiesEmpty
    BY <1>0, <1>1, <2>2, NotifyAllType DEF CloseNotifiesEmpty
  <2>3. CASE CloseNotifiesFull
    BY <1>0, <1>1, <2>3, NotifyAllType DEF CloseNotifiesFull
  <2> QED BY <1>6, <2>1, <2>2, <2>3 DEF CloseSteps
<1>7. CASE UNCHANGED vars
  BY <1>7 DEF vars
<1> QED BY <1>2, <1>3, <1>4, <1>5, <1>6, <1>7 DEF Next

\* A set loses at most one element by the removal of one.
LEMMA Removed ==
    ASSUME NEW A, NEW x, IsFiniteSet(A)
    PROVE  /\ IsFiniteSet(A \ {x}) /\ Cardinality(A \ {x}) \in Nat
           /\ Cardinality(A) <= Cardinality(A \ {x}) + 1
<1>1. IsFiniteSet(A \ {x})
  BY FS_RemoveElement
<1>2. Cardinality(A \ {x}) = IF x \in A THEN Cardinality(A) - 1 ELSE Cardinality(A)
  BY FS_RemoveElement
<1>3. Cardinality(A) \in Nat /\ Cardinality(A \ {x}) \in Nat
  BY <1>1, FS_CardinalityType
<1> QED BY <1>1, <1>2, <1>3

\* Sets of threads are compared by what is added to them and taken away.
LEMMA Counts ==
    ASSUME NEW A \in SUBSET Threads, NEW B \in SUBSET Threads
    PROVE  /\ Cardinality(A) \in Nat /\ Cardinality(B) \in Nat
           /\ A \subseteq B => Cardinality(A) <= Cardinality(B)
           /\ \A x : A \ {x} \subseteq B => Cardinality(A) <= Cardinality(B) + 1
           /\ \A y \in B : y \notin A /\ A \subseteq B => Cardinality(A) + 1 <= Cardinality(B)
           /\ \A x, y : y \in B /\ y \notin A /\ A \ {x} \subseteq B =>
                  Cardinality(A) <= Cardinality(B)
<1>1. IsFiniteSet(A) /\ IsFiniteSet(B)
  BY ThreadsAssumption, FS_Subset
<1>2. Cardinality(A) \in Nat /\ Cardinality(B) \in Nat
  BY <1>1, FS_CardinalityType
<1>3. A \subseteq B => Cardinality(A) <= Cardinality(B)
  BY <1>1, FS_Subset
<1>4. ASSUME NEW x, A \ {x} \subseteq B PROVE Cardinality(A) <= Cardinality(B) + 1
  <2>1. IsFiniteSet(A \ {x}) /\ Cardinality(A) <= Cardinality(A \ {x}) + 1
        /\ Cardinality(A \ {x}) \in Nat
    BY <1>1, <1>2, Removed
  <2>2. Cardinality(A \ {x}) <= Cardinality(B)
    BY <1>1, <1>4, FS_Subset
  <2> QED BY <1>2, <2>1, <2>2
<1>5. ASSUME NEW y \in B, y \notin A, A \subseteq B PROVE Cardinality(A) + 1 <= Cardinality(B)
  <2>1. Cardinality(A \cup {y}) = Cardinality(A) + 1
    BY <1>1, <1>5, FS_AddElement
  <2>2. Cardinality(A \cup {y}) <= Cardinality(B)
    BY <1>1, <1>5, FS_Subset
  <2> QED BY <2>1, <2>2
<1>6. ASSUME NEW x, NEW y, y \in B, y \notin A, A \ {x} \subseteq B
      PROVE  Cardinality(A) <= Cardinality(B)
  <2>1. IsFiniteSet(A \ {x}) /\ Cardinality(A) <= Cardinality(A \ {x}) + 1
        /\ Cardinality(A \ {x}) \in Nat
    BY <1>1, <1>2, Removed
  <2>2. Cardinality((A \ {x}) \cup {y}) = Cardinality(A \ {x}) + 1
    BY <1>6, <2>1, FS_AddElement
  <2>3. Cardinality((A \ {x}) \cup {y}) <= Cardinality(B)
    BY <1>1, <1>6, FS_Subset
  <2> QED BY <1>2, <2>1, <2>2, <2>3
<1> QED BY <1>2, <1>3, <1>4, <1>5, <1>6

\* The consumers that are on their way to an element, and try_pushes yet to notify.
Coming(s) == In(s, "wokenEmpty") \cup In(s, "timedOut") \cup In(s, "notify")

\* notify_one wakes a sleeper if there is one.
LEMMA NotifyOneWakes ==
    ASSUME NEW s, NEW asleep, NEW awake, NEW r \in NotifyOne(s, asleep, awake)
    PROVE  \/ In(s, asleep) = {} /\ r = s
           \/ \E t \in In(s, asleep) : r = [s EXCEPT ![t] = awake]
BY DEF NotifyOne

\* A notification of the consumers: a woken one makes up for the element that came
\* or for the try_push that has now notified.
LEMMA NotifiesConsumers ==
    ASSUME StInv, NEW p \in Threads, st[p] # "waitEmpty",
           st' \in NotifyOne([st EXCEPT ![p] = "idle"], "waitEmpty", "wokenEmpty"),
           In(st', "waitEmpty") # {}
    PROVE  /\ In(st, "waitEmpty") # {}
           /\ \E t \in Coming(st') :
                 t \notin Coming(st) /\ Coming(st) \ {p} \subseteq Coming(st')
<1> DEFINE s1 == [st EXCEPT ![p] = "idle"]
<1>1. s1 \in [Threads -> States] /\ In(s1, "waitEmpty") = In(st, "waitEmpty")
  BY DEF StInv, In, States
<1> HIDE DEF s1
<1>2. CASE In(s1, "waitEmpty") = {} /\ st' = s1
  BY <1>2
<1>3. ASSUME NEW t \in In(s1, "waitEmpty"), st' = [s1 EXCEPT ![t] = "wokenEmpty"]
      PROVE  t \in Coming(st') /\ t \notin Coming(st) /\ Coming(st) \ {p} \subseteq Coming(st')
  <2>1. t \in Threads /\ st[t] = "waitEmpty" /\ st'[t] = "wokenEmpty"
    BY <1>1, <1>3 DEF In
  <2>2. \A u \in Threads \ {p, t} : st'[u] = st[u]
    BY <1>1, <1>3 DEF s1, StInv
  <2> QED BY <2>1, <2>2 DEF Coming, In
<1>4. st' \in NotifyOne(s1, "waitEmpty", "wokenEmpty")
  BY DEF s1
<1>5. \/ In(s1, "waitEmpty") = {} /\ st' = s1
      \/ \E t \in In(s1, "waitEmpty") : st' = [s1 EXCEPT ![t] = "wokenEmpty"]
  BY <1>4, NotifyOneWakes
<1> QED BY <1>1, <1>2, <1>3, <1>5

\* Every step keeps as many wake-ups on their way as elements inside, while one sleeps.
LEMMA ItemStep ==
    ASSUME QueueInv, QueueInv', StInv, StInv', NoLostItem, [Next]_vars
    PROVE  NoLostItem'
<1> USE Roles
<1> DEFINE n == Len(q)
           n1 == Len(q')
           Goal == n1 <= Cardinality(Coming(st'))
<1> SUFFICES ASSUME ~closed', In(st', "waitEmpty") # {} PROVE Goal
  BY DEF NoLostItem, Coming
<1>1. n \in Nat /\ n1 \in Nat
  BY DEF QueueInv
<1>2. /\ Coming(st) \in SUBSET Threads /\ Coming(st') \in SUBSET Threads
      /\ Cardinality(Coming(st)) \in Nat /\ Cardinality(Coming(st')) \in Nat
  <2>1. Coming(st) \in SUBSET Threads /\ Coming(st') \in SUBSET Threads
    BY DEF Coming, In
  <2> QED BY <2>1, Counts
<1>3. ASSUME ~closed, In(st, "waitEmpty") # {} PROVE n <= Cardinality(Coming(st))
  BY <1>3 DEF NoLostItem, Coming
<1> HIDE DEF n, n1
<1>4. Insert => n1 <= n + 1
  BY InsertQueue, CapacityAssumption DEF n, n1, QueueInv, Left
<1>5. ASSUME UNCHANGED <<q, closed>>, In(st, "waitEmpty") # {},
             Cardinality(Coming(st)) <= Cardinality(Coming(st'))
      PROVE  Goal
  BY <1>1, <1>2, <1>3, <1>5 DEF n, n1
<1>6. ASSUME NEW p \in Pushers, PushAccepted(p) PROVE Goal
  <2>1. st[p] # "waitEmpty" /\ p \notin Coming(st) /\ Insert /\ ~closed
        /\ st' \in NotifyOne([st EXCEPT ![p] = "idle"], "waitEmpty", "wokenEmpty")
    BY <1>6 DEF PushAccepted, CallsPush, Coming, In
  <2>2. In(st, "waitEmpty") # {}
        /\ \E t \in Coming(st') : t \notin Coming(st) /\ Coming(st) \subseteq Coming(st')
    BY <2>1, NotifiesConsumers
  <2>3. Cardinality(Coming(st)) + 1 <= Cardinality(Coming(st'))
    BY <1>2, <2>2, Counts
  <2> QED BY <1>1, <1>2, <1>3, <1>4, <2>1, <2>2, <2>3
<1>7. ASSUME NEW p \in TryPushers, TryPush(p) PROVE Goal
  <2>1. st[p] = "idle" /\ st' = [st EXCEPT ![p] = "notify"] /\ Insert /\ ~closed
    BY <1>7 DEF TryPush
  <2>2. In(st, "waitEmpty") # {} /\ p \in Coming(st') /\ p \notin Coming(st)
        /\ Coming(st) \subseteq Coming(st')
    BY <2>1 DEF Coming, In, StInv
  <2>3. Cardinality(Coming(st)) + 1 <= Cardinality(Coming(st'))
    BY <1>2, <2>2, Counts
  <2> QED BY <1>1, <1>2, <1>3, <1>4, <2>1, <2>2, <2>3
<1>8. ASSUME NEW p \in TryPushers, TryPushNotifies(p) PROVE Goal
  <2>1. st[p] # "waitEmpty" /\ UNCHANGED <<q, closed>>
        /\ st' \in NotifyOne([st EXCEPT ![p] = "idle"], "waitEmpty", "wokenEmpty")
    BY <1>8 DEF TryPushNotifies
  <2>2. In(st, "waitEmpty") # {}
        /\ \E t \in Coming(st') : t \notin Coming(st) /\ Coming(st) \ {p} \subseteq Coming(st')
    BY <2>1, NotifiesConsumers
  <2>3. Cardinality(Coming(st)) <= Cardinality(Coming(st'))
    BY <1>2, <2>2, Counts
  <2> QED BY <1>5, <2>1, <2>2, <2>3
<1>9. ASSUME NEW c \in Consumers, PopWaits(c) \/ PopRefused(c) PROVE Goal
  <2>1. n1 = 0
    BY <1>9 DEF PopWaits, PopRefused, n1
  <2> QED BY <1>2, <2>1
<1>10. ASSUME NEW c \in Consumers, PopTakes(c) PROVE Goal
  <2>1. n1 + 1 = n
    BY <1>10 DEF PopTakes, QueueInv, n, n1
  <2>2. In(st, "waitEmpty") # {} /\ Coming(st) \ {c} \subseteq Coming(st')
    <3> DEFINE s1 == [st EXCEPT ![c] = "idle"]
    <3>1. s1 \in [Threads -> States] /\ \A u \in Threads \ {c} : s1[u] = st[u]
          /\ s1[c] = "idle"
      BY DEF StInv, States
    <3> HIDE DEF s1
    <3>2. st' \in NotifyOne(s1, "waitFull", "wokenFull")
      BY <1>10 DEF PopTakes, s1
    <3>3. \A u \in Threads : st'[u] = s1[u] \/ (s1[u] = "waitFull" /\ st'[u] = "wokenFull")
      BY <3>1, <3>2, NotifyOneWakes DEF In
    <3> QED BY <3>1, <3>3 DEF Coming, In
  <2>3. Cardinality(Coming(st)) <= Cardinality(Coming(st')) + 1
    BY <1>2, <2>2, Counts
  <2>4. ~closed
    BY <1>10 DEF PopTakes
  <2> QED BY <1>1, <1>2, <1>3, <2>1, <2>2, <2>3, <2>4
<1>11. ASSUME NEW t \in Threads, Timeout(t) \/ SpuriousWakeup(t) PROVE Goal
  <2>1. UNCHANGED <<q, closed>> /\ In(st, "waitEmpty") # {} /\ Coming(st) \subseteq Coming(st')
    BY <1>11 DEF Timeout, SpuriousWakeup, Coming, In, StInv
  <2> QED BY <1>2, <1>5, <2>1, Counts
<1>12. ASSUME NEW p \in Pushers, PushWaits(p) \/ PushRefused(p) PROVE Goal
  <2>1. UNCHANGED <<q, closed>> /\ In(st, "waitEmpty") # {} /\ Coming(st) \subseteq Coming(st')
    BY <1>12 DEF PushWaits, PushRefused, CallsPush, Coming, In, StInv
  <2> QED BY <1>2, <1>5, <2>1, Counts
<1>13. CASE CloseSteps
  <2>1. ~Close
    BY DEF Close
  <2>2. CASE CloseNotifiesEmpty
    BY <2>2 DEF CloseNotifiesEmpty, NotifyAll, In, StInv
  <2>3. CASE CloseNotifiesFull
    <3>1. UNCHANGED <<q, closed>> /\ In(st, "waitEmpty") # {} /\ Coming(st) \subseteq Coming(st')
      BY <2>3 DEF CloseNotifiesFull, NotifyAll, Coming, In, StInv
    <3> QED BY <1>2, <1>5, <3>1, Counts
  <2> QED BY <1>13, <2>1, <2>2, <2>3 DEF CloseSteps
<1>14. CASE UNCHANGED vars
  BY <1>1, <1>2, <1>3, <1>14 DEF vars, n, n1
<1> QED BY <1>6, <1>7, <1>8, <1>9, <1>10, <1>11, <1>12, <1>13, <1>14
        DEF Next, Push, Pop

\* The same for producers: woken ones are on their way to the free places.
LEMMA RoomStep ==
    ASSUME QueueInv, QueueInv', StInv, StInv', NoLostRoom, [Next]_vars
    PROVE  NoLostRoom'
<1> USE Roles
<1> DEFINE n == Len(q)
           n1 == Len(q')
           W == In(st, "wokenFull")
           W1 == In(st', "wokenFull")
           Goal == Capacity - n1 <= Cardinality(W1)
<1> SUFFICES ASSUME ~closed', In(st', "waitFull") # {} PROVE Goal
  BY DEF NoLostRoom
<1>1. n \in Nat /\ n1 \in Nat /\ Capacity \in Nat
  BY CapacityAssumption DEF QueueInv
<1>2. /\ W \in SUBSET Threads /\ W1 \in SUBSET Threads
      /\ Cardinality(W) \in Nat /\ Cardinality(W1) \in Nat
  <2>1. W \in SUBSET Threads /\ W1 \in SUBSET Threads
    BY DEF In
  <2> QED BY <2>1, Counts
<1>3. ASSUME ~closed, In(st, "waitFull") # {} PROVE Capacity - n <= Cardinality(W)
  BY <1>3 DEF NoLostRoom
<1> HIDE DEF n, n1, W, W1
<1>4. Insert => \/ ~Full /\ n1 = n + 1
                \/ Capacity <= n1
  BY InsertQueue, CapacityAssumption DEF n, n1, QueueInv, Left, Full
<1>5. ASSUME UNCHANGED <<q, closed>>, In(st, "waitFull") # {}, W \subseteq W1
      PROVE  Goal
  <2>1. Cardinality(W) <= Cardinality(W1)
    BY <1>2, <1>5, Counts
  <2> QED BY <1>1, <1>2, <1>3, <1>5, <2>1 DEF n, n1
<1>7. ASSUME NEW p \in Threads, st[p] \in {"idle", "wokenFull", "notify"},
             st' \in NotifyOne([st EXCEPT ![p] = "idle"], "waitEmpty", "wokenEmpty")
      PROVE  In(st, "waitFull") # {} /\ W \ {p} \subseteq W1
  <2> DEFINE s1 == [st EXCEPT ![p] = "idle"]
  <2>1. s1 \in [Threads -> States] /\ (\A u \in Threads \ {p} : s1[u] = st[u]) /\ s1[p] = "idle"
    BY DEF StInv, States
  <2> HIDE DEF s1
  <2>2. st' \in NotifyOne(s1, "waitEmpty", "wokenEmpty")
    BY <1>7 DEF s1
  <2>3. \A u \in Threads : st'[u] = s1[u] \/ (s1[u] = "waitEmpty" /\ st'[u] = "wokenEmpty")
    BY <2>1, <2>2, NotifyOneWakes DEF In
  <2> QED BY <2>1, <2>3 DEF In, W, W1
<1>8. ASSUME NEW p \in Pushers, PushAccepted(p) PROVE Goal
  <2>1. /\ Insert /\ ~closed /\ st[p] \in {"idle", "wokenFull", "notify"}
        /\ st' \in NotifyOne([st EXCEPT ![p] = "idle"], "waitEmpty", "wokenEmpty")
    BY <1>8 DEF PushAccepted, CallsPush
  <2>2. In(st, "waitFull") # {} /\ W \ {p} \subseteq W1
    BY <1>7, <2>1
  <2>3. Cardinality(W) <= Cardinality(W1) + 1
    BY <1>2, <2>2, Counts
  <2> QED BY <1>1, <1>2, <1>3, <1>4, <2>1, <2>2, <2>3
<1>9. ASSUME NEW p \in TryPushers, TryPush(p) PROVE Goal
  <2>1. st[p] = "idle" /\ st' = [st EXCEPT ![p] = "notify"] /\ Insert /\ ~closed
    BY <1>9 DEF TryPush
  <2>2. In(st, "waitFull") # {} /\ W \subseteq W1
    BY <2>1 DEF In, StInv, W, W1
  <2>3. Cardinality(W) <= Cardinality(W1)
    BY <1>2, <2>2, Counts
  <2> QED BY <1>1, <1>2, <1>3, <1>4, <2>1, <2>2, <2>3
<1>10. ASSUME NEW p \in TryPushers, TryPushNotifies(p) PROVE Goal
  <2>1. /\ UNCHANGED <<q, closed>> /\ st[p] = "notify"
        /\ st' \in NotifyOne([st EXCEPT ![p] = "idle"], "waitEmpty", "wokenEmpty")
    BY <1>10 DEF TryPushNotifies
  <2>2. In(st, "waitFull") # {} /\ W \ {p} \subseteq W1 /\ p \notin W
    BY <1>7, <2>1 DEF W, In
  <2> QED BY <1>5, <2>1, <2>2
<1>11. ASSUME NEW c \in Consumers, PopTakes(c) PROVE Goal
  <2> DEFINE s1 == [st EXCEPT ![c] = "idle"]
  <2>1. s1 \in [Threads -> States] /\ (\A u \in Threads \ {c} : s1[u] = st[u]) /\ s1[c] = "idle"
    BY DEF StInv, States
  <2>2. st' \in NotifyOne(s1, "waitFull", "wokenFull") /\ ~closed
        /\ st[c] \notin {"waitFull", "wokenFull"}
    BY <1>11 DEF PopTakes, CallsPop
  <2> HIDE DEF s1
  <2>3. In(s1, "waitFull") = In(st, "waitFull") /\ In(s1, "wokenFull") = W
    BY <2>1, <2>2 DEF In, W
  <2>4. \E t \in W1 : t \notin W /\ W \subseteq W1 /\ In(st, "waitFull") # {}
    <3>1. CASE In(s1, "waitFull") = {} /\ st' = s1
      BY <3>1
    <3>2. ASSUME NEW t \in In(s1, "waitFull"), st' = [s1 EXCEPT ![t] = "wokenFull"]
          PROVE  t \in W1 /\ t \notin W /\ W \subseteq W1 /\ In(st, "waitFull") # {}
      <4>1. t \in Threads /\ s1[t] = "waitFull" /\ st'[t] = "wokenFull"
            /\ \A u \in Threads \ {t} : st'[u] = s1[u]
        BY <2>1, <3>2 DEF In
      <4> QED BY <2>3, <4>1 DEF In, W1
    <3> QED BY <2>2, <3>1, <3>2, NotifyOneWakes
  <2>5. Cardinality(W) + 1 <= Cardinality(W1)
    BY <1>2, <2>4, Counts
  <2>6. n1 + 1 = n
    BY <1>11 DEF PopTakes, QueueInv, n, n1
  <2> QED BY <1>1, <1>2, <1>3, <2>2, <2>4, <2>5, <2>6
<1>12. ASSUME NEW p \in Pushers, PushWaits(p) PROVE Goal
  <2>1. Capacity <= n1
    BY <1>12 DEF PushWaits, MustWait, Full, n1
  <2> QED BY <1>1, <1>2, <2>1
<1>13. ASSUME NEW p \in Pushers, PushRefused(p) PROVE Goal
  BY <1>13 DEF PushRefused
<1>14. ASSUME NEW c \in Consumers, PopWaits(c) \/ PopRefused(c) PROVE Goal
  <2>1. UNCHANGED <<q, closed>> /\ In(st, "waitFull") # {} /\ W \subseteq W1
    BY <1>14 DEF PopWaits, PopRefused, CallsPop, In, StInv, W, W1
  <2> QED BY <1>5, <2>1
<1>15. ASSUME NEW t \in Threads, Timeout(t) \/ SpuriousWakeup(t) PROVE Goal
  <2>1. UNCHANGED <<q, closed>> /\ In(st, "waitFull") # {} /\ W \subseteq W1
    BY <1>15 DEF Timeout, SpuriousWakeup, In, StInv, W, W1
  <2> QED BY <1>5, <2>1
<1>16. CASE CloseSteps
  <2>1. ~Close
    BY DEF Close
  <2>2. CASE CloseNotifiesFull
    BY <2>2 DEF CloseNotifiesFull, NotifyAll, In, StInv
  <2>3. CASE CloseNotifiesEmpty
    <3>1. UNCHANGED <<q, closed>> /\ In(st, "waitFull") # {} /\ W \subseteq W1
      BY <2>3 DEF CloseNotifiesEmpty, NotifyAll, In, StInv, W, W1
    <3> QED BY <1>5, <3>1
  <2> QED BY <1>16, <2>1, <2>2, <2>3 DEF CloseSteps
<1>17. CASE UNCHANGED vars
  BY <1>1, <1>2, <1>3, <1>17 DEF vars, n, n1, W, W1
<1> QED BY <1>8, <1>9, <1>10, <1>11, <1>12, <1>13, <1>14, <1>15, <1>16, <1>17
        DEF Next, Push, Pop

\* No wake-up for a consumer is ever lost, for any number of threads.
THEOREM AlwaysNoLostItem == Spec => []NoLostItem
<1>1. Init => StInv /\ NoLostItem
  <2> SUFFICES ASSUME Init PROVE StInv /\ NoLostItem
    OBVIOUS
  <2>1. st = [t \in Threads |-> "idle"]
    BY Zenon DEF Init
  <2> QED BY <2>1 DEF StInv, States, NoLostItem, In
<1>2. QueueInv /\ StInv /\ NoLostItem /\ [Next]_vars => (QueueInv /\ StInv /\ NoLostItem)'
  BY NextQueue, NextStates, ItemStep
<1> QED BY <1>1, <1>2, InitQueue, PTL DEF Spec

\* Nor one for a producer that waits for room.
THEOREM AlwaysNoLostRoom == Spec => []NoLostRoom
<1>1. Init => StInv /\ NoLostRoom
  <2> SUFFICES ASSUME Init PROVE StInv /\ NoLostRoom
    OBVIOUS
  <2>1. st = [t \in Threads |-> "idle"]
    BY Zenon DEF Init
  <2> QED BY <2>1 DEF StInv, States, NoLostRoom, In
<1>2. QueueInv /\ StInv /\ NoLostRoom /\ [Next]_vars => (QueueInv /\ StInv /\ NoLostRoom)'
  BY NextQueue, NextStates, RoomStep
<1> QED BY <1>1, <1>2, InitQueue, PTL DEF Spec

\* Between its two notify_all close has woken the consumers for good.
SleepInv == /\ NobodySleepsAfterClose
            /\ closed /\ st[Closer] = "closeFull" => In(st, "waitEmpty") = {}
            /\ st[Closer] \in {"idle", "closeEmpty", "closeFull"}
            /\ st[Closer] # "idle" => closed

\* Nobody falls asleep on a closed queue, and the closing thread never sleeps.
LEMMA NoNewSleeper ==
    ASSUME StInv, [Next]_vars, ~CloseSteps, st[Closer] \in {"idle", "closeEmpty", "closeFull"}
    PROVE  /\ closed' = closed /\ st'[Closer] = st[Closer]
           /\ closed => /\ In(st', "waitEmpty") \subseteq In(st, "waitEmpty")
                        /\ In(st', "waitFull") \subseteq In(st, "waitFull")
<1> USE Roles
<1> DEFINE Goal == /\ closed' = closed /\ st'[Closer] = st[Closer]
                   /\ closed => /\ In(st', "waitEmpty") \subseteq In(st, "waitEmpty")
                                /\ In(st', "waitFull") \subseteq In(st, "waitFull")
<1>1. ASSUME NEW p \in Threads \ {Closer}, closed' = closed,
             NEW asleep \in {"waitEmpty", "waitFull"},
             NEW awake \in {"wokenEmpty", "wokenFull"},
             st' \in NotifyOne([st EXCEPT ![p] = "idle"], asleep, awake)
      PROVE  Goal
  <2> DEFINE s1 == [st EXCEPT ![p] = "idle"]
  <2>1. s1 \in [Threads -> States] /\ (\A u \in Threads \ {p} : s1[u] = st[u]) /\ s1[p] = "idle"
    BY DEF StInv, States
  <2> HIDE DEF s1
  <2>2. st' \in NotifyOne(s1, asleep, awake)
    BY <1>1 DEF s1
  <2>3. \A u \in Threads : st'[u] = s1[u] \/ (s1[u] = asleep /\ st'[u] = awake)
    BY <2>1, <2>2, NotifyOneWakes DEF In
  <2> QED BY <1>1, <2>1, <2>3 DEF In
<1>2. ASSUME NEW p \in Pushers, Push(p) PROVE Goal
  BY <1>1, <1>2 DEF Push, PushWaits, MustWait, PushRefused, PushAccepted, In, StInv
<1>3. ASSUME NEW p \in TryPushers, TryPush(p) \/ TryPushNotifies(p) PROVE Goal
  BY <1>1, <1>3 DEF TryPush, TryPushNotifies, In, StInv
<1>4. ASSUME NEW c \in Consumers, Pop(c) PROVE Goal
  BY <1>1, <1>4 DEF Pop, PopWaits, PopRefused, PopTakes, In, StInv
<1>5. ASSUME NEW t \in Threads, Timeout(t) \/ SpuriousWakeup(t) PROVE Goal
  BY <1>5 DEF Timeout, SpuriousWakeup, In, StInv
<1>6. CASE UNCHANGED vars
  BY <1>6 DEF vars
<1> QED BY <1>2, <1>3, <1>4, <1>5, <1>6 DEF Next

\* Every step keeps the sleepers of a closed queue within reach of close.
LEMMA SleepStep ==
    ASSUME StInv, SleepInv, [Next]_vars
    PROVE  SleepInv'
<1> USE Roles
<1>1. CASE ~CloseSteps
  BY <1>1, NoNewSleeper DEF SleepInv, NobodySleepsAfterClose
<1>2. CASE Close
  BY <1>2 DEF Close, SleepInv, NobodySleepsAfterClose, StInv
<1>3. CASE CloseNotifiesEmpty
  BY <1>3 DEF CloseNotifiesEmpty, NotifyAll, SleepInv, NobodySleepsAfterClose, In, StInv
<1>4. CASE CloseNotifiesFull
  BY <1>4 DEF CloseNotifiesFull, NotifyAll, SleepInv, NobodySleepsAfterClose, In, StInv
<1> QED BY <1>1, <1>2, <1>3, <1>4 DEF CloseSteps

\* After close nobody sleeps, on either condition variable, for any number of threads.
THEOREM AlwaysNobodySleeps == Spec => []NobodySleepsAfterClose
<1>1. Init => StInv /\ SleepInv
  <2> SUFFICES ASSUME Init PROVE StInv /\ SleepInv
    OBVIOUS
  <2>1. st = [t \in Threads |-> "idle"] /\ closed = FALSE
    BY Zenon DEF Init
  <2> QED BY <2>1, Roles DEF StInv, States, SleepInv, NobodySleepsAfterClose
<1>2. StInv /\ SleepInv /\ [Next]_vars => (StInv /\ SleepInv)'
  BY NextStates, SleepStep
<1>3. SleepInv => NobodySleepsAfterClose
  BY DEF SleepInv
<1> QED BY <1>1, <1>2, <1>3, PTL DEF Spec
-----------------------------------------------------------------------------
\* Outside of try_push a queue configured to block gives nothing up: push inserts
\* only when its predicate found room, and no other step drops anything.
LEMMA OnlyTryPushDrops ==
    ASSUME [Next]_vars, ~drop_old, dropped' # dropped
    PROVE  \E p \in TryPushers : TryPush(p)
<1>1. ASSUME NEW p \in Pushers, Push(p) PROVE dropped' = dropped
  <2>1. CASE PushAccepted(p)
    BY <2>1, Zenon DEF PushAccepted, MustWait, Insert
  <2> QED BY <1>1, <2>1, Zenon DEF Push, PushWaits, PushRefused
<1>2. ASSUME NEW p \in TryPushers, TryPushNotifies(p) PROVE dropped' = dropped
  BY <1>2, Zenon DEF TryPushNotifies
<1>3. ASSUME NEW c \in Consumers, Pop(c) \/ Timeout(c) PROVE dropped' = dropped
  BY <1>3, Zenon DEF Pop, PopWaits, PopRefused, PopTakes, Timeout
<1>4. ASSUME NEW t \in Threads, SpuriousWakeup(t) PROVE dropped' = dropped
  BY <1>4, Zenon DEF SpuriousWakeup
<1>5. CloseSteps => dropped' = dropped
  BY Zenon DEF CloseSteps, Close, CloseNotifiesEmpty, CloseNotifiesFull
<1>6. UNCHANGED vars => dropped' = dropped
  BY Zenon DEF vars
<1> QED BY <1>1, <1>2, <1>3, <1>4, <1>5, <1>6, Zenon DEF Next

\* push into a queue that blocks loses nothing, for any number of producers: only
\* a step of try_push, which never waits, gives an element up.
THEOREM AlwaysLossless == Spec => PushIsLossless
<1>1. Init => StInv
  <2> SUFFICES ASSUME Init PROVE StInv
    OBVIOUS
  <2>1. st = [t \in Threads |-> "idle"]
    BY Zenon DEF Init
  <2> QED BY <2>1 DEF StInv, States
<1>2. ASSUME StInv, [Next]_vars
      PROVE  [~drop_old /\ dropped' # dropped => \E t \in TryPushers : st'[t] # st[t]]_vars
  <2> SUFFICES ASSUME ~drop_old, dropped' # dropped
               PROVE  \E t \in TryPushers : st'[t] # st[t]
    OBVIOUS
  <2>1. PICK p \in TryPushers : TryPush(p)
    BY <1>2, OnlyTryPushDrops
  <2>2. st'[p] = "notify" /\ st[p] = "idle"
    BY <1>2, <2>1 DEF TryPush, StInv, Threads
  <2> QED BY <2>2
<1> QED BY <1>1, <1>2, NextStates, PTL DEF Spec, PushIsLossless
-----------------------------------------------------------------------------
\* No step reconfigures the queue, and closed_ is a Boolean.
LEMMA FlagsStep ==
    ASSUME drop_old \in BOOLEAN, closed \in BOOLEAN, [Next]_vars
    PROVE  drop_old' \in BOOLEAN /\ closed' \in BOOLEAN
<1>1. drop_old' = drop_old
  BY DEF Next, vars, Push, PushWaits, PushRefused, PushAccepted, TryPush, TryPushNotifies,
         Pop, PopWaits, PopRefused, PopTakes, Timeout, SpuriousWakeup, CloseSteps, Close,
         CloseNotifiesEmpty, CloseNotifiesFull, Insert
<1>2. closed' = closed \/ closed' = TRUE
  BY Zenon DEF Next, vars, Push, PushWaits, PushRefused, PushAccepted, TryPush,
         TryPushNotifies, Pop, PopWaits, PopRefused, PopTakes, Timeout, SpuriousWakeup,
         CloseSteps, Close, CloseNotifiesEmpty, CloseNotifiesFull, Insert
<1> QED BY <1>1, <1>2

\* The type invariant of the queue, for any sets of threads and any capacity.
THEOREM TypeCorrect == Spec => []TypeOK
<1> DEFINE Flags == drop_old \in BOOLEAN /\ closed \in BOOLEAN
<1>1. Init => Flags /\ StInv /\ QueueInv /\ GotInv
  <2> SUFFICES ASSUME Init PROVE Flags /\ StInv /\ QueueInv /\ GotInv
    OBVIOUS
  <2>1. st = [t \in Threads |-> "idle"] /\ got = [c \in Consumers |-> 0]
        /\ closed = FALSE /\ drop_old \in BOOLEAN
    BY Zenon DEF Init
  <2>2. StInv
    BY <2>1 DEF StInv, States
  <2>3. GotInv
    BY <2>1, InitLeft DEF GotInv
  <2> QED BY <2>1, <2>2, <2>3, InitQueue
<1>2. Flags /\ StInv /\ QueueInv /\ GotInv /\ [Next]_vars
        => (Flags /\ StInv /\ QueueInv /\ GotInv)'
  BY FlagsStep, NextStates, NextQueue, NextGot
<1>3. Flags /\ StInv /\ QueueInv /\ GotInv => TypeOK
  BY Zenon DEF TypeOK, StInv, QueueInv, GotInv
<1> QED BY <1>1, <1>2, <1>3, PTL DEF Spec
=============================================================================
