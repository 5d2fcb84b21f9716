--------------------------- MODULE ThreadSafeQueue ---------------------------
(***************************************************************************)
(* common/thread_safe_queue.h: the bounded queue between the capture,      *)
(* encode, send, receive, decode and render threads.                       *)
(*                                                                         *)
(* One step is one critical section of mtx_, or a notification issued      *)
(* outside of it (try_push and close notify after they unlock).  A thread  *)
(* blocked in a condition variable is in a wait state; a notification, a   *)
(* spurious wake-up or a timeout moves it to a state in which it competes  *)
(* for mtx_ again and re-evaluates its predicate.                          *)
(*                                                                         *)
(* Elements are numbered in the order they enter the queue.                *)
(***************************************************************************)
EXTENDS Naturals, Sequences, FiniteSets

CONSTANTS Pushers,      \* threads that call push
          TryPushers,   \* threads that call try_push
          Poppers,      \* threads that call pop
          TimedPoppers, \* threads that call pop_for
          Closer,       \* the thread that calls close
          Capacity,     \* capacity_
          MaxPushes     \* bound: no push starts once so many were made

Consumers == Poppers \cup TimedPoppers
Threads   == Pushers \cup TryPushers \cup Consumers \cup {Closer}

ASSUME CapacityAssumption == Capacity \in Nat \ {0}
ASSUME BoundAssumption == MaxPushes \in Nat
ASSUME ThreadsAssumption ==
    /\ Pushers \cap TryPushers = {}
    /\ (Pushers \cup TryPushers) \cap Consumers = {}
    /\ Poppers \cap TimedPoppers = {}
    /\ Closer \notin Pushers \cup TryPushers \cup Consumers
    /\ IsFiniteSet(Threads)

VARIABLES q,        \* q_
          drop_old, \* drop_old_, set by the constructor
          closed,   \* closed_
          dropped,  \* dropped_
          st,       \* what each thread is doing in the queue
          pushed,   \* history: number of elements that entered q_
          got       \* history: the last element each consumer received

vars == <<q, drop_old, closed, dropped, st, pushed, got>>

States == {"idle",          \* outside of the queue's operations
           "waitFull",      \* asleep on cv_not_full_
           "wokenFull",     \* awake, about to re-acquire mtx_ in push
           "waitEmpty",     \* asleep on cv_not_empty_
           "wokenEmpty",    \* awake, about to re-acquire mtx_ in pop or pop_for
           "timedOut",      \* wait_for expired, about to re-acquire mtx_
           "notify",        \* try_push between its unlock and its notify_one
           "closeEmpty",    \* close before cv_not_empty_.notify_all
           "closeFull"}     \* close before cv_not_full_.notify_all

TypeOK == /\ q \in Seq(Nat)
          /\ drop_old \in BOOLEAN
          /\ closed \in BOOLEAN
          /\ dropped \in Nat
          /\ st \in [Threads -> States]
          /\ pushed \in Nat
          /\ got \in [Consumers -> Nat]

Init == /\ q = <<>>
        /\ drop_old \in BOOLEAN
        /\ closed = FALSE
        /\ dropped = 0
        /\ st = [t \in Threads |-> "idle"]
        /\ pushed = 0
        /\ got = [c \in Consumers |-> 0]

-----------------------------------------------------------------------------
In(s, state) == {t \in Threads : s[t] = state}

\* notify_one: one sleeper, any of them, wakes; with no sleeper nothing happens.
NotifyOneForgotten(s, asleep, awake) == {s}
NotifyOne(s, asleep, awake) ==
    IF In(s, asleep) = {} THEN {s}
                          ELSE {[s EXCEPT ![t] = awake] : t \in In(s, asleep)}

NotifyAllWakesOne(s, asleep, awake) ==
    IF In(s, asleep) = {} THEN s
    ELSE [s EXCEPT ![CHOOSE t \in In(s, asleep) : TRUE] = awake]
NotifyAll(s, asleep, awake) ==
    [t \in Threads |-> IF s[t] = asleep THEN awake ELSE s[t]]

Full == Len(q) >= Capacity

\* The queue after v entered it: the oldest element leaves a full queue.
EnqueueAtFront(v) == <<v>> \o (IF Full THEN Tail(q) ELSE q)
EnqueueOffByOne(v) == IF Len(q) > Capacity THEN Append(Tail(q), v) ELSE Append(q, v)
Enqueue(v) == IF Full THEN Append(Tail(q), v) ELSE Append(q, v)

Insert == /\ q' = Enqueue(pushed + 1)
          /\ pushed' = pushed + 1
          /\ dropped' = IF Full THEN dropped + 1 ELSE dropped

-----------------------------------------------------------------------------
(* push *)
CallsPush(p) == \/ st[p] = "idle" /\ pushed < MaxPushes
                \/ st[p] = "wokenFull"

\* The negation of the predicate of cv_not_full_.wait.
MustWaitThoughClosed == ~drop_old /\ Full
MustWaitOffByOne == ~closed /\ ~drop_old /\ Len(q) > Capacity
MustWait == ~closed /\ ~drop_old /\ Full

PushWaits(p) == /\ CallsPush(p)
                /\ MustWait
                /\ st' = [st EXCEPT ![p] = "waitFull"]
                /\ UNCHANGED <<q, closed, dropped, pushed, got, drop_old>>

PushRefused(p) == /\ CallsPush(p)
                  /\ ~MustWait /\ closed
                  /\ st' = [st EXCEPT ![p] = "idle"]
                  /\ UNCHANGED <<q, closed, dropped, pushed, got, drop_old>>

PushAccepted(p) ==
    /\ CallsPush(p)
    /\ ~MustWait /\ ~closed
    /\ Insert
    /\ st' \in NotifyOne([st EXCEPT ![p] = "idle"], "waitEmpty", "wokenEmpty")
    /\ UNCHANGED <<closed, got, drop_old>>

(* try_push: inserts under the lock, notifies after it *)
TryPush(p) == /\ st[p] = "idle" /\ pushed < MaxPushes
              /\ ~closed
              /\ Insert
              /\ st' = [st EXCEPT ![p] = "notify"]
              /\ UNCHANGED <<closed, got, drop_old>>

TryPushNotifies(p) ==
    /\ st[p] = "notify"
    /\ st' \in NotifyOne([st EXCEPT ![p] = "idle"], "waitEmpty", "wokenEmpty")
    /\ UNCHANGED <<q, closed, dropped, pushed, got, drop_old>>

-----------------------------------------------------------------------------
(* pop and pop_for *)
CallsPop(c) == st[c] \in {"idle", "wokenEmpty", "timedOut"}

\* An expired wait_for does not sleep again.
PopWaits(c) == /\ CallsPop(c) /\ st[c] # "timedOut"
               /\ q = <<>> /\ ~closed
               /\ st' = [st EXCEPT ![c] = "waitEmpty"]
               /\ UNCHANGED <<q, closed, dropped, pushed, got, drop_old>>

PopRefused(c) == /\ CallsPop(c)
                 /\ q = <<>>
                 /\ closed \/ st[c] = "timedOut"
                 /\ st' = [st EXCEPT ![c] = "idle"]
                 /\ UNCHANGED <<q, closed, dropped, pushed, got, drop_old>>

PopTakes(c) ==
    /\ CallsPop(c)
    /\ q # <<>>
    /\ q' = Tail(q)
    /\ got' = [got EXCEPT ![c] = Head(q)]
    /\ st' \in NotifyOne([st EXCEPT ![c] = "idle"], "waitFull", "wokenFull")
    /\ UNCHANGED <<closed, dropped, pushed, drop_old>>

Timeout(c) == /\ c \in TimedPoppers
              /\ st[c] = "waitEmpty"
              /\ st' = [st EXCEPT ![c] = "timedOut"]
              /\ UNCHANGED <<q, closed, dropped, pushed, got, drop_old>>

SpuriousWakeup(t) ==
    /\ \/ st[t] = "waitEmpty" /\ st' = [st EXCEPT ![t] = "wokenEmpty"]
       \/ st[t] = "waitFull" /\ st' = [st EXCEPT ![t] = "wokenFull"]
    /\ UNCHANGED <<q, closed, dropped, pushed, got, drop_old>>

-----------------------------------------------------------------------------
(* close *)
Close == /\ st[Closer] = "idle"
         /\ closed' = TRUE
         /\ st' = [st EXCEPT ![Closer] = "closeEmpty"]
         /\ UNCHANGED <<q, dropped, pushed, got, drop_old>>

CloseNotifiesEmpty ==
    /\ st[Closer] = "closeEmpty"
    /\ st' = NotifyAll([st EXCEPT ![Closer] = "closeFull"], "waitEmpty", "wokenEmpty")
    /\ UNCHANGED <<q, closed, dropped, pushed, got, drop_old>>

CloseNotifiesFull ==
    /\ st[Closer] = "closeFull"
    /\ st' = NotifyAll([st EXCEPT ![Closer] = "idle"], "waitFull", "wokenFull")
    /\ UNCHANGED <<q, closed, dropped, pushed, got, drop_old>>

-----------------------------------------------------------------------------
Push(p)  == PushWaits(p) \/ PushRefused(p) \/ PushAccepted(p)
Pop(c)   == PopWaits(c) \/ PopRefused(c) \/ PopTakes(c)
CloseSteps == Close \/ CloseNotifiesEmpty \/ CloseNotifiesFull

Next == \/ \E p \in Pushers : Push(p)
        \/ \E p \in TryPushers : TryPush(p) \/ TryPushNotifies(p)
        \/ \E c \in Consumers : Pop(c) \/ Timeout(c)
        \/ \E t \in Threads : SpuriousWakeup(t)
        \/ CloseSteps

Spec == Init /\ [][Next]_vars

\* A thread that left the wait gets the mutex, a started call finishes, and a
\* consumer loop calls pop again.  Nobody has to push, to close, to time out or
\* to be woken spuriously.
Fairness == /\ \A p \in Pushers : WF_vars(st[p] = "wokenFull" /\ Push(p))
            /\ \A p \in TryPushers : WF_vars(TryPushNotifies(p))
            /\ \A c \in Consumers : WF_vars(Pop(c))
            /\ WF_vars(CloseNotifiesEmpty)
            /\ WF_vars(CloseNotifiesFull)

FairSpec == Spec /\ Fairness

-----------------------------------------------------------------------------
\* Number of elements that left the queue, given up or delivered.
Left == pushed - Len(q)

\* What is inside is the interval of the last Len(q) elements that entered, at
\* most Capacity of them: push and try_push give up the oldest element, never
\* the newest, and no interleaving loses, duplicates or reorders an element.
Contiguous == /\ Len(q) <= Capacity
              /\ Len(q) <= pushed
              /\ \A i \in 1..Len(q) : q[i] = Left + i

\* Elements are delivered in the order they were pushed, over all consumers
\* together: a consumer never receives an element that is not newer than every
\* element received before it, whoever received that one.
DeliveredInOrder ==
    [][\A c \in Consumers : got'[c] # got[c] =>
            \A d \in Consumers : got'[c] > got[d]]_vars

\* A queue that is configured to block loses elements to try_push alone, which
\* never blocks: push waits for room, in whatever order the waiting producers and
\* the others get the mutex.
PushIsLossless ==
    [][~drop_old /\ dropped' # dropped => \E t \in TryPushers : st'[t] # st[t]]_vars

\* No lost wake-up for consumers: while one sleeps on an open queue, every
\* element inside has a thread on its way to take it, a consumer already woken
\* or a try_push that has not issued its notify_one yet.
NoLostItem ==
    ~closed /\ In(st, "waitEmpty") # {} =>
        Len(q) <= Cardinality(In(st, "wokenEmpty") \cup In(st, "timedOut")
                              \cup In(st, "notify"))

\* No lost wake-up for producers: while one sleeps in push on an open queue,
\* every free place has a woken producer on its way to use it.
NoLostRoom ==
    ~closed /\ In(st, "waitFull") # {} =>
        Capacity - Len(q) <= Cardinality(In(st, "wokenFull"))

\* close wakes everybody: once its two notify_all are done nobody sleeps, on
\* either condition variable, and nobody falls asleep again.
NobodySleepsAfterClose ==
    closed /\ st[Closer] \notin {"closeEmpty", "closeFull"} =>
        In(st, "waitEmpty") = {} /\ In(st, "waitFull") = {}

\* The graceful shutdown rests on it: after close every call that was blocked
\* in push, pop or pop_for returns.
CloseReleases ==
    \A t \in Pushers \cup Consumers :
        (closed /\ st[t] # "idle") ~> (st[t] = "idle")

\* Every element that entered the queue leaves it, delivered or given up, as
\* long as some consumer thread keeps calling pop.
EveryElementLeaves == \A n \in 1..MaxPushes : (pushed >= n) ~> (Left >= n)

\* The queue, whatever its threads do, is the abstract lossy FIFO.
Fifo == INSTANCE LossyFifo WITH head <- Left, tail <- pushed,
                                lost <- dropped, open <- ~closed
ImplementsFifo == Fifo!Spec

=============================================================================
