---------------------------- MODULE LossSimulator ----------------------------
(***************************************************************************)
(* transport/loss_simulator.h: the threads that call inject, the drain     *)
(* thread that sends the delayed packets when they are due, and stop.      *)
(*                                                                         *)
(* mtx_ is held by the drain thread from the head of its loop until it     *)
(* waits or sends; inject takes it only for one push, which is one step.   *)
(* stop writes running_ without it.  Time is absolute and bounded.         *)
(***************************************************************************)
EXTENDS Integers, FiniteSets

CONSTANTS Injected,     \* what is injected, each once
          Injectors,    \* the threads that inject: the encoder's, the receiver's
          Lossy,        \* loss_ > 0
          Delay,        \* delay_, in ticks
          Jitter,       \* jitter_, in ticks
          MaxTime       \* bound: the last due time

ASSUME SimulatorAssumption ==
    /\ Lossy \in BOOLEAN
    /\ Delay \in Nat /\ Jitter \in Nat /\ MaxTime \in Nat

VARIABLES now,          \* now_us()
          running,      \* running_
          pending,      \* pending_, a heap by due time
          due,          \* due_us of the packets that were delayed, 0 of the others
          inj,          \* injector -> "idle", or "notify": pushed, not yet notified
          drain,        \* where the drain thread is
          nap_until,    \* when its wait_for ends
          hand,         \* the packets it has popped and not yet sent
          sent,         \* history: packet -> how often it was sent
          refused,      \* history: packets inject has dropped
          stop          \* "no", "joining", "stopped"

simVars == <<now, running, pending, due, inj, drain, nap_until, hand, sent, refused, stop>>

SimTypeOK == /\ now \in 0..MaxTime /\ running \in BOOLEAN
             /\ pending \subseteq Injected
             /\ due \in [Injected -> 0..MaxTime]
             /\ inj \in [Injectors -> {"idle", "notify"}]
             /\ drain \in {"none", "head", "looking", "asleep", "napping", "sending", "done"}
             /\ nap_until \in 0..MaxTime
             /\ hand \subseteq Injected /\ Cardinality(hand) <= 1
             /\ sent \in [Injected -> 0..1]
             /\ refused \subseteq Injected
             /\ stop \in {"no", "joining", "stopped"}

\* start: without delay and jitter there is no drain thread.
HasWorker == Delay > 0 \/ Jitter > 0

SimInit == /\ now = 0
           /\ running = HasWorker
           /\ pending = {} /\ hand = {} /\ refused = {}
           /\ due = [p \in Injected |-> 0]
           /\ sent = [p \in Injected |-> 0]
           /\ inj = [i \in Injectors |-> "idle"]
           /\ drain = IF HasWorker THEN "head" ELSE "none"
           /\ nap_until = 0
           /\ stop = "no"

Fresh == {p \in Injected : /\ p \notin pending \cup hand \cup refused
                           /\ sent[p] = 0}

MutexFree == drain \notin {"head", "looking"}

-----------------------------------------------------------------------------
(* inject *)

Drops(i, p) == /\ inj[i] = "idle" /\ p \in Fresh
               /\ Lossy
               /\ refused' = refused \cup {p}
               /\ UNCHANGED <<now, running, pending, due, inj, drain, nap_until, hand,
                              sent, stop>>

SendsAtOnce(i, p) == /\ inj[i] = "idle" /\ p \in Fresh
                     /\ Delay = 0
                     /\ sent' = [sent EXCEPT ![p] = @ + 1]
                     /\ UNCHANGED <<now, running, pending, due, inj, drain, nap_until,
                                    hand, refused, stop>>

Delays(i, p) == /\ inj[i] = "idle" /\ p \in Fresh
                /\ MutexFree
                /\ \E d \in Delay..(Delay + Jitter) :
                      /\ d > 0 /\ now + d <= MaxTime
                      /\ due' = [due EXCEPT ![p] = now + d]
                /\ pending' = pending \cup {p}
                /\ inj' = [inj EXCEPT ![i] = "notify"]
                /\ UNCHANGED <<now, running, drain, nap_until, hand, sent, refused, stop>>

\* What the wait without a time limit waits for.
Awaited == ~running \/ pending # {}

\* cv_.notify_one: where the drain thread is after it.
WokenOnlyFromNap == IF drain = "napping" THEN "head" ELSE drain
WokenOnlyFromSleep == IF drain = "asleep" /\ Awaited THEN "head" ELSE drain
Woken == IF drain = "napping" \/ (drain = "asleep" /\ Awaited) THEN "head" ELSE drain

Notify(i) == /\ inj[i] = "notify"
             /\ inj' = [inj EXCEPT ![i] = "idle"]
             /\ drain' = Woken
             /\ UNCHANGED <<now, running, pending, due, nap_until, hand, sent, refused, stop>>

-----------------------------------------------------------------------------
(* drain_loop *)

\* pending_.top(), by operator< of Pending.
LatestOnTop == {p \in pending : \A r \in pending : due[p] >= due[r]}
Top == {p \in pending : \A r \in pending : due[p] <= due[r]}

LoopHead == /\ drain = "head"
            /\ drain' = IF running THEN "looking" ELSE "done"
            /\ UNCHANGED <<now, running, pending, due, inj, nap_until, hand, sent, refused, stop>>

\* Nothing pending: wait, if the predicate does not hold already.
FallsAsleep == /\ drain = "looking"
               /\ pending = {}
               /\ drain' = IF Awaited THEN "head" ELSE "asleep"
               /\ UNCHANGED <<now, running, pending, due, inj, nap_until, hand, sent,
                              refused, stop>>

\* Nothing due yet: wait_for the rest of the time.
TakesNap == /\ drain = "looking"
            /\ \E p \in Top : due[p] > now /\ nap_until' = due[p]
            /\ drain' = "napping"
            /\ UNCHANGED <<now, running, pending, due, inj, hand, sent, refused, stop>>

LeftAfterNoPop(p) == pending
LeftAfter(p) == pending \ {p}

Pops == /\ drain = "looking"
        /\ \E p \in Top : /\ due[p] <= now
                          /\ hand' = {p}
                          /\ pending' = LeftAfter(p)
        /\ drain' = "sending"
        /\ UNCHANGED <<now, running, due, inj, nap_until, sent, refused, stop>>

\* send_ without the lock, then back to the head of the loop.
Sends == /\ drain = "sending"
         /\ sent' = [p \in Injected |-> IF p \in hand THEN sent[p] + 1 ELSE sent[p]]
         /\ hand' = {}
         /\ drain' = "head"
         /\ UNCHANGED <<now, running, pending, due, inj, nap_until, refused, stop>>

NapEnds == /\ drain = "napping"
           /\ now >= nap_until
           /\ drain' = "head"
           /\ UNCHANGED <<now, running, pending, due, inj, nap_until, hand, sent, refused,
                          stop>>

SpuriousWakeup == /\ drain \in {"asleep", "napping"}
                  /\ drain' = Woken
                  /\ UNCHANGED <<now, running, pending, due, inj, nap_until, hand, sent,
                                 refused, stop>>

-----------------------------------------------------------------------------
(* stop, and time *)

StopBegins == /\ stop = "no"
              /\ running' = FALSE
              /\ stop' = "joining"
              /\ UNCHANGED <<now, pending, due, inj, drain, nap_until, hand, sent, refused>>

StopJoins == /\ stop = "joining"
             /\ drain \in {"none", "done"}
             /\ stop' = "stopped"
             /\ UNCHANGED <<now, running, pending, due, inj, drain, nap_until, hand, sent,
                            refused>>

TimePasses == /\ now < MaxTime
              /\ now' = now + 1
              /\ UNCHANGED <<running, pending, due, inj, drain, nap_until, hand, sent, refused,
                             stop>>

Drain == LoopHead \/ FallsAsleep \/ TakesNap \/ Pops \/ Sends \/ NapEnds

SimNext == \/ \E i \in Injectors, p \in Injected : \/ Drops(i, p)
                                                   \/ SendsAtOnce(i, p)
                                                   \/ Delays(i, p)
           \/ \E i \in Injectors : Notify(i)
           \/ Drain
           \/ SpuriousWakeup
           \/ StopBegins
           \/ StopJoins
           \/ TimePasses

SimSpec == SimInit /\ [][SimNext]_simVars

\* The threads run, a wait_for ends, a stop that has begun goes on and time
\* passes.  Nobody has to inject or to stop, and spurious wake-ups are rare.
SimFairness == /\ WF_simVars(Drain)
               /\ \A i \in Injectors : WF_simVars(Notify(i))
               /\ WF_simVars(StopJoins)
               /\ WF_simVars(TimePasses)

SimFairSpec == SimSpec /\ SimFairness

-----------------------------------------------------------------------------
\* The drain thread never sleeps beyond the moment a packet is due: it waits
\* without a limit only while nothing is pending, and with one only until the
\* earliest due time, unless a notification is about to reach it.
NeverOversleeps ==
    \/ \E i \in Injectors : inj[i] = "notify"
    \/ /\ drain = "asleep"  => pending = {}
       /\ drain = "napping" => \A p \in pending : nap_until <= due[p]

\* Delayed packets leave in the order of their due times, over the whole run
\* and however the injecting threads interleave with the drain thread: one that
\* was due before another one that has left has left too.  (A packet without
\* delay leaves at once and has no due time.)
Left(p) == p \in hand \/ sent[p] > 0

LeaveInDueOrder ==
    \A p, r \in Injected : p \in pending /\ Left(r) => due[r] <= due[p]

\* A packet goes out at most once, and only if inject did not refuse it.
AtMostOnce == \A p \in Injected :
    /\ sent[p] <= 1
    /\ p \in pending \cup hand \cup refused => sent[p] = 0

\* A packet that was accepted is sent, unless the simulator is stopped.
EveryPacketLeaves ==
    \A p \in Injected : (p \in pending) ~> (sent[p] = 1 \/ ~running)

\* The simulator, whatever its threads do and whenever it is stopped, is the
\* abstract delay line: a packet that the drain thread holds without the lock is
\* still inside, and leaves when send_ is called.
Line == INSTANCE DelayLine WITH Packets <- Injected, Loses <- Lossy, time <- now,
                                inside <- pending \cup hand, leave_at <- due,
                                out <- sent, lost <- refused
ImplementsDelayLine == Line!Spec

-----------------------------------------------------------------------------
\* What the documentation says and the code does not do: shutdown wakes every
\* thread that is blocked, so that it ends.  (stop clears running_ and does not
\* notify cv_.)
StopReturns == (stop = "joining") ~> (stop = "stopped")
=============================================================================
