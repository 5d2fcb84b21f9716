------------------------------ MODULE DelayLine ------------------------------
(***************************************************************************)
(* What the loss simulator of transport/loss_simulator.h promises to the   *)
(* sender in front of it, without threads, lock, heap or waiting: a packet *)
(* it takes in is lost, goes out at once when there is no delay, or stays  *)
(* inside for at least Delay and leaves once, when it is due and none that *)
(* was due before it is still inside.                                      *)
(***************************************************************************)
EXTENDS Integers

CONSTANTS Packets,    \* each comes in once
          Loses,      \* whether it loses packets
          Delay,      \* the least time a packet stays, in ticks
          Jitter      \* how much longer it may have to

VARIABLES time,
          inside,     \* the packets that came in and have not left
          leave_at,   \* packet -> when it is due, 0 if it was never inside
          out,        \* packet -> how often it has left
          lost        \* the packets that were lost

lineVars == <<time, inside, leave_at, out, lost>>

Init == /\ time = 0
        /\ inside = {} /\ lost = {}
        /\ leave_at = [p \in Packets |-> 0]
        /\ out = [p \in Packets |-> 0]

New == {p \in Packets : p \notin inside \cup lost /\ out[p] = 0}

Lose(p) == /\ Loses
           /\ lost' = lost \cup {p}
           /\ UNCHANGED <<time, inside, leave_at, out>>

Pass(p) == /\ Delay = 0
           /\ out' = [out EXCEPT ![p] = 1]
           /\ UNCHANGED <<time, inside, leave_at, lost>>

Enter(p) == /\ \E d \in Delay..(Delay + Jitter) :
                  d > 0 /\ leave_at' = [leave_at EXCEPT ![p] = time + d]
            /\ inside' = inside \cup {p}
            /\ UNCHANGED <<time, out, lost>>

Leave(p) == /\ leave_at[p] <= time
            /\ \A r \in inside : leave_at[p] <= leave_at[r]
            /\ inside' = inside \ {p}
            /\ out' = [out EXCEPT ![p] = 1]
            /\ UNCHANGED <<time, leave_at, lost>>

Tick == /\ time' = time + 1
        /\ UNCHANGED <<inside, leave_at, out, lost>>

Next == \/ \E p \in New : Lose(p) \/ Pass(p) \/ Enter(p)
        \/ \E p \in inside : Leave(p)
        \/ Tick

Spec == Init /\ [][Next]_lineVars
=============================================================================
