---------------------------- MODULE InOrderStream ----------------------------
(***************************************************************************)
(* What a jitter buffer promises downstream: once the first position of    *)
(* the stream is known, positions come out in order, each at most once,    *)
(* and every position passed over is counted as lost, exactly once.        *)
(***************************************************************************)
EXTENDS Integers

VARIABLES open,   \* the first position is known
          pos,    \* the next position in order
          lost    \* positions passed over

streamVars == <<open, pos, lost>>

Init == open = FALSE /\ pos = 0 /\ lost = 0

Open == /\ ~open
        /\ open' = TRUE
        /\ pos' \in Nat
        /\ UNCHANGED lost

\* Position pos' - 1 is delivered.
Deliver == /\ open
           /\ pos' \in Nat /\ pos' > pos
           /\ lost' = lost + (pos' - pos - 1)
           /\ UNCHANGED open

Next == Open \/ Deliver

Spec == Init /\ [][Next]_streamVars
=============================================================================
