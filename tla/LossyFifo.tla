------------------------------ MODULE LossyFifo ------------------------------
(***************************************************************************)
(* What the bounded queue of common/thread_safe_queue.h promises to its    *)
(* users, without threads, locks or condition variables: elements are      *)
(* numbered in the order they are put; what is inside is always the        *)
(* interval head+1 .. tail; a put into a full queue gives up the oldest    *)
(* element; nothing is put once the queue is closed, but what is inside    *)
(* can still be taken.                                                     *)
(***************************************************************************)
EXTENDS Naturals

CONSTANT Capacity    \* a positive number, see QueueAssumption of ThreadSafeQueue

VARIABLES head,    \* number of elements that have left, taken or given up
          tail,    \* number of elements ever put
          lost,    \* number of elements given up to make room
          open     \* FALSE once closed

fifoVars == <<head, tail, lost, open>>

Init == head = 0 /\ tail = 0 /\ lost = 0 /\ open = TRUE

Full == tail - head >= Capacity

Put == /\ open
       /\ ~Full
       /\ tail' = tail + 1
       /\ UNCHANGED <<head, lost, open>>

Replace == /\ open
           /\ Full
           /\ tail' = tail + 1
           /\ head' = head + 1
           /\ lost' = lost + 1
           /\ UNCHANGED open

Take == /\ head < tail
        /\ head' = head + 1
        /\ UNCHANGED <<tail, lost, open>>

Close == open' = FALSE /\ UNCHANGED <<head, tail, lost>>

Next == Put \/ Replace \/ Take \/ Close

Spec == Init /\ [][Next]_fifoVars
=============================================================================
