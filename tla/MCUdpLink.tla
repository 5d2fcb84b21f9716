----------------------------- MODULE MCUdpLink -----------------------------
(* Instances of UdpLink for TLC. *)
EXTENDS UdpLink

\* Fragments of each frame.
MCThree == <<3>>
MCTwo == <<2>>
MCTwoTwo == <<2, 2>>

\* Bytes of their last fragments, of at most two.
MCShort == <<1>>
MCShortFull == <<1, 2>>
=============================================================================
