--------------------------- MODULE MCRtpAssembly ---------------------------
(* Instances of RtpAssembly for TLC. *)
EXTENDS RtpAssembly

\* Packets of each frame, and those that begin a NAL unit.
MCCount == <<4, 1, 3>>
MCStarts == <<{0, 2}, {0}, {0}>>

\* Their bytes, of at most two.
MCBytes == <<[k \in 0..3 |-> <<2, 1, 2, 1>>[k + 1]], [k \in {0} |-> 1],
             [k \in 0..2 |-> <<2, 2, 1>>[k + 1]]>>

\* Exclusive or of numbers below 16, bit by bit.
MCXorNum(S) ==
    MapThenSumSet(LAMBDA b : b * (Cardinality({n \in S : (n \div b) % 2 = 1}) % 2),
                  {1, 2, 4, 8})
=============================================================================
