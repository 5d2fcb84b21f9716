----------------------------- MODULE TimeStamps -----------------------------
(***************************************************************************)
(* Capture times on the wire and the receivers' extension of their 32 bits *)
(* to 64: extend_ts90 of rtp_receiver.h and extend_capture_us of           *)
(* udp_receiver.h, and the key under which the RTP receiver looks up the   *)
(* parity packet of a frame.  Nothing here has a state: the reference is   *)
(* the last extension or, for the first packet, the local clock.           *)
(*                                                                         *)
(* The numbers are those of the code, which TLC's integers do not hold.    *)
(***************************************************************************)
EXTENDS Integers

Wrap == 4294967296       \* 2^32
Half == 2147483648       \* 2^31
TicksPerMs == 90

Low(t) == t % Wrap       \* static_cast<uint32_t>

\* The bits of the reference above the low ones with lo: the candidate.
Candidate(ref, lo) == ref - Low(ref) + lo

\* Both loops, and both tests for the first packet, run at most once: the candidate
\* is less than Wrap away.
Extend(ref, lo) ==
    LET cand == Candidate(ref, lo)
    IN  IF cand + Half < ref THEN cand + Wrap
        ELSE IF cand > ref + Half THEN cand - Wrap
        ELSE cand

\* What the RTP server writes for a frame captured in the millisecond ms: the time
\* stamp of its packets and the key in its parity packet.
Timestamp(ms) == Low(ms * TicksPerMs)
ParityKey(ms) == Low(ms)

\* The millisecond that the RTP receiver reads off the time stamp, by a division that
\* rounds towards zero, and its key.
Truncated(t) == IF t >= 0 THEN t \div TicksPerMs ELSE -((-t) \div TicksPerMs)
CaptureMs(ref, ts) == Truncated(Extend(ref, ts))
LookupKey(ref, ts) == Low(CaptureMs(ref, ts))
=============================================================================
