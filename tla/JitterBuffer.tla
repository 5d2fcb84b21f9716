---------------------------- MODULE JitterBuffer ----------------------------
(***************************************************************************)
(* receiver/jitter_buffer.h: reorders the units of one stream by sequence  *)
(* number, reports missing numbers, waits for them and gives them up.      *)
(*                                                                         *)
(* Unit i (0, 1, ...) of the stream is sent with the wire number           *)
(* i % WireMod; the buffer compares numbers modulo SeqMod = 2 * Half,      *)
(* 2^32 in the code.  The UDP link has WireMod = SeqMod (frame_id), the    *)
(* RTP link WireMod = 2^16 (the RTP sequence number).                      *)
(*                                                                         *)
(* Time is a clock tick; the buffer only ever asks for how long something  *)
(* has lasted, so each time stamp is kept as an age in ticks that stops    *)
(* growing where no comparison distinguishes it any more.                  *)
(***************************************************************************)
EXTENDS Integers, FiniteSets, FiniteSetsExt, Functions

CONSTANTS Half, WireMod,      \* see above
          MaxUnits,           \* max_units_
          MaxGap,             \* largest gap that is not a new session (1024)
          MinDelay, MaxDelay, \* min_delay_us_, max_delay_us_, in ticks
          Default,            \* the initial target_delay_us_, in ticks
          Grace,              \* the 50 ms of max_wait_us_, in ticks
          NackInterval,       \* nack_interval_us_, in ticks
          NackLogCap,         \* size at which last_nack_us_ is cleared (4096)
          LastUnit,           \* bound: units 0..LastUnit are sent
          MaxLead,            \* bound: how far ahead of the newest a unit arrives
          MaxLost             \* bound: nothing arrives once net_lost reached it

SeqMod == 2 * Half
Seqs   == 0 .. (SeqMod - 1)
Units  == 0 .. LastUnit
Unset  == -1                  \* a time stamp that is 0 in the code

ASSUME SeqAssumption ==
    /\ Half \in Nat \ {0} /\ WireMod \in 1..SeqMod
    /\ LastUnit \in Nat
ASSUME SizeAssumption ==
    /\ MaxUnits \in Nat \ {0} /\ MaxGap \in Nat
    /\ NackLogCap \in Nat /\ NackLogCap >= MaxGap
ASSUME DelayAssumption ==
    /\ MinDelay \in Nat /\ MaxDelay \in Nat
    /\ Default \in MinDelay..MaxDelay
    /\ Grace \in Nat \ {0} /\ NackInterval \in Nat
ASSUME BoundAssumption == MaxLead \in Nat /\ MaxLost \in Nat

VARIABLES started,    \* started_
          next_out,   \* next_out_
          buf,        \* buf_: number -> the unit and the age of first_recv_us
          missing,    \* age of head_missing_since_us_, or Unset
          since_pop,  \* age of last_pop_us_
          target,     \* target_delay_us_
          nack_log,   \* last_nack_us_: number -> age of its entry
          net_lost,   \* Metrics::net_lost
          asked,      \* the numbers on_missing_ was called with in the last step
          newest,     \* history: the newest unit that arrived, or -1
          last_out,   \* history: the last unit delivered, or -1
          evicted,    \* history: units given up by evict_overflow_locked
          stale       \* history: a realignment left older units in buf

vars == <<started, next_out, buf, missing, since_pop, target, nack_log,
          net_lost, asked, newest, last_out, evicted, stale>>

MissingCap == 2 * MaxDelay + Grace

TypeOK == /\ started \in BOOLEAN
          /\ next_out \in Seqs
          /\ DOMAIN buf \subseteq Seqs
          /\ buf \in [DOMAIN buf -> [unit : Units, held : 0..MaxDelay]]
          /\ missing \in Unset .. MissingCap
          /\ since_pop \in 0 .. (MaxDelay + 1)
          /\ target \in MinDelay..MaxDelay
          /\ DOMAIN nack_log \subseteq Seqs
          /\ nack_log \in [DOMAIN nack_log -> 0..NackInterval]
          /\ net_lost \in Nat
          /\ asked \subseteq Seqs
          /\ newest \in -1..LastUnit
          /\ last_out \in -1..LastUnit
          /\ evicted \in Nat
          /\ stale \in BOOLEAN

\* last_pop_us_ is 0 at first: the clock is far beyond it.
Init == /\ started = FALSE
        /\ next_out = 0
        /\ buf = [s \in {} |-> 0]
        /\ missing = Unset
        /\ since_pop = MaxDelay + 1
        /\ target = Default
        /\ nack_log = [s \in {} |-> 0]
        /\ net_lost = 0
        /\ asked = {}
        /\ newest = -1
        /\ last_out = -1
        /\ evicted = 0
        /\ stale = FALSE

-----------------------------------------------------------------------------
(* Sequence arithmetic: a, b \in Seqs. *)
WireSeq(i) == i % WireMod

\* seq_delta: how far a is ahead of b.
Delta(a, b) == IF a >= b THEN a - b ELSE a - b + SeqMod

\* seq_lt: the difference is negative as a signed number.
SeqLtOrEqual(a, b) == a = b \/ Delta(a, b) >= Half
SeqLt(a, b) == Delta(a, b) >= Half

Succ(s) == IF s = SeqMod - 1 THEN 0 ELSE s + 1

\* The numbers of next_out_ .. s - 1 that are not in the buffer, b = DOMAIN buf.
Absent(from, s, b) == {n \in Seqs \ b : Delta(n, from) < Delta(s, from)}

-----------------------------------------------------------------------------
(* maybe_nack_locked for every number of S, in order, S \subseteq Absent(...). *)
ThrottledByAny(n, log) == \E m \in DOMAIN log : log[m] < NackInterval
Throttled(n, log) == n \in DOMAIN log /\ log[n] < NackInterval

Logged(log, S) == [n \in DOMAIN log \cup S |-> IF n \in S THEN 0 ELSE log[n]]

\* The number whose entry makes the log exceed its cap, if there is one: it
\* clears the log, and every number after it finds no entry.
Overflows(from, log, S) ==
    {n \in S \ DOMAIN log :
        Cardinality({m \in S \ DOMAIN log : Delta(m, from) <= Delta(n, from)})
            = NackLogCap + 1 - Cardinality(DOMAIN log)}

After(from, n, S) == {m \in S : Delta(m, from) > Delta(n, from)}

Due(S, log) == {n \in S : ~Throttled(n, log)}

Nacked(from, log, S) ==
    Due(S, log) \cup UNION {After(from, n, S) : n \in Overflows(from, log, S)}

NackLog(from, log, S) ==
    IF Overflows(from, log, S) = {} THEN Logged(log, Due(S, log))
    ELSE [m \in UNION {After(from, n, S) : n \in Overflows(from, log, S)} |-> 0]

-----------------------------------------------------------------------------
(* push *)
TooOldButTheLast(s) == started /\ SeqLt(s, next_out) /\ Succ(s) # next_out
TooOld(s) == started /\ SeqLt(s, next_out)

\* RFC 3550 style estimate, only for a unit that arrives in order and never for
\* the first: the new target is whatever the estimate gives, within its limits.
Retune(inOrder) ==
    IF inOrder /\ started THEN target' \in MinDelay..MaxDelay ELSE UNCHANGED target

Insert(b, s, unit) ==
    IF s \in DOMAIN b THEN b
    ELSE [n \in DOMAIN b \cup {s} |-> IF n = s THEN [unit |-> unit, held |-> 0] ELSE b[n]]

\* evict_overflow_locked: std::map order is numeric order.
Evict(b) ==
    IF Cardinality(DOMAIN b) <= MaxUnits THEN b ELSE Restrict(b, DOMAIN b \ {Min(DOMAIN b)})

\* A jump beyond MaxGap is a new session: align to it and ask for nothing.
Realigns(s, from) == Delta(s, from) > MaxGap

\* The history of a unit's arrival.
Arrives(i) == /\ net_lost < MaxLost
              /\ i <= newest + MaxLead
              /\ newest' = Max({newest, i})

PushRejected(i) ==
    /\ Arrives(i)
    /\ TooOld(WireSeq(i))
    /\ asked' = {}
    /\ UNCHANGED <<started, next_out, buf, missing, since_pop, target, nack_log,
                   net_lost, last_out, evicted, stale>>

PushAccepted(i) ==
    LET s      == WireSeq(i)
        from   == IF started THEN next_out ELSE s
        filled == Insert(buf, s, i)
        holes  == IF Realigns(s, from) THEN {} ELSE Absent(from, s, DOMAIN filled)
    IN  /\ Arrives(i)
        /\ ~TooOld(s)
        /\ started' = TRUE
        /\ Retune(s = from)
        /\ next_out' = IF Realigns(s, from) THEN s ELSE from
        /\ stale' = (stale \/ (Realigns(s, from) /\ DOMAIN buf \ {s} # {}))
        /\ nack_log' = NackLog(from, nack_log, holes)
        /\ asked' = Nacked(from, nack_log, holes)
        /\ buf' = Evict(filled)
        /\ net_lost' = net_lost + Cardinality(DOMAIN filled \ DOMAIN buf')
        /\ evicted' = evicted + Cardinality(DOMAIN filled \ DOMAIN buf')
        /\ UNCHANGED <<missing, since_pop, last_out>>

Push(i) == PushRejected(i) \/ PushAccepted(i)

-----------------------------------------------------------------------------
(* pop *)
MaxWait == 2 * target + Grace
Starved == since_pop > target
CanPop  == started /\ DOMAIN buf # {}

\* The time since the head was first found missing, once this call noted it.
HeadMissing == IF missing = Unset THEN 0 ELSE missing

GivesUpNever == FALSE
GivesUp == Starved \/ HeadMissing >= MaxWait

ReleaseKeepsTimer(s) == /\ buf' = Restrict(buf, DOMAIN buf \ {s})
                        /\ last_out' = buf[s].unit
                        /\ next_out' = Succ(s)
                        /\ since_pop' = 0
                        /\ UNCHANGED missing
Release(s) == /\ buf' = Restrict(buf, DOMAIN buf \ {s})
              /\ last_out' = buf[s].unit
              /\ next_out' = Succ(s)
              /\ since_pop' = 0
              /\ missing' = Unset

\* The head is there and has been held long enough, or downstream starves.
Ripe == buf[next_out].held >= target \/ Starved

PopHead == /\ CanPop
           /\ next_out \in DOMAIN buf
           /\ Ripe
           /\ Release(next_out)
           /\ asked' = {}
           /\ UNCHANGED <<started, target, nack_log, net_lost, newest, evicted, stale>>

\* The head is there and is held back.
PopHolds == /\ CanPop
            /\ next_out \in DOMAIN buf
            /\ ~Ripe
            /\ missing' = Unset
            /\ asked' = {}
            /\ UNCHANGED <<started, next_out, buf, since_pop, target, nack_log,
                           net_lost, newest, last_out, evicted, stale>>

\* The head is missing: every call reports it until it is given up.
PopAsks == /\ CanPop
           /\ next_out \notin DOMAIN buf
           /\ ~GivesUp
           /\ missing' = HeadMissing
           /\ asked' = {next_out}
           /\ UNCHANGED <<started, next_out, buf, since_pop, target, nack_log,
                          net_lost, newest, last_out, evicted, stale>>

\* The gap is given up: the numerically smallest number is next.
SkipTo == Min(DOMAIN buf)
LostBySkipOffByOne(s) == Delta(s, next_out) + 1
LostBySkip(s) == Delta(s, next_out)

PopSkips == /\ CanPop
            /\ next_out \notin DOMAIN buf
            /\ GivesUp
            /\ net_lost' = net_lost + LostBySkip(SkipTo)
            /\ Release(SkipTo)
            /\ asked' = {}
            /\ UNCHANGED <<started, target, nack_log, newest, evicted, stale>>

Pop == PopHead \/ PopHolds \/ PopAsks \/ PopSkips

-----------------------------------------------------------------------------
\* set_rtt_ms: a new RTT gives a new target.
SetRtt == /\ target' \in MinDelay..MaxDelay
          /\ asked' = {}
          /\ UNCHANGED <<started, next_out, buf, missing, since_pop, nack_log,
                         net_lost, newest, last_out, evicted, stale>>

Older(age, cap) == IF age < cap THEN age + 1 ELSE age

Tick == /\ buf' = [s \in DOMAIN buf |-> [buf[s] EXCEPT !.held = Older(@, MaxDelay)]]
        /\ missing' = IF missing = Unset THEN Unset ELSE Older(missing, MissingCap)
        /\ since_pop' = Older(since_pop, MaxDelay + 1)
        /\ nack_log' = [s \in DOMAIN nack_log |-> Older(nack_log[s], NackInterval)]
        /\ asked' = {}
        /\ UNCHANGED <<started, next_out, target, net_lost, newest, last_out,
                       evicted, stale>>

Next == (\E i \in Units : Push(i)) \/ Pop \/ SetRtt \/ Tick

Spec == Init /\ [][Next]_vars

\* jb_loop and assemble_loop call pop in a loop, and time passes.  Nothing has to
\* arrive.
FairSpec == Spec /\ WF_vars(Pop) /\ WF_vars(Tick)

-----------------------------------------------------------------------------
\* Every unit that pop hands out is newer than the one it handed out last, so none
\* comes out twice or behind a newer one: whatever order, duplicates, late
\* retransmissions, evictions and skips push and pop saw.  (What push refuses is
\* what makes this so: the unit delivered last is the nearest one it must refuse.
\* It is false behind a jump beyond MaxGap, which leaves older units in the buffer,
\* to which the next skip goes back.)
DeliveredInOrder == [][PopHead \/ PopSkips => last_out' > last_out]_vars

\* The newest unit ever seen is never refused: push only refuses what the output
\* has passed (a buffer that refuses it has stopped the stream).
NewestAccepted == [][newest' > newest => WireSeq(newest') \in DOMAIN buf']_vars

\* No gap goes unreported: whatever is missing in front of a buffered unit was
\* reported through on_missing_ at least once, so a NACK was sent for it.  (An
\* evicted unit and the units behind a realignment are not reported, and a
\* clearing of the log forgets the reports.)
NoSilentGap ==
    evicted = 0 /\ ~stale =>
        \A s \in DOMAIN buf : Absent(next_out, s, DOMAIN buf) \subseteq DOMAIN nack_log

\* No NACK is sent in vain by the buffer itself: what on_missing_ is called with,
\* by push or by pop, is neither buffered nor behind the output.
AsksOnlyForMissing ==
    \A n \in asked : n \notin DOMAIN buf /\ ~SeqLt(n, next_out)

\* A head that has been missing for max_wait_us_ (2 * target + 50 ms) is one for
\* which downstream starves already: Starved, not max_wait_us_, is what ends
\* every wait for a missing head.
StarvesBeforeMaxWait == missing >= MaxWait => Starved

\* max_units_ bounds the buffer after every call.
BufferBounded == Cardinality(DOMAIN buf) <= MaxUnits

\* A buffered unit leaves, delivered or evicted: neither a missing head nor a
\* growing target depth holds it back for ever.
EveryUnitLeaves ==
    \A i \in Units : (WireSeq(i) \in DOMAIN buf) ~> (WireSeq(i) \notin DOMAIN buf)

\* Without realignment the buffer implements the in-order stream, and every
\* number passed over is counted exactly once in net_lost (beside the evicted).
Stream == INSTANCE InOrderStream WITH open <- started, pos <- next_out,
                                      lost <- net_lost - evicted
ImplementsStream == Stream!Spec
=============================================================================
