--------------------------- MODULE ClientProgram ---------------------------
(***************************************************************************)
(* app/client_main.cpp with the threads of its receiver: frames go from    *)
(* the receiving thread over the jitter buffer and its output thread (TCP  *)
(* has one thread for all of it) through the queue out to the decoding     *)
(* thread, and pictures through decoded_q to main, with a window or        *)
(* without one.  Shutdown begins when the window is closed or the decoder  *)
(* does not open.                                                          *)
(*                                                                         *)
(* A step takes a thread to the next place where it waits, tests a flag or *)
(* touches a queue.  Frames are numbered as they come from the network;    *)
(* the jitter buffer hands them on in order and passes over some, as       *)
(* InOrderStream says.  UDP pushes each to out.  RTP assembles it there,   *)
(* as RtpAssembly says in detail: a frame may leave twice, later than      *)
(* newer ones, or not at all.  What is in the queues is therefore the      *)
(* number of a push to out, 1, 2, ..., and pushed has its frame.  Closing  *)
(* the socket ends a recv that waits on it, as the code assumes.           *)
(***************************************************************************)
EXTENDS Naturals, Sequences

CONSTANTS NFrames,    \* number of frames that come
          OutSize,    \* the 8 places of out
          DecodedSize \* the 4 places of decoded_q

\* What the theorems assume of them.
SizesOK == NFrames \in Nat /\ OutSize \in Nat \ {0} /\ DecodedSize \in Nat \ {0}

VARIABLES transport, headless,  \* the arguments; headless: there is no window
          main,           \* where main is
          closing,        \* should_close of the window
          stop_flag,
          running,        \* running_ of the receiver
          alive,          \* the threads that have not ended
          came,           \* number of frames the receiving thread has received
          pos,            \* the newest of them that was handed on or set aside
          again,          \* RTP: it was complete and is still in cur_
          aside,          \* RTP: the frames in zombies_
          pushed,         \* history: the frame of each push to out
          out, out_closed,
          decoder,        \* where decode_thread is
          frame,          \* what it has taken from out
          decoded_q,
          newest,         \* history: what was last pushed to decoded_q
          shown           \* what main has taken from there last

arguments == <<transport, headless>>
outputVars == <<pos, again, aside, pushed>>
queueVars == <<out, out_closed, decoded_q>>
vars == <<arguments, main, closing, stop_flag, running, alive, came, outputVars,
          queueVars, decoder, frame, newest, shown>>

RxThreads(t) == IF t = "tcp" THEN {"recv"} ELSE {"recv", "output", "ping"}
Numbers == 0..NFrames

TypeOK ==
    /\ transport \in {"tcp", "udp", "rtp"} /\ headless \in BOOLEAN
    /\ main \in {"opens", "tests", "pops", "joins_rx", "joins_decoder", "returned",
                 "aborted"}
    /\ closing \in BOOLEAN /\ stop_flag \in BOOLEAN /\ running \in BOOLEAN
    /\ alive \subseteq RxThreads(transport) \cup {"decode"}
    /\ came \in Numbers /\ pos \in 0..came /\ again \in BOOLEAN
    /\ aside \subseteq 1..pos /\ pushed \in Seq(1..pos)
    /\ out \in Seq(Nat) /\ Len(out) <= OutSize /\ out_closed \in BOOLEAN
    /\ decoder \in {"opens", "pops", "decodes"} /\ frame \in 0..Len(pushed)
    /\ decoded_q \in Seq(Nat) /\ Len(decoded_q) <= DecodedSize
    /\ newest \in 0..frame /\ shown \in 0..newest

\* The receiver and decode_thread have started.
Init ==
    /\ transport \in {"tcp", "udp", "rtp"} /\ headless \in BOOLEAN
    /\ main = (IF headless THEN "pops" ELSE "opens")
    /\ closing = FALSE /\ stop_flag = FALSE /\ running = TRUE
    /\ alive = RxThreads(transport) \cup {"decode"}
    /\ came = 0 /\ pos = 0 /\ again = FALSE /\ aside = {} /\ pushed = <<>>
    /\ out = <<>> /\ out_closed = FALSE
    /\ decoder = "opens" /\ frame = 0
    /\ decoded_q = <<>> /\ newest = 0 /\ shown = 0

-----------------------------------------------------------------------------
\* push of a queue that drops its oldest element.
PushedInFront(q, v, size) == IF Len(q) < size THEN <<v>> \o q ELSE <<v>> \o Tail(q)
Pushed(q, v, size) == IF Len(q) < size THEN Append(q, v) ELSE Append(Tail(q), v)

PushOut(f) == /\ pushed' = Append(pushed, f)
              /\ out' = IF out_closed THEN out ELSE Pushed(out, Len(pushed) + 1, OutSize)

\* recv_loop: a frame is complete, or over.  TCP pushes it to out itself.
FrameComes ==
    /\ "recv" \in alive /\ came < NFrames
    /\ came' = came + 1
    /\ IF transport = "tcp" THEN PushOut(came') /\ pos' = came'
                            ELSE UNCHANGED <<pos, pushed, out>>
    /\ UNCHANGED <<arguments, main, closing, stop_flag, running, alive, again, aside,
                   out_closed, decoder, frame, decoded_q, newest, shown>>

\* It ends when stop has cleared running_ and closed the socket, or when recv fails or
\* the server goes away, which TCP takes for the end of the receiver.
RecvEnds ==
    /\ "recv" \in alive
    /\ alive' = alive \ {"recv"}
    /\ running' = (running /\ transport # "tcp")
    /\ UNCHANGED <<arguments, main, closing, stop_flag, came, outputVars, queueVars,
                   decoder, frame, newest, shown>>

\* jb_loop: the next frame that the jitter buffer hands on.
HandsOn == /\ transport = "udp"
           /\ \E f \in (pos + 1)..came : pos' = f /\ PushOut(f)
           /\ UNCHANGED <<again, aside>>

\* assemble_loop: the last packet of a frame.  If it is complete it is emitted and stays
\* in cur_; repaired, it is emitted for good; or it is set aside.
FrameEnds ==
    /\ transport = "rtp" /\ ~again
    /\ \E f \in (pos + 1)..came :
          /\ pos' = f
          /\ \/ PushOut(f) /\ again' \in BOOLEAN /\ UNCHANGED aside
             \/ aside' = aside \cup {f} /\ UNCHANGED <<again, pushed, out>>

\* The first packet of the next frame ends the one in cur_ once more.
FrameRepeats == /\ transport = "rtp" /\ again
                /\ PushOut(pos) /\ again' = FALSE
                /\ UNCHANGED <<pos, aside>>

\* expire_zombies: its parity packet repairs a frame that was set aside, or it is given
\* up.
KeptAside(f) == aside
OffAside(f) == aside \ {f}

ZombieEnds == /\ transport = "rtp"
              /\ \E f \in aside : /\ aside' = OffAside(f)
                                  /\ PushOut(f) \/ UNCHANGED <<pushed, out>>
              /\ UNCHANGED <<pos, again>>

Outputs ==
    /\ "output" \in alive
    /\ HandsOn \/ FrameEnds \/ FrameRepeats \/ ZombieEnds
    /\ UNCHANGED <<arguments, main, closing, stop_flag, running, alive, came,
                   out_closed, decoder, frame, decoded_q, newest, shown>>

LoopEnds(t) ==
    /\ t \in alive /\ ~running
    /\ alive' = alive \ {t}
    /\ UNCHANGED <<arguments, main, closing, stop_flag, running, came, outputVars,
                   queueVars, decoder, frame, newest, shown>>
OutputEnds == LoopEnds("output")
PingEnds == LoopEnds("ping")

-----------------------------------------------------------------------------
\* decode_thread: the test of stop_flag before the next pop.  At its end it closes
\* decoded_q, which lets pop_for of main return at once and changes nothing else.
DecoderGoesOn == IF stop_flag THEN alive' = alive \ {"decode"} /\ UNCHANGED decoder
                              ELSE decoder' = "pops" /\ UNCHANGED alive

DecoderOpens ==
    /\ decoder = "opens" /\ "decode" \in alive
    /\ DecoderGoesOn
    /\ UNCHANGED <<arguments, main, closing, stop_flag, running, came, outputVars,
                   queueVars, frame, newest, shown>>

DecoderFails ==
    /\ decoder = "opens" /\ "decode" \in alive
    /\ stop_flag' = TRUE /\ alive' = alive \ {"decode"}
    /\ UNCHANGED <<arguments, main, closing, running, came, outputVars, queueVars,
                   decoder, frame, newest, shown>>

DecoderPops ==
    /\ decoder = "pops" /\ "decode" \in alive
    /\ IF out # <<>>
       THEN /\ frame' = Head(out) /\ out' = Tail(out)
            /\ decoder' = "decodes" /\ UNCHANGED alive
       ELSE /\ out_closed
            /\ alive' = alive \ {"decode"} /\ UNCHANGED <<frame, out, decoder>>
    /\ UNCHANGED <<arguments, main, closing, stop_flag, running, came, outputVars,
                   out_closed, decoded_q, newest, shown>>

\* A frame without what it refers to gives no picture.
Decodes ==
    /\ decoder = "decodes" /\ "decode" \in alive
    /\ \/ /\ decoded_q' = Pushed(decoded_q, frame, DecodedSize)
          /\ newest' = frame
       \/ UNCHANGED <<decoded_q, newest>>
    /\ DecoderGoesOn
    /\ UNCHANGED <<arguments, main, closing, stop_flag, running, came, outputVars, out,
                   out_closed, frame, shown>>

-----------------------------------------------------------------------------
Goes(to) == /\ main' = to
            /\ UNCHANGED <<arguments, closing, running, alive, came, outputVars,
                           queueVars, decoder, frame, newest, shown>>

\* main with a window.  When it does not open main returns, and the destructor of
\* decode_thread, which is not joined, ends the process.
WindowOpens == main = "opens" /\ Goes("tests") /\ UNCHANGED stop_flag
WindowFails == main = "opens" /\ Goes("aborted") /\ UNCHANGED stop_flag

MainTests == /\ main = "tests" /\ ~closing /\ ~stop_flag
             /\ Goes("pops") /\ UNCHANGED stop_flag

\* pop_for of decoded_q gives a picture or times out; without a window main tests
\* stop_flag only then.
MainPops ==
    /\ main = "pops"
    /\ IF decoded_q # <<>>
       THEN shown' = Head(decoded_q) /\ decoded_q' = Tail(decoded_q)
       ELSE (headless => ~stop_flag) /\ UNCHANGED <<shown, decoded_q>>
    /\ main' = (IF headless THEN "pops" ELSE "tests")
    /\ UNCHANGED <<arguments, closing, stop_flag, running, alive, came, outputVars, out,
                   out_closed, decoder, frame, newest>>

\* The loop ends; stop clears running_ and closes the socket, ...
LoopIsOver == IF headless THEN main = "pops" /\ decoded_q = <<>> /\ stop_flag
                          ELSE main = "tests" /\ (closing \/ stop_flag)
MainStops ==
    /\ LoopIsOver
    /\ stop_flag' = TRUE /\ running' = FALSE /\ main' = "joins_rx"
    /\ UNCHANGED <<arguments, closing, alive, came, outputVars, queueVars, decoder,
                   frame, newest, shown>>

\* ... joins the threads of the receiver and closes out; then decode_thread is joined.
Joined == alive \cap RxThreads(transport) = {}

OutStaysOpen == UNCHANGED out_closed
OutCloses == out_closed' = TRUE

MainJoinsReceiver ==
    /\ main = "joins_rx" /\ Joined
    /\ main' = "joins_decoder" /\ OutCloses
    /\ UNCHANGED <<arguments, closing, stop_flag, running, alive, came, outputVars, out,
                   decoded_q, decoder, frame, newest, shown>>
MainJoinsDecoder == /\ main = "joins_decoder" /\ "decode" \notin alive
                    /\ Goes("returned") /\ UNCHANGED stop_flag

Main == \/ WindowOpens \/ WindowFails \/ MainTests \/ MainPops \/ MainStops
        \/ MainJoinsReceiver \/ MainJoinsDecoder

\* The user closes the window.
Closes == /\ main \in {"tests", "pops"} /\ ~headless /\ ~closing
          /\ closing' = TRUE
          /\ UNCHANGED <<arguments, main, stop_flag, running, alive, came, outputVars,
                         queueVars, decoder, frame, newest, shown>>

-----------------------------------------------------------------------------
Ongoing == main \notin {"returned", "aborted"}
Decoder == DecoderOpens \/ DecoderFails \/ DecoderPops \/ Decodes
Next == /\ Ongoing
        /\ \/ FrameComes \/ RecvEnds \/ Outputs \/ OutputEnds \/ PingEnds
           \/ Decoder \/ Main \/ Closes

Spec == Init /\ [][Next]_vars

\* Every thread runs; frames, a server that goes away and a closed window are not
\* promised, but closing the socket ends recv_loop.
FairSpec == /\ Spec
            /\ WF_vars(Ongoing /\ Main) /\ WF_vars(Ongoing /\ Decoder)
            /\ WF_vars(Ongoing /\ ~running /\ RecvEnds)
            /\ WF_vars(Ongoing /\ OutputEnds) /\ WF_vars(Ongoing /\ PingEnds)

-----------------------------------------------------------------------------
\* The shutdown does not wait for itself: every thread that main joins has been told to
\* end, by the flag its loop tests or the queue its pop waits for, and with queues that
\* drop none of them waits anywhere else; no push is refused before that.
Released ==
    /\ main = "joins_rx" => ~running /\ stop_flag
    /\ main = "joins_decoder" => out_closed /\ stop_flag
    /\ out_closed => alive \subseteq {"decode"}

\* When main returns no thread is left that uses its queues and flags.
NoThreadLeft == main = "returned" => alive = {}

\* TCP and UDP push each frame once and in order.  RTP pushes a frame twice at most, with
\* nothing but repaired older ones in between, and behind a newer one only a frame that
\* it pushes once.
PushedInOrder ==
    \A i, j \in DOMAIN pushed : i < j =>
        \/ pushed[i] < pushed[j]
        \/ /\ transport = "rtp" /\ pushed[i] = pushed[j]
           /\ \A k \in (i + 1)..(j - 1) : pushed[k] < pushed[j]
        \/ /\ transport = "rtp" /\ pushed[i] > pushed[j]
           /\ \A k \in DOMAIN pushed : pushed[k] = pushed[j] => k = j

\* Each picture that main takes stems from a later push to out than the one before: two
\* queues drop what they hold and the decoder passes over frames, but no picture comes
\* twice or behind a later one but for frames that were pushed so.
ShownInOrder == [][MainPops /\ decoded_q # <<>> => shown' > shown]_vars

\* Once the window is closed or stop_flag is set, the process ends: the threads that
\* main waits for one after the other do not wait for what only main would do later.
ShutdownEnds == (closing \/ stop_flag) ~> main \in {"returned", "aborted"}
=============================================================================
