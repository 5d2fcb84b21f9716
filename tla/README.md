# rtstream in TLA+

Models, model checks and proofs for rtstream, the real-time video system of this
repository: a server that captures, encodes and sends video over TCP, UDP or RTP,
and a client that receives, repairs, decodes and renders it. The models cover the
parts whose correctness depends on order, loss and interleaving. They are
translated from the code; each module names its file, and `PROJECT.json` maps each
definition to lines.

Paths below are relative to the repository; its sources are `src/` and `app/`.

## Inventory

| Component | State | Operations | Talks to |
| --- | --- | --- | --- |
| `common/thread_safe_queue.h` | `q_`, `closed_`, `dropped_`, two condition variables | `push`, `try_push`, `pop`, `pop_for`, `close` | joins the capture, encode, send, receive, decode and render threads |
| `receiver/jitter_buffer.h` | `buf_`, `next_out_`, time stamps, target depth, NACK log | `push`, `pop`, `set_rtt_ms`, callback `on_missing_` | pushed by a receiving thread, popped by an output thread |
| `transport/udp_server.h`, `nack_manager.h` | `clients_`, retransmission cache | `broadcast`, ping, NACK, statistics | encoder thread, receiving thread, simulator, network |
| `transport/fec.h` | none | `fec_generate`, `fec_recover` | UDP and RTP links |
| `transport/loss_simulator.h` | `pending_`, `running_` | `inject`, drain thread, `stop` | UDP and RTP servers |
| `receiver/udp_receiver.h` | `groups_`, RTT, time extension | receive, recover, NACK, give up, ping, output | network, jitter buffer, output queue |
| `transport/rtp_server.h` | 16-bit sequence number, cache, clients | packetise (single NALU, FU-A), parity, NACK, ping | as the UDP server |
| `receiver/rtp_receiver.h` | current frame, zombies, parity map | receive, assemble, recover, expire | network, jitter buffer, output queue |
| `transport/tcp_server.h`, `receiver/tcp_client.h` | clients with a queue and a thread each; a stream | accept, broadcast, send, stop; read frames | sockets, queues |
| `stats/metrics.h` | counters, latency ring | increments, percentiles | everybody |
| `web/ws_server.h`, `http_server.h`, `web_previewer.h` | WebSocket clients, MJPEG frame | adopt, accept, broadcast, stop, preview | browser, decoded frames |
| `app/server_main.cpp`, `app/client_main.cpp` | the threads and queues, shutdown | start, run, shut down in order | everything |
| capture, encoder, decoder, rendering, `thread_pool.h`, helpers | device and library state | input, output, arithmetic | the pipeline |

### What is hard, and what makes each part correct

* **Queue.** Notifications issued after unlocking, two condition variables, time-outs,
  spurious wake-ups, a close at any moment. Correct: a FIFO that gives up only its
  oldest element and only when full, no lost wake-up, no sleeper after close.
* **Jitter buffer.** Reordered, duplicated and missing units, wrap-around, two timers
  that end a wait, overflow, jumps of the numbers. Correct: in-order output, each
  number passed over counted once, no gap unreported, nothing held for ever.
* **UDP link.** Two threads of the server, packets that overtake each other,
  retransmissions to every client, groups that start over after their frame is
  complete. Correct: frames arrive intact, one loss per frame is repaired without a
  NACK, the repair traffic ends.
* **Loss simulator.** A timed wait that must end earlier when an earlier packet comes.
  Correct: each packet once, in due order, never late because of a missed wake-up;
  `stop` returns.
* **RTP receiver.** 16-bit numbers, a frame ended by its marker or by the next frame,
  recovery of frames set aside, a parity map shared by two threads.
* **TCP.** Threads blocked in system calls while others close sockets, descriptor numbers
  that change hands, clients that come during `stop`. Correct: whole packets on each
  connection, `stop` returns and leaves no thread.
* **Web servers and shutdown.** Three kinds of threads write to one WebSocket, handlers
  hand connections over while the server stops, `main` joins its threads one by one
  while each may wait for a component that stops later. Correct: one writer at a time,
  no thread object destroyed unjoined, shutdown ends from every state.
* **Time stamps.** 32 bits on the wire, 64 in the receivers, and two hosts with two
  monotonic clocks. Correct: no jump by a wrap, parity found under the server's key.

`PROJECT.json` lists the hazards, each at its line, with the properties that would
catch it, or a note saying why none does.

## Modules

| Module | Models | EXTENDS / refines |
| --- | --- | --- |
| `LossyFifo` | what the queue promises: positions `head+1..tail`, `Put`, `Replace`, `Take`, `Close` | abstract |
| `ThreadSafeQueue` | the queue with threads, mutex sections, condition variables | refines `LossyFifo` |
| `ThreadSafeQueue_proofs` | its theorems | `ThreadSafeQueue` |
| `InOrderStream` | what the jitter buffer promises downstream | abstract |
| `JitterBuffer` | the jitter buffer | refines `InOrderStream` while nothing realigns |
| `JitterBuffer_proofs` | its theorems | `JitterBuffer` |
| `Fec` | XOR parity and recovery | |
| `Fec_proofs` | its theorems | `Fec` |
| `UdpWire` | packets, network, loss | |
| `UdpServer` | `udp_server.h`, `nack_manager.h` | `UdpWire` |
| `UdpReceiver` | the receiving thread of `udp_receiver.h` | `UdpWire`, `Fec` |
| `UdpLink`, `MCUdpLink` | server, clients and network together; instances | `UdpServer`, `UdpReceiver` |
| `DelayLine` | what the simulator promises: a packet is lost, passes at once, or stays inside until it is due and leaves once, in due order | abstract |
| `LossSimulator` | `inject`, drain thread, `stop` | refines `DelayLine` |
| `UdpLink_proofs` | the theorems about the link and about the simulator | `UdpLink`, `LossSimulator`, `Fec_proofs` |
| `RtpAssembly`, `MCRtpAssembly` | the assembling thread of `rtp_receiver.h` with the parity map its receiving thread fills; an instance | `Fec` |
| `RtpAssembly_proofs` | its theorems | `RtpAssembly`, `Fec_proofs` |
| `TimeStamps` | time stamps of 32 bits, their extension and the keys of parity packets | |
| `TcpServer` | `tcp_server.h`, its threads and sockets, and what a client reads | |
| `TcpServer_proofs` | its theorems | `TcpServer` |
| `WebServer` | `http_server.h` and `ws_server.h` on their one port, with the JPEG slot | |
| `ServerProgram` | `server_main.cpp` and `web_previewer.h`: the pipeline's threads and the shutdown | `WebServer` |
| `ServerProgram_proofs` | its theorems | `ServerProgram` |
| `ClientProgram` | `client_main.cpp` with the threads of its receiver: the pipeline to the picture shown, and the shutdown | |
| `Client_proofs` | its theorems, and those about time stamps | `ClientProgram`, `TimeStamps` |

### How state and actions correspond to the code

**ThreadSafeQueue.** One step is one critical section of `mtx_`, or a notification
issued outside of it: `try_push` and `close` notify after they unlock, so
`TryPushNotifies`, `CloseNotifiesEmpty` and `CloseNotifiesFull` are steps of their own,
while the notification of `push` and `pop`, issued with the lock held, is part of
`PushAccepted` and `PopTakes`. `st` says where each thread is; a sleeper that is
notified, times out or wakes spuriously competes for the mutex again and evaluates
its predicate again. Elements are numbered as they enter. `drop_old_` is chosen by
`Init`, so one run covers both kinds of queue; the program itself uses only the
drop-oldest kind.

**JitterBuffer.** `push` is `PushRejected` or `PushAccepted`, each the whole critical
section: start, retune, insertion, gap detection with the throttled reports and the
clearing of the log, realignment, eviction. `pop` is `PopHead`, `PopHolds`, `PopAsks`
or `PopSkips`; a `pop` of an empty buffer changes nothing. Unit *i* of the stream has
wire number `i % WireMod`, compared modulo `SeqMod`: equal for the UDP link, 2^16
against 2^32 for the RTP link, which pushes its 16-bit numbers unextended. The jitter
estimate is abstracted to any target within its limits, wherever the code retunes.
Time stamps are ages in ticks that stop growing where no comparison tells them apart.
`max_wait_us_` is derived from the current target, except that the code starts it at
130 ms = 2 * 40 ms + 50 ms, the same value.

**UDP link.** A packet is a frame number and a fragment number. `BroadcastFrame` starts
a frame, each `Emit` is one call of the lambda `emit` (remember, inject), so the
receiving thread's `HandlePing` and `HandleNack` interleave with a frame that is being
sent. Packets travel to each client separately and may overtake each other. `Receive`
is the whole of `on_media` with `try_finalize`: file the packet, then finish, or
recover and finish, or send a NACK and perhaps give up. A fragment is a set of terms, of
which exclusive or is the symmetric difference, so that a wrong recovery gives wrong
content, and a length: `Chunk` for all but the last of a frame, which has `LastSize`. A
recovered fragment is as long as the longest packet of its group, whatever was sent. What
the jitter buffer gets is recorded in `handed`. A frame without bytes is not broadcast
here; the encoder produces none.

**LossSimulator.** `head` and `looking` are the places where the drain thread holds
`mtx_`; `stop` clears `running_` without it, so it interleaves between the test of
`running_` and the wait. `Delays` is the locked push of `inject`, `Notify` its
notification after unlocking.

**RtpAssembly.** A step of the assembling thread looks a frame up in `fec_` at most once:
`Pop` takes a packet into `cur_` (`Continues`), or ends `cur_` with it and begins another
frame (`Begins`); `Ends` is `finalize_frame` at a marker; `HealsZombie` and `PassesZombie`
are one pass of the loop in `expire_zombies`, whose iterator is `it`. `at` says which of
these comes next. `EmitsComplete`, `EmitsHealed` and `CannotEmit` are what happens to a
frame in all of them. What the jitter buffer delivers is any increasing choice of the
packets sent (`InOrderStream`). The receiving thread's insertion under `fec_mtx_` takes two
steps, `StoreBegins` and `StoreEnds`; the lookups do not take that mutex, so between the two
they may miss what is there. That is all of this data race the model has: a lookup that
crashes or reads torn data, and the eviction of an entry in use, are left out. A packet is a
set of terms and a length as in `Fec` (`Bytes`, at most `Mtu`, and a packet that does not
end its NAL unit is full), a recovered number is the exclusive or of numbers, and `Kept`
says which packets make NAL units again. Sequence numbers do not wrap, neither here nor in
`raws`, and parity finds its frame: `TimeStamps` says when it does.

**TimeStamps.** No state: `Extend` is `extend_ts90` and, with other units,
`extend_capture_us`; the reference is the last extension or, for the first packet, the
local clock. The numbers are those of the code, too large for TLC's integers, so this
module has theorems (in `Client_proofs`) and no run.

**TcpServer.** A packet is written by two `send_all` calls, `Writes` with piece 1 and 2,
under `send_mtx`; a thread reads `c->fd` when it calls `send` (`Locks`, or the end of
the first piece), looks the number up in `Enters` and may wait in `Writes` for as long
as the client does not read. Descriptor numbers are reused as POSIX demands, and they
can change hands between the three. `close_fd` is one step. `accept` may fail at any
moment, which ends `accept_loop`. A client's queue is counted, since order
and loss inside are `LossyFifo`'s. `stop` is four steps: `running_` and the listening
descriptor, the clients, the two joins. Each loop's test of `running_` is a step.

**WebServer and ServerProgram.** A step takes one thread to the next place where it can
wait or takes a mutex; `at` says where each is, `todo` is the rest of the snapshot of
clients a broadcast works through. A connection is read by its detached HTTP handler
(`Requests`), which answers, serves the MJPEG stream (`ViewerWakes`, `ViewerShows`) or
hands it to the WebSocket server (`Shakes`, `AddsClient`, `ThreadStarts`: the test and
setting of `running_`, the push under `mtx_` and the start of the thread are three
steps). From then on the connection's thread receives, answers pings and echoes under
`send_mtx`, and ends. The preview thread and the statistics thread broadcast; `Locks`,
`Sends` and `SendFails` are theirs and the clients' alike. A browser connects, stops
reading and reads on, or goes away, whenever it likes. `main` moves through the joins
and stops of its last lines one `Main...` action each, with the snapshot of
`WsServer::stop` (`joining`), the joins and `clients_.clear()`, and the second stop from
`~WsServer`. The encoder may fail at its first frame, which sets `g_stop` as a signal
does. `torn` records the clients whose adoption overlapped with `WsServer::stop`.
Left out are descriptor numbers that are used again (`TcpServer` has them), static
pages, the listening mode of `WsServer` and the start-up of `main`, and the transport: its
`broadcast` never waits and its `stop` is that of `TcpServer` or `LossSimulator`.

**ClientProgram.** A frame is its number, in the order in which frames come from the
network. `FrameComes` is the receiving thread, for TCP with the push to `out`. `Outputs` is
the output thread. `jb_loop` of UDP hands on the next frame or passes over some (`HandsOn`,
`InOrderStream`). `assemble_loop` of RTP emits a frame at its last packet or sets it aside
(`FrameEnds`), emits a complete one again when the next one begins (`FrameRepeats`), and
emits what it set aside late or gives it up (`ZombieEnds`): `RtpAssembly` has the
conditions, here they are choices. What travels in the queues is the number of the push, and
`pushed` has the frame of each. The decoder tests `stop_flag`, pops (`DecoderPops`) and
pushes a picture or has none (`Decodes`). `main` with a window alternates between the test
of its two flags (`MainTests`) and `pop_for` (`MainPops`); without one it tests `stop_flag`
only when `pop_for` times out. `stop` of the receiver is `MainStops`, `MainJoinsReceiver`
and, for the decoder, `MainJoinsDecoder`; `alive` are the threads not yet ended. The three
transports, with and without a window, are initial states. `RecvEnds` may also happen on its
own, when `recv` fails or the TCP server goes away. A window that fails ends in `aborted`.
What is inside frames and packets, drawing, and a receiver that does not start are left out;
that the queues are safe for several threads is `ThreadSafeQueue`.

## Runs

| Run | Shows |
| --- | --- |
| `TSQ` | Both kinds of queue, two producers that call `push`, one that calls `try_push`, a consumer that blocks and one with a time-out, `close` at any moment. Refinement of `LossyFifo`, no lost wake-up on either side, order, close releases everybody. |
| `JB_order` | Numbers that never jump beyond `MaxGap`: every unit that comes out is after those before it, counting (refinement of `InOrderStream`), no silent gap, `max_wait_us_` never decides, newest accepted, every unit leaves (liveness). |
| `JB_wrap` | Expected violation: 16-bit numbers, see Findings. |
| `UDP_prompt` | One client, a tick only while nothing is on its way: one loss per frame is repaired; without loss the repair traffic ends; no group is given up, with losses or without. |
| `UDP_lossy` | Loss in simulator and network, unlimited delay and reordering: frames intact but for zeros behind a recovered last fragment, no group that could be finished waits, a frame whose packets have left the network is missing only if it was given up or two of them were dropped, what was sent recently can be sent again. |
| `UDP_storm` | Expected violation: two clients, see Findings. |
| `SIM_delay` | Two injecting threads, loss, jitter from zero, a stop at any moment: refinement of `DelayLine` (once each, not before it is due, in due order), no oversleeping, every packet leaves. |
| `SIM_stop` | Expected violation: `stop` hangs, see Findings. |
| `RTP` | Any loss, parity early, late or never: a frame whose first packet came leaves with all its packets, zeros at most behind a recovered one that ends its NAL unit, none with both ends disappears uncounted, one loss inside is repaired, frames overtake each other only by repair. |
| `TCP` | Two clients that read or not, come and leave at any moment, frames and statistics, a stop at any moment: whole packets on each connection, no thread left after `stop`, and `stop` returns unless a client was accepted meanwhile. |
| `SRV` | Browsers that upgrade, watch MJPEG, stall and leave, frames, a signal or a failing encoder at any moment: one writer per WebSocket, every thread joined when `main` returns, shutdown ends unless a browser stops reading, MJPEG viewers end at the newest picture. |
| `CLIENT` | Three frames over each transport, with a window or without, RTP frames repeated and late; the window closes, the decoder fails or the server goes away at any moment: pushes to `out` are in order but for what RTP repeats or repairs late, each picture shown was pushed after the one before, the process ends. |

The type invariants of all modules with state are proved (`TypeCorrect`, `SimTypeCorrect`,
`AlwaysTypeOK`). Every property of a passing run has a mutant: a form of one definition with
a plausible mistake (`PROJECT.json`, "mutants"; the mutated forms stand before the
definitions in the modules), under which the same run finds the property violated.

### Bounds, and why they are enough

* `TSQ`: capacity 2 makes the order inside matter and lets the queue be full, empty and
  in between; four pushes fill it, overflow it and go round once more. Two blocked
  producers are needed for a wake-up to reach the wrong one.
* `JB_*`: a number space of 16 stands for 2^32, with all numbers in use within half of
  it, as in the code for any realistic run; the theorems need nothing but that. `Grace`
  1 and delays of 1 to 2 ticks make target, starvation and `max_wait_us_` different. Five
  units overflow a buffer of three, which may evict the very head. `MaxLost` and `MaxLead`
  bound the arrivals. In `JB_order` no number jumps beyond `MaxGap` and the log is never
  cleared at its cap: what holds then is what the theorems without `NoNewSession` say
  (`TypeCorrect`, `AlwaysBounded`, `NewestNeverRefused`, `AlwaysAsksOnlyForMissing`,
  `MaxWaitNeverDecides`).
* `UDP_*`: one frame of three fragments is the smallest in which FEC repairs one loss
  and a group that starts over can lack one, two or all fragments. `UDP_lossy` has two
  frames of two fragments, six packets for a cache of four, so that frames compete for
  it. `MaxCopies` and `MaxNacks` bound what is on its way; a NACK beyond the bound is
  lost, and so is one that equals a NACK on its way. `UDP_storm` needs no more
  than one copy and one NACK. Of the two lengths a fragment has, a short last one and a
  full last one both occur in `UDP_lossy`.
* `SIM_*`: three packets, delays of 0 to 2 ticks, due times up to 4: a packet can be due
  before one that was injected earlier, and two can be due together.
* `RTP`: frames of four, one and three packets. Four hold two NAL units, so that a loss can
  hit the beginning of a unit, its inside or the end of the frame; one is a frame that is
  complete and at its marker at once; four and three lose a packet inside, so that two
  zombies wait and the loop over them goes past one to the other; two parity entries for
  three frames make the map evict. Packets of one and two bytes: a short one may end a NAL
  unit inside a frame or at its end. `GiveUpAge` 1 lets a frame be younger, just as old and
  older.
* `TCP`: two connections, so that a descriptor number passes from one to the other; one
  place in the queue is enough for a queue that is only counted. The system's `close`
  wakes the threads that wait on the socket (`CloseWakes`), which the code relies on.
* `SRV`: `Load` is 4, a browser costs two and a picture one: two browsers, or one browser
  and two pictures, so that two clients are in one broadcast and one client lives
  through several. Queues of one place are empty and full. Two browsers are what it takes
  for one to stall the other's broadcast (a client's thread broadcasts what a client sent)
  and for one to be adopted while the other is joined. The previewer starts with the first
  frame, and beside it there is room for one browser only: two never meet a previewer that
  runs. What the safety properties say of that case is proved; `ShutdownEnds` and
  `NewestShown` are not checked there.
* `CLIENT`: three frames, so that one can be set aside, a newer one pushed twice and the
  first repaired after it or between; queues of two places overflow and keep an order.

### Fairness

A thread that is awake gets the mutex and continues; a consumer loop calls `pop`
again (`jb_loop`, `assemble_loop`, the decode and send loops are `while` loops); a
`wait_for` ends; time passes; a packet that is not dropped arrives. Nobody is assumed to
push, to ping, to close or stop, to time out or to wake spuriously. Every thread of the
TCP server continues unless it waits on a socket; its clients need not connect, read or
leave. In the server program every thread continues, and the threads of
the previewer get `send_mtx` in the end although clients want it too (strong fairness of
their `Locks`: the mutex is free again and again, and no implementation starves a waiter
for ever). In the client every thread continues, and closing the socket ends `recv_loop`.
Browsers, frames, signals, a closed window and a call of `accept` that fails while the server
runs are not promised. `UDP_prompt`
and `UDP_storm` also assume a network that delivers within a tick (10 ms): `Prompt`
is a constant, FALSE in `UDP_lossy`.

## Theorems

Proved by TLAPS for all values of the constants that satisfy the assumptions. Each
module's lemmas lead from `Init` and the single actions to an inductive invariant, and
from it to the properties.

* `ThreadSafeQueue_proofs`, for any sets of threads and any positive capacity. `QueueInv`
  says that the queue holds the interval of the last elements that entered
  (`Contiguous`); `StepKinds` reduces every step to an insertion, a delivery, a close or no
  change. `AlwaysContiguous` follows; `ImplementsLossyFifo` maps each kind of step to the
  abstract one; `AlwaysInOrder` adds that everything received has left (`GotInv`).
  `AlwaysNoLostItem` and `AlwaysNoLostRoom` count: each element inside has a consumer on its
  way or a notification still to come (`ItemStep`, `RoomStep`), and `Counts` says how such a
  sum changes when one thread moves. `AlwaysNobodySleeps`, `AlwaysLossless`, `TypeCorrect`.
* `JitterBuffer_proofs`. `TypeCorrect` and `AlwaysBounded` need no more than themselves.
  `MaxWaitNeverDecides` rests on the invariant that a head is found missing after the last
  output, so that downstream starves at least as long. `InOrder` assumes `NoWrap`, that all
  numbers in use fit in half the space, and `NoNewSession`, that no gap exceeds `MaxGap`;
  its invariant says that everything in the buffer is at or after `next_out_` and everything
  delivered before it. Without `NoNewSession` it is false (Findings). `NewestNeverRefused`
  (also `NoWrap`) needs that `next_out_` is at most one beyond the newest unit and nothing
  buffered is newer (`NewestInv`). `NoGapSilent` assumes in addition that fewer units are
  sent than the log holds, as `NoSilentGap` is false once the log was cleared; its invariant
  says that every number missing before a buffered unit is in the log (`GapInv`).
  `Implements` assumes `NoWrap` and `NoNewSession`, and shows that each step is a step of
  `InOrderStream` or a stutter. `AlwaysAsksOnlyForMissing` needs no assumption.
* `Fec_proofs`. `XorOverCounts`: a term is in the exclusive or of a finite family when it is
  in an odd number of its members, by a least counterexample, since induction theorems are
  out of reach (below). `Repairs` follows, for packets of any lengths: with one hole, what
  `fec_recover` fills in is what was sent and zeros behind it up to the longest packet,
  hence what was sent if and only if no other packet of the group is longer.
* `UdpLink_proofs`, for any frames, clients, bounds and network. `AlwaysIntact`: whatever
  is on its way or in a group is a packet of its frame, so that by `Repairs` what is
  assembled is the payload, but for zeros at its end if the last fragment was recovered: all
  others are full. `AlwaysNoReadyGroupWaits` holds since every packet filed ends
  in a call of `try_finalize`. `AlwaysRecentAnswerable`: the cache holds different packets
  in the order of their frames, and one that was sent and is not in it is of no newer
  frame than those that are, and then the cache is full (`CacheInv`). So a recent packet
  that was not cached would make more packets than were sent; the sum in the property is
  shown to be the size of the set of these. `AlwaysOneLossCostsNothing`: every packet emitted
  for a client is on its way to it, was dropped, is in its group, or its frame was handed
  over or given up (`LossInv`); once none is on its way, a group still waiting lacks two
  packets by `NoReadyGroupWaits`, and a frame without a group lacks them all.
  `AlwaysNothingGivenUp`: over a prompt network a group that time has passed for is silent, no
  packet of its frame and no request for it is on its way or will ever be (`RestInv`,
  `SilenceStays`), and only a packet could get it given up.
* `UdpLink_proofs` about `LossSimulator`, for any injecting threads and delays. `SimInv` is
  all of it at once: a packet is in one place (`InOnePlace`), one that left did so when it was
  due or later (`DuePast`), so that nothing injected now is due before it
  (`AlwaysInDueOrder`), and a nap ends no later than the earliest due time unless a
  notification is still to come (`AlwaysNeverOversleeps`). `AlwaysAtMostOnce`, which no run
  checks by itself since `ImplementsDelayLine` contains it. `ImplementsTheDelayLine`: a packet
  in the drain thread's hand is still inside the line, so that a pop is a stutter and the call
  of `send_` is the abstract `Leave`; `InOnePlace` says that it leaves for the first time,
  `DuePast` that it is due, `LeaveInDueOrder` that nothing inside was due before it, also
  nothing injected while the thread held the packet without the lock.
* `RtpAssembly_proofs`, for any frames, numbers of packets, size of the parity map and ages.
  The invariant `IInv` relates what the thread holds to what came and to what left: `cur_`
  and the zombies hold exactly the packets that came of their frames (`CurInv`,
  `ZombieInv`); a zombie has a gap and has not left; a frame leaves a second time only as it
  leaves `cur_`, and only if it had no gap (`TwiceInv`); a parity packet that repaired a
  frame is in `fec_` no more and does not come again (`FecInv`, `LeftInv`); what is held is
  not counted as lost (`NetInv`). `CompleteEmission` and, with `Repairs` of `Fec_proofs`,
  `HealedEmission` show that a frame whose first and last packet came is emitted as the
  server cut it, but for zeros behind a recovered packet that is not full, which only one
  that ends its NAL unit can be; `EndsKeeps` and `ZombieGoes` that a frame which leaves, is
  set aside or is given up keeps all of this, and `WithoutFacts` that the iterator survives
  an erasure. `AlwaysIntact`, `AlwaysNoneDisappears`, `AlwaysInnerLossRepaired`,
  `AlwaysOutputOrder` and `TypeCorrect` follow.
* `TcpServer_proofs`, for any number of connections and any queue. A thread works with a
  number it read before: the invariant says that the number is still the client's, or is
  unused, or another's by now (`CallInv`; `reused` records these), and that who holds
  `send_mtx` (`MutexInv`) is who sends the packet that is half read (`ReadInv`);
  `FreeNumber`, a pigeonhole argument, says that `accept` finds an unused number.
  `AlwaysFramesWhole` follows. `AlwaysNoThreadLeft`: every connection accepted is in
  `clients_` but perhaps the last, while `accept_loop` adds it (`ListInv`), and that loop was
  joined before the senders (`StopInv`).
* `ServerProgram_proofs`, for any number of browsers and any load. `AlwaysOneWriter`: a
  thread that aims at a client has one (`HasTarget`), only connections whose handshake is
  over are targets (`Entered`), and `send_mtx` admits one sender to each (`OneSender`).
  `AlwaysNoThreadLeft`: each place of `main` implies that the threads joined before have
  ended (`OrderInv`). `AlwaysNoAbort`: a client whose thread is joinable, or about to
  start, is in `clients_`, or its adoption overlapped with `stop` (`AdoptionInv`).
* `Client_proofs`, for any number of frames, each transport and queues of any size
  (`SizesOK`). `OrderInv`: the numbers of the pushes of the picture
  shown, those in `decoded_q`, the frame with the decoder and those in `out` rise in this order,
  which a push to a full queue (`PushRises`) and a pop (`PopRises`) keep. `AlwaysShownInOrder`
  follows, and `AlwaysTypeOK`, in which a picture shown stems from a push. Neither says that
  frames are shown in their order: over RTP they are pushed twice and late, and
  `AlwaysPushedInOrder` says how far. Its invariant `PushInv` is that a frame set aside was not
  pushed, and one that will be repeated was pushed once. `JoinInv` says
  what `main` has waited for and told to end where it is (`AlwaysNoThreadLeft`,
  `AlwaysReleased`): that is the part of a shutdown that ends which can be proved here; that the
  threads then do end rests on fairness and is what `CLIENT` checks (`ShutdownEnds`).
* `Client_proofs` about `TimeStamps`. `ExtendsNearby`, `KeepsOffset`, `FirstOffset`: the
  extension never jumps by a wrap, and its offset is set by the first packet. `ParityFound`
  and `ParityNeverFound` say when the RTP receiver finds a parity packet: see Findings.

Assumptions: capacity and buffer size positive; `MinDelay <= Default <= MaxDelay`; the log
holds at least `MaxGap` entries (4096 against 1024 in the code), without which one push
could clear the log twice; every frame has a fragment, at most 65534 of them on the UDP
link; every RTP frame has a packet and begins a NAL unit with its first; room for one parity
packet; packets have at least one byte and at most `Chunk` or `Mtu`, and are full unless
they end a frame (UDP) or a NAL unit (RTP); and the exclusive or of one number is that
number, all that the proofs need to know of it.

Only model-checked:

* liveness, which needs fairness and `ENABLED`, out of the prover's reach:
  `EveryElementLeaves`, `CloseReleases`, `EveryUnitLeaves`, `FecSuffices`, `RecoveryEnds`,
  `EveryPacketLeaves`, `StopEnds`, `ShutdownEnds` of
  both programs, `NewestShown`. Their safety part is proved where it has one:
  `AlwaysOneLossCostsNothing` for `FecSuffices`, `AlwaysNoLostItem` for
  `EveryElementLeaves`, `AlwaysNeverOversleeps` for `EveryPacketLeaves`, the `NoThreadLeft`
  theorems for `StopEnds` and `ShutdownEnds`.

Every invariant and action property that a passing run checks is stated by a theorem.
`BufferBounded`, `AsksOnlyForMissing`, `NoAbort`, `AtMostOnce` and, of the client, `Released`
and `NoThreadLeft` are proved and in no run.

Induction over data is out of the prover's reach as well: the library's induction
theorems take an operator as a parameter. Where a theorem needed it (`Fec_proofs`,
`UdpLink_proofs`, `TcpServer_proofs`), it is an argument about a least element instead.

## Findings

Each is a run that TLC shows violated.

* `JB_wrap`: the RTP receiver pushes 16-bit numbers into a buffer that compares modulo
  2^32. After number 65535 the newest packets count as too old and are refused.
* `UDP_storm`: a fragment of a frame that is already complete starts its group over,
  and the new group asks for the other fragments at once; the server sends these to
  every client, where they start groups over in turn. With two clients this does not
  end, over a network that drops and delays nothing. The throttle does not help because
  its time stamp is in the group.
* `SIM_stop`: `stop` clears `running_` without a notification and joins a thread that
  waits without a time limit while nothing is pending.

Observed while modelling, without a run of their own:

* `pop` of the jitter buffer calls `on_missing_` at every call, past the throttle
  (`jitter_buffer.h:106`, against its line 5). The callback runs with `mtx_` held (line 208
  says otherwise).
* A missing head is skipped once downstream starves, which always comes before
  the documented 2 * target + 50 ms: theorem `MaxWaitNeverDecides`.
* A realignment (`jitter_buffer.h:174`) leaves older units in `buf_`; the next skip goes
  back to them, the output runs backwards and `net_lost` grows by almost 2^32.
  `DeliveredInOrder` and `ImplementsStream` are false then (with a `MaxGap` of 2, TLC finds
  it), so no run jumps and the theorems about them assume `NoNewSession`; `NoSilentGap`
  excludes it (`stale`).
* An evicted unit is counted in `net_lost`, and again when its gap is skipped:
  `ImplementsStream` subtracts `evicted`.
* The first fragment of a frame asks for all the others, which are on their way, and
  the parity packet of a complete frame for all of them (`udp_receiver.h:173`), although
  NACKs are documented for lost fragments.
* A group is given up only when one more packet of it arrives
  (`udp_receiver.h:177`); a group of which nothing arrives any more stays in `groups_`.
* The comment at `udp_server.h:88` says that retransmissions bypass the simulator; line 48
  sends them through it, as the repository's README says.
* `pop` still delivers what is inside a closed queue, as its own comment says; the
  header's first comment says that every blocking operation returns false.
* `finalize_frame` looks for the missing packet between the first and the last that came. A
  frame without its first packet counts as complete and is emitted truncated; one without
  its last has no marker and is dropped. Their parity packet, there in time, is not used,
  although the header's comment promises it for any packet.
* The RTP server keys a parity packet by the low 32 bits of its milliseconds; the client
  computes the key from a time stamp of 2^32 ticks of 90 kHz that it extended with its own
  clock. When the monotonic clocks of the hosts differ by more than half a wrap (six
  hours), the two never agree (`ParityNeverFound`): FEC of the RTP link repairs nothing.
  `README.md:191` asks for aligned clocks for the E2E statistics alone.
* A complete frame stays in `cur_` after it is emitted (`rtp_receiver.h:193`), so the next
  frame's first packet emits it once more. A frame repaired at its marker stays too, and its
  missing packet is then counted as lost. A frame that lacks its first packet and one
  inside is completed by a packet that was never sent (`Intact` excludes those).
* Repaired zombies leave behind newer frames (`OutputOrder` says exactly when); the
  comment at `rtp_receiver.h:290` calls the output monotonic.
* A TCP client for which `accept` returned before `stop`, and which is listed after `stop`
  closed the others, has an open queue for ever. Its sending thread waits there for a frame
  that nobody broadcasts any more, even when the client has gone; `stop` joins that thread and
  never returns (`StopEnds` excludes `late`; without that TLC finds the hang).
* `fec_recover` does not know how long the lost packet was: it fills in as many bytes as the
  longest packet has. Both receivers hand that on (`udp_receiver.h:159`,
  `rtp_receiver.h:211`), so a recovered last fragment of a UDP frame, and a recovered RTP
  packet that ends its NAL unit (SPS, PPS, SEI, a last FU-A packet), is followed by zeros that
  were never sent. The repository's README says that a whole RTP packet is restored, which
  is so up to these zeros; H.264 permits zeros behind a NAL unit (`trailing_zero_8bits`).
* `accept` that fails for another reason than a closed descriptor or a signal (too many open
  files) ends `accept_loop` for good, in `tcp_server.h:97` and `http_server.h:56`: the server
  runs on and takes no more clients.
* Two threads write to descriptor numbers they read before. When a number is reused in
  between, statistics of one client can enter another's stream (`FramesWhole` excludes
  `reused`; without that TLC finds it).
* Where `close` does not wake a blocked `accept`, `recv` or `send`, as on Linux, `stop` of the
  TCP server and the shutdown of the server program can wait for ever; the comment at
  `tcp_server.h:51` assumes that it does. Clients that left stay in `clients_` until `stop`.
* `main` joins the previewer before `ws.stop()` closes the clients' sockets. While a browser
  does not read, a broadcast waits in `send` for it, and so does the shutdown
  (`ShutdownEnds` excludes `Stuck`; without that TLC finds the hang). For the same reason one
  stalled browser stops the preview of all.
* A client adopted between the snapshot of `WsServer::stop` and its `clients_.clear()` is
  destroyed with a joinable thread, which ends the process (`NoAbort` excludes `torn`;
  without that TLC finds it).
* `adopt` sets `running_` again after `stop`. The second stop, from `~WsServer`, joins what
  the first one did not see, which is what makes `NoThreadLeft` true.
* HTTP handlers are detached (`http_server.h:59`) and refer to the server and the previewer:
  they outlive them when `main` returns.
* Once `tap_q` is closed `pop_for` returns at once, and `preview_loop` spins until the
  previewer is stopped. `on_message_` is set after the HTTP server has started
  (`server_main.cpp:146`), without a lock.
* The client program has no signal handler, so in headless mode `stop_flag` is set only when
  the decoder fails to open: after the TCP server has gone, `out` is never closed and the
  client waits for ever, its summary (`client_main.cpp:219`) unreached. When the window or
  GL fails to open, `main` returns with `decode_thread` joinable, which ends the process.

## Not modelled

* The jitter estimate's arithmetic, the contents of NAL units and how they are cut into
  packets, frame formats of WebSocket and HTTP, statistics, logging, the latency ring:
  computations on bytes and numbers that no step of a protocol depends on.
* The UDP modules leave out delay in the simulator (`LossSimulator` has it), ping and RTT,
  whose effect is `SetRtt` of `JitterBuffer`, and the output thread, which is in
  `ClientProgram`; frame numbers do not wrap.
* A server that restarts: nothing is persisted, and its numbers start over, which the
  jitter buffer refuses as it does after 65535 (`JB_wrap`).
* `thread_pool.h`, which nothing uses; capture, encoding, decoding, rendering and the pages
  in the browser: devices and libraries.
* Data races beyond the lookup in `fec_`: a read that crashes, a torn value; and `close_fd`
  (`net_utils.h:85`), which tests, closes and overwrites a descriptor without a lock and is a
  single step here. Two threads that close one client's descriptor at once may close its
  number twice, the second time when it is another connection's.

## Plan

1. An abstract specification of what both datagram links promise a client, that
   `UdpLink` implements, and `RtpAssembly` as far as the code does.
2. Ping, pong to every client and the RTT into the jitter buffer; the composition of
   `UdpReceiver` with `JitterBuffer` through `InOrderStream`.

## Running

    tlc -config TSQ.cfg ThreadSafeQueue.tla
    tlc -config JB_order.cfg JitterBuffer.tla        # likewise JB_wrap
    tlc -config UDP_prompt.cfg MCUdpLink.tla         # likewise UDP_lossy, UDP_storm
    tlc -config SIM_delay.cfg LossSimulator.tla      # likewise SIM_stop
    tlc -config RTP.cfg MCRtpAssembly.tla
    tlc -config TCP.cfg TcpServer.tla
    tlc -config SRV.cfg ServerProgram.tla
    tlc -config CLIENT.cfg ClientProgram.tla
    tlapm ThreadSafeQueue_proofs.tla
    tlapm JitterBuffer_proofs.tla                    # likewise the other *_proofs
