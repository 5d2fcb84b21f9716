----------------------------- MODULE UdpServer -----------------------------
(***************************************************************************)
(* transport/udp_server.h with transport/nack_manager.h: the encoder       *)
(* thread cuts a frame into packets and sends them one after the other,    *)
(* each remembered in the retransmission cache first; the receiving thread *)
(* registers the clients that ping and answers NACKs meanwhile.            *)
(***************************************************************************)
EXTENDS UdpWire, Sequences

CONSTANT CacheSize      \* cache_ of NackManager, in packets
ASSUME CacheAssumption == CacheSize \in Nat

VARIABLES clients,      \* clients_
          frame,        \* the frame send_frame is at, or comes next
          next_seq,     \* the next fragment of it to emit, FecSeq for parity
          sending,      \* send_frame is running
          items         \* items_ of NackManager, oldest first

serverVars == <<clients, frame, next_seq, sending, items>>

ServerType == /\ clients \subseteq Clients
              /\ frame \in 1..(NFrames + 1)
              /\ next_seq \in 0..FecSeq
              /\ sending \in BOOLEAN
              /\ items \in Seq(Packets)

ServerInit == /\ clients = {}
              /\ frame = 1
              /\ next_seq = 0
              /\ sending = FALSE
              /\ items = <<>>

-----------------------------------------------------------------------------
\* broadcast: nothing is sent while nobody is registered.
SkipFrame == /\ ~sending /\ frame \in Frames
             /\ clients = {}
             /\ frame' = frame + 1
             /\ UNCHANGED <<clients, next_seq, sending, items, wireVars>>

BroadcastFrame == /\ ~sending /\ frame \in Frames
                  /\ clients # {}
                  /\ sending' = TRUE
                  /\ next_seq' = 0
                  /\ UNCHANGED <<clients, frame, items, wireVars>>

\* NackManager::remember
RememberForgetsNewest(p) ==
    IF CacheSize = 0 THEN items
    ELSE IF Len(items) >= CacheSize THEN items ELSE Append(items, p)
Remember(p) ==
    IF CacheSize = 0 THEN items
    ELSE IF Len(items) >= CacheSize THEN Append(Tail(items), p) ELSE Append(items, p)

\* One call of the lambda emit of send_frame; after the last fragment comes the
\* parity packet.
Emit == /\ sending
        /\ items' = Remember(<<frame, next_seq>>)
        /\ Inject(clients, {<<frame, next_seq>>})
        /\ next_seq' = CASE next_seq = FecSeq -> 0
                         [] next_seq = Fragments[frame] - 1 -> FecSeq
                         [] OTHER -> next_seq + 1
        /\ sending' = (next_seq # FecSeq)
        /\ frame' = IF next_seq = FecSeq THEN frame + 1 ELSE frame
        /\ UNCHANGED <<clients, nacks>>

-----------------------------------------------------------------------------
\* StatsPing from c: registers it.
HandlePing(c) == /\ c \notin clients
                 /\ clients' = clients \cup {c}
                 /\ UNCHANGED <<frame, next_seq, sending, items, wireVars>>

\* NackManager::find for every record of a NACK.
Cached == {items[i] : i \in 1..Len(items)}
Found(n) == ({n[1]} \X n[2]) \cap Cached

\* NackManager::on_nack: what is still cached goes out again, the same way as
\* the first time and to every client.
HandleNack(n) == /\ n \in nacks
                 /\ nacks' = nacks \ {n}
                 /\ Inject(clients, Found(n))
                 /\ UNCHANGED serverVars
=============================================================================
