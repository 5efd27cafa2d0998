------------------------------- MODULE AvbTx -------------------------------
(***************************************************************************)
(* One transmit queue of the user mode driver and the program that drives  *)
(* it: the talker cuts one mapped buffer into packets, sends them for ever *)
(* (DWC_ETH_QOS_start_xmit), reclaims them (DWC_ETH_QOS_tx_buffer_cleanup),*)
(* and once interrupted drains the ring and releases the buffer.           *)
(*                                                                         *)
(* The process polls, there are no interrupts; the DMA runs beside it.     *)
(***************************************************************************)
EXTENDS Integers, Sequences, FiniteSets, SequencesExt

CONSTANTS
    TX_DESC_CNT,    \* descriptors in the ring (512 in the driver)
    EINVAL,         \* the errno tx_buffer_cleanup returns, a positive number (22)
    Pkts,           \* the packets the buffer is cut into
    NumSends        \* bound: packets sent

Slots == 0 .. TX_DESC_CNT - 1
Sends == 1 .. NumSends
NONE  == -1         \* next_eop of a slot that begins no packet

ASSUME AvbTxAssumption ==
    /\ TX_DESC_CNT \in Nat /\ TX_DESC_CNT > 1
    /\ EINVAL \in Nat \ {0}
    /\ NumSends \in Nat
    /\ IsFiniteSet(Pkts) /\ Pkts # {} /\ NONE \notin Pkts

VARIABLES
    pc,             \* the talker: "loop", "trigger", "clean", "reclaim", "ret", "free", "detach", "done"
    halt,           \* set by the signal handler
    draining,       \* the talker left its sending loop
    own,            \* OWN bit of each descriptor, shared with the DMA
    packet, eop,    \* wrapper buffers: the packet and next_eop of each slot
    cur_tx, dirty_tx, free_desc_cnt, tx_pkt_queued,
    call,           \* locals of tx_buffer_cleanup: first, list of cleaned packets
    ret,            \* what tx_buffer_cleanup returned last
    tx_free_packets,                \* list of packets the talker may send
    queued, transmitted,            \* counters of the talker
    dma,            \* the DMA channel: idx, run, tail, busy
    content,        \* which send a packet holds
    place           \* where each send is, see TxFifo

ring   == <<packet, eop, cur_tx, dirty_tx, free_desc_cnt, tx_pkt_queued>>
talker == <<draining, tx_free_packets, queued, transmitted>>
vars   == <<pc, halt, own, ring, call, ret, talker, dma, content, place>>

-----------------------------------------------------------------------------
Advance(i, k) == (i + k) % TX_DESC_CNT

\* setup_data_descriptor: the packet is put in the descriptor at cur_tx.
Setup ==
    LET p == Head(tx_free_packets) IN
    /\ own' = [own EXCEPT ![cur_tx] = TRUE]
    /\ packet' = [packet EXCEPT ![cur_tx] = p]
    /\ eop' = [eop EXCEPT ![cur_tx] = cur_tx]
    /\ cur_tx' = Advance(cur_tx, 1)
    /\ tx_free_packets' = Tail(tx_free_packets)
    /\ content' = [content EXCEPT ![p] = queued + 1]
    /\ place' = [place EXCEPT ![queued + 1] = "held"]

CanSend == pc = "loop" /\ ~halt /\ tx_free_packets # <<>>

\* Mutant: a full ring is not noticed.
XmitOverrun ==
    /\ CanSend /\ queued < NumSends
    /\ Setup
    /\ pc' = "trigger"
    /\ UNCHANGED <<halt, draining, dirty_tx, free_desc_cnt, tx_pkt_queued, call, ret,
                   queued, transmitted, dma>>

\* Two descriptors must be free, although a packet takes one.
Xmit ==
    /\ CanSend /\ queued < NumSends
    /\ free_desc_cnt >= 2
    /\ Setup
    /\ pc' = "trigger"
    /\ UNCHANGED <<halt, draining, dirty_tx, free_desc_cnt, tx_pkt_queued, call, ret,
                   queued, transmitted, dma>>

\* Mutant: the tail pointer names the packet's own descriptor.
TriggerShort ==
    /\ pc = "trigger"
    /\ free_desc_cnt' = free_desc_cnt - 1
    /\ tx_pkt_queued' = tx_pkt_queued + 1
    /\ dma' = [dma EXCEPT !.run = TRUE, !.tail = (cur_tx - 1) % TX_DESC_CNT]
    /\ queued' = queued + 1
    /\ pc' = "loop"
    /\ UNCHANGED <<halt, draining, own, packet, eop, cur_tx, dirty_tx, call, ret,
                   tx_free_packets, transmitted, content, place>>

\* The rest of start_xmit: the counters and the tail pointer.
Trigger ==
    /\ pc = "trigger"
    /\ free_desc_cnt' = free_desc_cnt - 1
    /\ tx_pkt_queued' = tx_pkt_queued + 1
    /\ dma' = [dma EXCEPT !.run = TRUE, !.tail = cur_tx]
    /\ queued' = queued + 1
    /\ pc' = "loop"
    /\ UNCHANGED <<halt, draining, own, packet, eop, cur_tx, dirty_tx, call, ret,
                   tx_free_packets, transmitted, content, place>>

\* No packet left, or ENOSPC: the packet goes back to the list, and cleanup.
XmitRefused ==
    /\ pc = "loop" /\ ~halt
    /\ tx_free_packets = <<>> \/ free_desc_cnt < 2
    /\ pc' = "clean"
    /\ UNCHANGED <<halt, own, ring, call, ret, talker, dma, content, place>>

LeaveLoop ==
    /\ pc = "loop" /\ halt
    /\ draining' = TRUE
    /\ pc' = IF transmitted <= queued THEN "clean" ELSE "free"
    /\ UNCHANGED <<halt, own, ring, call, ret, tx_free_packets, queued, transmitted,
                   dma, content, place>>

-----------------------------------------------------------------------------
(* DWC_ETH_QOS_tx_buffer_cleanup.                                          *)

\* -1 if nothing is queued.
CleanCall ==
    /\ pc = "clean"
    /\ call' = [first |-> dirty_tx, list |-> <<>>]
    /\ IF free_desc_cnt = TX_DESC_CNT
       THEN ret' = -1 /\ pc' = "ret"
       ELSE pc' = "reclaim" /\ UNCHANGED ret
    /\ UNCHANGED <<halt, own, ring, talker, dma, content, place>>

\* Mutant: the OWN bit is not looked at.
ReadyAlways == eop[call.first] # NONE /\ tx_pkt_queued > 0

Ready == eop[call.first] # NONE /\ ~own[eop[call.first]] /\ tx_pkt_queued > 0

\* Mutant: next_eop is left behind.
CleanPacketKeepsEop ==
    /\ pc = "reclaim" /\ Ready
    /\ call' = [first |-> Advance(call.first, 1), list |-> Append(call.list, packet[call.first])]
    /\ packet' = [packet EXCEPT ![call.first] = NONE]
    /\ free_desc_cnt' = free_desc_cnt + 1
    /\ tx_pkt_queued' = tx_pkt_queued - 1
    /\ place' = [place EXCEPT ![content[packet[call.first]]] = "freed"]
    /\ UNCHANGED <<pc, halt, own, eop, cur_tx, dirty_tx, ret, talker, dma, content>>

\* A packet fills one descriptor: the inner loop runs once.
CleanPacket ==
    /\ pc = "reclaim" /\ Ready
    /\ call' = [first |-> Advance(call.first, 1), list |-> Append(call.list, packet[call.first])]
    /\ packet' = [packet EXCEPT ![call.first] = NONE]
    /\ eop' = [eop EXCEPT ![call.first] = NONE]
    /\ free_desc_cnt' = free_desc_cnt + 1
    /\ tx_pkt_queued' = tx_pkt_queued - 1
    /\ place' = [place EXCEPT ![content[packet[call.first]]] = "freed"]
    /\ UNCHANGED <<pc, halt, own, cur_tx, dirty_tx, ret, talker, dma, content>>

CleanReturn ==
    /\ pc = "reclaim" /\ ~Ready
    /\ dirty_tx' = call.first
    /\ ret' = Len(call.list)
    /\ pc' = "ret"
    /\ UNCHANGED <<halt, own, packet, eop, cur_tx, free_desc_cnt, tx_pkt_queued, call,
                   talker, dma, content, place>>

\* The talker takes a count of EINVAL for the error.
Failed == ret = EINVAL \/ ret < 0

\* Mutant: the packets are not put back.
ReuseLeaks ==
    /\ pc = "ret" /\ ~draining
    /\ IF Failed
       THEN draining' = TRUE /\ UNCHANGED <<transmitted, tx_free_packets>>
       ELSE /\ transmitted' = transmitted + ret
            /\ UNCHANGED <<tx_free_packets, draining>>
    /\ pc' = IF ~Failed THEN "loop" ELSE IF transmitted <= queued THEN "clean" ELSE "free"
    /\ UNCHANGED <<halt, own, ring, call, ret, queued, dma, content, place>>

\* In the sending loop: the packets go back to the list, one by one.
Reuse ==
    /\ pc = "ret" /\ ~draining
    /\ IF Failed
       THEN draining' = TRUE /\ UNCHANGED <<transmitted, tx_free_packets>>
       ELSE /\ transmitted' = transmitted + ret
            /\ tx_free_packets' = Reverse(call.list) \o tx_free_packets
            /\ UNCHANGED draining
    /\ pc' = IF ~Failed THEN "loop" ELSE IF transmitted <= queued THEN "clean" ELSE "free"
    /\ UNCHANGED <<halt, own, ring, call, ret, queued, dma, content, place>>

\* Mutant: the loop ends with the first packets that come back.
DrainShort ==
    /\ pc = "ret" /\ draining
    /\ transmitted' = IF Failed THEN transmitted ELSE transmitted + ret
    /\ pc' = IF ~Failed /\ ret = 0 THEN "clean" ELSE "free"
    /\ UNCHANGED <<halt, draining, own, ring, call, ret, tx_free_packets, queued, dma,
                   content, place>>

\* After the loop: the packets are dropped, until nothing is queued.
Drain ==
    /\ pc = "ret" /\ draining
    /\ transmitted' = IF Failed THEN transmitted ELSE transmitted + ret
    /\ pc' = IF ~Failed /\ transmitted' <= queued THEN "clean" ELSE "free"
    /\ UNCHANGED <<halt, draining, own, ring, call, ret, tx_free_packets, queued, dma,
                   content, place>>

\* DWC_ETH_QOS_free_buffer unmaps the packets; detach does not stop the DMA.
FreeBuffer ==
    /\ pc = "free"
    /\ pc' = "detach"
    /\ UNCHANGED <<halt, own, ring, call, ret, talker, dma, content, place>>

Detach ==
    /\ pc = "detach"
    /\ pc' = "done"
    /\ UNCHANGED <<halt, own, ring, call, ret, talker, dma, content, place>>

\* sigint_handler.
Interrupt ==
    /\ ~halt
    /\ halt' = TRUE
    /\ UNCHANGED <<pc, own, ring, call, ret, talker, dma, content, place>>

-----------------------------------------------------------------------------
(* The transmit DMA channel: it suspends at the tail pointer and at a      *)
(* descriptor it does not own.                                             *)

Usable == own[dma.idx] /\ dma.idx # dma.tail

DmaSuspend ==
    /\ dma.run /\ ~dma.busy /\ ~Usable
    /\ dma' = [dma EXCEPT !.run = FALSE]
    /\ UNCHANGED <<pc, halt, own, ring, call, ret, talker, content, place>>

\* The frame is read from the packet's buffer.
DmaFetch ==
    /\ dma.run /\ ~dma.busy /\ Usable
    /\ dma' = [dma EXCEPT !.busy = TRUE]
    /\ place' = [place EXCEPT ![content[packet[dma.idx]]] = "sent"]
    /\ UNCHANGED <<pc, halt, own, ring, call, ret, talker, content>>

DmaWriteBack ==
    /\ dma.busy
    /\ own' = [own EXCEPT ![dma.idx] = FALSE]
    /\ dma' = [dma EXCEPT !.busy = FALSE, !.idx = Advance(@, 1)]
    /\ UNCHANGED <<pc, halt, ring, call, ret, talker, content, place>>

-----------------------------------------------------------------------------
\* wrapper_tx_descriptor_init_single_q, and the talker's list of packets.
Init ==
    /\ pc = "loop" /\ halt = FALSE /\ draining = FALSE
    /\ own = [s \in Slots |-> FALSE]
    /\ packet = [s \in Slots |-> NONE]
    /\ eop = [s \in Slots |-> NONE]
    /\ cur_tx = 0 /\ dirty_tx = 0
    /\ free_desc_cnt = TX_DESC_CNT /\ tx_pkt_queued = 0
    /\ call = [first |-> 0, list |-> <<>>]
    /\ ret = 0
    /\ tx_free_packets = SetToSeq(Pkts)
    /\ queued = 0 /\ transmitted = 0
    /\ dma = [idx |-> 0, run |-> FALSE, tail |-> 0, busy |-> FALSE]
    /\ content = [p \in Pkts |-> 0]
    /\ place = [n \in Sends |-> "stack"]

Cleanup == CleanCall \/ CleanPacket \/ CleanReturn
Talker  == Xmit \/ Trigger \/ XmitRefused \/ LeaveLoop \/ Cleanup \/ Reuse \/ Drain
               \/ FreeBuffer \/ Detach
Dma     == DmaSuspend \/ DmaFetch \/ DmaWriteBack

Next == Talker \/ Interrupt \/ Dma

Spec == Init /\ [][Next]_vars

\* The process is scheduled, the channel works.
Fairness == WF_vars(Talker) /\ WF_vars(Dma)

FairSpec == Spec /\ Fairness

-----------------------------------------------------------------------------
\* Every variable keeps its type.
TypeOK ==
    /\ pc \in {"loop", "trigger", "clean", "reclaim", "ret", "free", "detach", "done"}
    /\ halt \in BOOLEAN /\ draining \in BOOLEAN
    /\ own \in [Slots -> BOOLEAN]
    /\ packet \in [Slots -> Pkts \cup {NONE}]
    /\ eop \in [Slots -> Slots \cup {NONE}]
    /\ cur_tx \in Slots /\ dirty_tx \in Slots
    /\ free_desc_cnt \in 1 .. TX_DESC_CNT /\ tx_pkt_queued \in 0 .. TX_DESC_CNT - 1
    /\ call \in [first : Slots, list : Seq(Pkts)]
    /\ ret \in {-1} \cup 0 .. TX_DESC_CNT
    /\ tx_free_packets \in Seq(Pkts)
    /\ queued \in 0 .. NumSends /\ transmitted \in 0 .. NumSends
    /\ dma \in [idx : Slots, run : BOOLEAN, tail : Slots, busy : BOOLEAN]
    /\ content \in [Pkts -> 0 .. NumSends]
    /\ place \in [Sends -> {"stack", "held", "sent", "freed"}]

First == IF pc = "reclaim" THEN call.first ELSE dirty_tx

\* Packets in the ring: setup_data_descriptor is one ahead of the counter.
InRing == IF pc = "trigger" THEN tx_pkt_queued + 1 ELSE tx_pkt_queued

\* The counters, the indices and next_eop tell the same story: the packets that
\* are queued are those from dirty_tx to cur_tx, each in its own descriptor.
WindowKept ==
    LET window == {Advance(First, k) : k \in 0 .. InRing - 1} IN
    /\ free_desc_cnt + tx_pkt_queued = TX_DESC_CNT
    /\ cur_tx = Advance(First, InRing)
    /\ \A s \in Slots : /\ (s \in window) = (packet[s] # NONE)
                        /\ eop[s] = IF s \in window THEN s ELSE NONE
                        /\ own[s] => s \in window

Held(p) ==
    \/ p \in ToSet(tx_free_packets)
    \/ pc \in {"reclaim", "ret"} /\ p \in ToSet(call.list)

\* A packet the talker may write to is in no descriptor, and as long as the
\* sending loop runs no packet is lost: the talker never starves itself.
PoolConserved ==
    /\ \A s \in Slots : packet[s] # NONE => ~Held(packet[s])
    /\ ~draining => \A p \in Pkts : Held(p) \/ \E s \in Slots : packet[s] = p

\* The counters, the ring and the pool of packets agree, in the middle of
\* start_xmit and of tx_buffer_cleanup too.
RingKept == TypeOK /\ WindowKept /\ PoolConserved

Released == pc \in {"detach", "done"}

\* simple_talker.c:310 "wait untill all the queued packets are transmitted by
\* device": when the buffer is released no descriptor points into it, unless the
\* last clean up reclaimed just as many packets as EINVAL.
BufferIdle == Released /\ ret # EINVAL => \A s \in Slots : ~own[s]

\* The same without the exception.
BufferIdleAlways == Released => \A s \in Slots : ~own[s]

\* The talker ends once it is interrupted: the drain loop terminates.
Stops == halt ~> pc = "done"

\* The queue seen from the talker: sends leave in order, once, and a packet's
\* buffer comes back after it was sent.
Fifo == INSTANCE TxFifo WITH Packets <- Sends

\* The ring and its clean up implement the queue of TxFifo.
ImplementsFifo == Fifo!Spec
=============================================================================
