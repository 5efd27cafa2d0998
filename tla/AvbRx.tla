------------------------------- MODULE AvbRx -------------------------------
(***************************************************************************)
(* One receive queue of the user mode driver: a process reads the ring     *)
(* itself (DWC_ETH_QOS_read, DWC_ETH_QOS_read_done) and sleeps in the      *)
(* kernel driver, on a semaphore that the interrupt service routine        *)
(* releases.                                                               *)
(*                                                                         *)
(* The process, the service routine and the DMA run side by side.  As in   *)
(* the examples the process calls read and read_done in turn, whatever     *)
(* read returned, and is done with the packets before read_done.           *)
(***************************************************************************)
EXTENDS Integers, Sequences, FiniteSets

CONSTANTS
    RX_DESC_CNT,    \* descriptors in the ring (512 in the driver)
    Quota,          \* packets one read may return (100 in the examples)
    Kinds,          \* the frames that may arrive, see KindType
    NumFrames,      \* bound: frames that arrive
    MaxBad,         \* bound: frames with an error among them
    MaxSignals      \* bound: signals that interrupt the sleeping process

\* descs: descriptors the frame fills; es: error summary.
KindType == [descs : Nat \ {0}, es : BOOLEAN]

\* A frame that fills more than one buffer is a giant packet for the MAC.
ASSUME AvbRxAssumption ==
    /\ RX_DESC_CNT \in Nat /\ RX_DESC_CNT > 1
    /\ Quota \in 1 .. RX_DESC_CNT - 1
    /\ NumFrames \in Nat /\ MaxBad \in Nat /\ MaxSignals \in Nat
    /\ Kinds \subseteq KindType
    /\ \A k \in Kinds : k.descs > 1 => k.es

Slots  == 0 .. RX_DESC_CNT - 1
Frames == 1 .. NumFrames

VARIABLES
    pc,             \* the process: "call", "wait", "failed", "loop", "app", "rearm"
    desc,           \* the descriptor ring, in memory shared with the DMA
    cur_rx, dirty_rx, skb_realloc_idx, pkt_present,
    read,           \* locals: the list of packets read returns, by slot; i; tail_idx
    isr,            \* the service routine: "idle", "clear", "mask", "up"
    ri, rie,        \* receive interrupt: reported in DMA_SR, enabled in DMA_IER
    rx_sem,         \* count of the semaphore
    dma,            \* the DMA channel
    mem,            \* the frame in each buffer, 0 if none
    frames,         \* the frames that arrived
    fate,           \* where each frame is
    signals         \* signals so far

ring == <<cur_rx, dirty_rx, skb_realloc_idx, pkt_present>>
irq  == <<isr, ri, rie, rx_sem>>
wire == <<frames, fate, mem>>
vars == <<pc, desc, ring, read, irq, dma, wire, signals>>

-----------------------------------------------------------------------------
Advance(i, k) == (i + k) % RX_DESC_CNT

\* DWC_ETH_QOS_read sleeps only if the last read left nothing behind.
ReadCall ==
    /\ pc = "call"
    /\ IF pkt_present
       THEN pc' = "loop" /\ UNCHANGED rie
       ELSE pc' = "wait" /\ rie' = TRUE
    /\ read' = [list |-> <<>>, i |-> 0, tail |-> 0]
    /\ UNCHANGED <<desc, ring, isr, ri, rx_sem, dma, wire, signals>>

\* down_interruptible gets the semaphore.
ReadWoken ==
    /\ pc = "wait" /\ rx_sem > 0
    /\ pc' = "loop"
    /\ rx_sem' = rx_sem - 1
    /\ UNCHANGED <<desc, ring, read, isr, ri, rie, dma, wire, signals>>

\* down_interruptible returns -EINTR.
ReadSignal ==
    /\ pc = "wait" /\ signals < MaxSignals
    /\ pc' = "failed"
    /\ signals' = signals + 1
    /\ UNCHANGED <<desc, ring, read, irq, dma, wire>>

\* rx_getlock_failed: read returns NULL.
ReadFailed ==
    /\ pc = "failed"
    /\ pc' = "app"
    /\ rie' = FALSE
    /\ UNCHANGED <<desc, ring, read, isr, ri, rx_sem, dma, wire, signals>>

Available == pc = "loop" /\ Len(read.list) < Quota /\ ~desc[cur_rx].own

\* Mutant: the error summary is not looked at.
GoodIfLast == desc[cur_rx].ld

Good == ~desc[cur_rx].es /\ desc[cur_rx].ld

Consume ==
    /\ dirty_rx' = dirty_rx + 1
    /\ cur_rx' = Advance(cur_rx, 1)
    /\ UNCHANGED <<pc, skb_realloc_idx, pkt_present, irq, dma, frames, mem, signals>>

\* Mutant: the descriptor is armed at once, before the process used the packet.
ReadGoodRearms ==
    /\ Available /\ Good
    /\ read' = [read EXCEPT !.list = Append(@, cur_rx)]
    /\ fate' = [fate EXCEPT ![mem[cur_rx]] = "stack"]
    /\ desc' = [desc EXCEPT ![cur_rx].own = TRUE]
    /\ Consume

\* The packet is appended to the list; it lives in the buffer of its descriptor.
ReadGood ==
    /\ Available /\ Good
    /\ read' = [read EXCEPT !.list = Append(@, cur_rx)]
    /\ fate' = [fate EXCEPT ![mem[cur_rx]] = "stack"]
    /\ Consume
    /\ UNCHANGED desc

ReadBad ==
    /\ Available /\ ~Good
    /\ fate' = IF desc[cur_rx].ld THEN [fate EXCEPT ![mem[cur_rx]] = "lost"] ELSE fate
    /\ Consume
    /\ UNCHANGED <<desc, read>>

\* Mutant: pkt_present is never set.
ReadEndForgets ==
    /\ pc = "loop" /\ (Len(read.list) = Quota \/ desc[cur_rx].own)
    /\ pkt_present' = FALSE
    /\ pc' = "app"
    /\ UNCHANGED <<desc, cur_rx, dirty_rx, skb_realloc_idx, read, irq, dma, wire, signals>>

\* pkt_present is only brought up to date when the quota is used up.
ReadEnd ==
    /\ pc = "loop" /\ (Len(read.list) = Quota \/ desc[cur_rx].own)
    /\ pkt_present' = IF Len(read.list) = Quota THEN ~desc[cur_rx].own ELSE pkt_present
    /\ pc' = "app"
    /\ UNCHANGED <<desc, cur_rx, dirty_rx, skb_realloc_idx, read, irq, dma, wire, signals>>

-----------------------------------------------------------------------------
(* DWC_ETH_QOS_read_done.                                                  *)

ReadDone ==
    /\ pc = "app"
    /\ pc' = "rearm"
    /\ read' = [list |-> <<>>, i |-> 0, tail |-> 0]
    /\ UNCHANGED <<desc, ring, irq, dma, wire, signals>>

\* Mutant: skb_realloc_idx is not advanced.
RearmSame ==
    /\ pc = "rearm" /\ read.i < dirty_rx
    /\ desc' = [desc EXCEPT ![skb_realloc_idx].own = TRUE]
    /\ read' = [read EXCEPT !.i = @ + 1, !.tail = skb_realloc_idx]
    /\ UNCHANGED <<pc, ring, irq, dma, wire, signals>>

\* memset(desc, 0, sizeof(desc)) clears RDES0 and RDES1 only: LD and ES stay.
RearmOne ==
    /\ pc = "rearm" /\ read.i < dirty_rx
    /\ desc' = [desc EXCEPT ![skb_realloc_idx].own = TRUE]
    /\ read' = [read EXCEPT !.i = @ + 1, !.tail = skb_realloc_idx]
    /\ skb_realloc_idx' = Advance(skb_realloc_idx, 1)
    /\ UNCHANGED <<pc, cur_rx, dirty_rx, pkt_present, irq, dma, wire, signals>>

\* Mutant: dirty_rx is not reset.
RearmEndDirty ==
    /\ pc = "rearm" /\ read.i = dirty_rx
    /\ dma' = [dma EXCEPT !.run = TRUE, !.tail = read.tail]
    /\ pc' = "call"
    /\ UNCHANGED <<desc, ring, read, irq, wire, signals>>

\* The tail pointer is written in any case; tail_idx is 0 if nothing was armed.
RearmEnd ==
    /\ pc = "rearm" /\ read.i = dirty_rx
    /\ dirty_rx' = 0
    /\ dma' = [dma EXCEPT !.run = TRUE, !.tail = read.tail]
    /\ pc' = "call"
    /\ UNCHANGED <<desc, cur_rx, skb_realloc_idx, pkt_present, read, irq, wire, signals>>

-----------------------------------------------------------------------------
(* The service routine of the kernel driver, user space queues.            *)

IsrStart ==
    /\ isr = "idle" /\ ri /\ rie
    /\ isr' = "clear"
    /\ UNCHANGED <<pc, desc, ring, read, ri, rie, rx_sem, dma, wire, signals>>

IsrClear ==
    /\ isr = "clear"
    /\ ri' = FALSE
    /\ isr' = "mask"
    /\ UNCHANGED <<pc, desc, ring, read, rie, rx_sem, dma, wire, signals>>

IsrMask ==
    /\ isr = "mask"
    /\ rie' = FALSE
    /\ isr' = "up"
    /\ UNCHANGED <<pc, desc, ring, read, ri, rx_sem, dma, wire, signals>>

\* Mutant: the semaphore is not released.
IsrUpNot ==
    /\ isr = "up"
    /\ isr' = "idle"
    /\ UNCHANGED <<pc, desc, ring, read, ri, rie, rx_sem, dma, wire, signals>>

IsrUp ==
    /\ isr = "up"
    /\ rx_sem' = rx_sem + 1
    /\ isr' = "idle"
    /\ UNCHANGED <<pc, desc, ring, read, ri, rie, dma, wire, signals>>

-----------------------------------------------------------------------------
(* The MAC and the receive DMA channel.  The channel suspends at a         *)
(* descriptor it does not own and at the tail pointer: start_xmit of the   *)
(* same driver writes the first descriptor that is not the channel's.      *)

Arrives(k, where) ==
    /\ dma.left = 0 /\ Len(frames) < NumFrames
    /\ k.es => Cardinality({f \in DOMAIN frames : frames[f].es}) < MaxBad
    /\ frames' = Append(frames, k)
    /\ fate' = [fate EXCEPT ![Len(frames) + 1] = where]
    /\ UNCHANGED <<pc, desc, ring, read, irq, mem, signals>>

FrameEnters(k) ==
    /\ Arrives(k, "ring")
    /\ dma' = [dma EXCEPT !.left = k.descs]

FrameMissed(k) ==
    /\ ~dma.run
    /\ Arrives(k, "lost")
    /\ UNCHANGED dma

Usable == desc[dma.idx].own /\ dma.idx # dma.tail

DmaSuspend ==
    /\ dma.run /\ ~Usable
    /\ dma' = [dma EXCEPT !.run = FALSE]
    /\ UNCHANGED <<pc, desc, ring, read, irq, wire, signals>>

\* RI is reported with the last descriptor of a frame.
DmaData ==
    /\ dma.run /\ Usable /\ dma.left > 0
    /\ LET f == Len(frames)
           last == dma.left = 1
       IN  /\ desc' = [desc EXCEPT ![dma.idx] =
                          [own |-> FALSE, ld |-> last, es |-> last /\ frames[f].es]]
           /\ mem' = [mem EXCEPT ![dma.idx] = f]
           /\ ri' = (ri \/ last)
    /\ dma' = [dma EXCEPT !.idx = Advance(@, 1), !.left = @ - 1]
    /\ UNCHANGED <<pc, ring, read, isr, rie, rx_sem, frames, fate, signals>>

-----------------------------------------------------------------------------
\* wrapper_rx_descriptor_init_single_q, on a semaphore the probe initialised.
Init ==
    /\ pc = "call"
    /\ desc = [s \in Slots |-> [own |-> TRUE, ld |-> FALSE, es |-> FALSE]]
    /\ cur_rx = 0 /\ dirty_rx = 0 /\ skb_realloc_idx = 0 /\ pkt_present = FALSE
    /\ read = [list |-> <<>>, i |-> 0, tail |-> 0]
    /\ isr = "idle" /\ ri = FALSE /\ rie = FALSE /\ rx_sem = 0
    /\ dma = [idx |-> 0, run |-> TRUE, tail |-> RX_DESC_CNT - 1, left |-> 0]
    /\ mem = [s \in Slots |-> 0]
    /\ frames = <<>>
    /\ fate = [f \in Frames |-> "wire"]
    /\ signals = 0

Read  == ReadCall \/ ReadWoken \/ ReadFailed \/ ReadGood \/ ReadBad \/ ReadEnd
Rearm == ReadDone \/ RearmOne \/ RearmEnd
Isr   == IsrStart \/ IsrClear \/ IsrMask \/ IsrUp
Dma   == DmaSuspend \/ DmaData
Wire  == \E k \in Kinds : FrameEnters(k) \/ FrameMissed(k)

Next == Read \/ ReadSignal \/ Rearm \/ Isr \/ Dma \/ Wire

Spec == Init /\ [][Next]_vars

\* The process calls read again and again, a pending interrupt is served.
Fairness == WF_vars(Read) /\ WF_vars(Rearm) /\ WF_vars(Isr) /\ WF_vars(Dma)

FairSpec == Spec /\ Fairness

-----------------------------------------------------------------------------
ReadType == [list : Seq(Slots), i : Nat, tail : Slots]
DescType == [own : BOOLEAN, ld : BOOLEAN, es : BOOLEAN]
DmaType  == [idx : Slots, run : BOOLEAN, tail : Slots, left : Nat]

\* Every variable keeps its type; one read never consumes more than the ring.
TypeOK ==
    /\ pc \in {"call", "wait", "failed", "loop", "app", "rearm"}
    /\ desc \in [Slots -> DescType]
    /\ cur_rx \in Slots /\ skb_realloc_idx \in Slots
    /\ dirty_rx \in 0 .. RX_DESC_CNT
    /\ pkt_present \in BOOLEAN
    /\ read \in ReadType
    /\ isr \in {"idle", "clear", "mask", "up"}
    /\ ri \in BOOLEAN /\ rie \in BOOLEAN /\ rx_sem \in Nat
    /\ dma \in DmaType
    /\ mem \in [Slots -> 0 .. NumFrames]
    /\ frames \in Seq(Kinds)
    /\ fate \in [Frames -> {"wire", "ring", "stack", "lost"}]
    /\ signals \in 0 .. MaxSignals

\* The descriptors between skb_realloc_idx and cur_rx are the process's, all
\* other consumed ones are armed again: read and read_done never lose count.
WindowKept ==
    LET behind == IF pc = "rearm" THEN dirty_rx - read.i ELSE dirty_rx IN
    /\ cur_rx = Advance(skb_realloc_idx, behind)
    /\ \A k \in 0 .. behind - 1 : ~desc[Advance(skb_realloc_idx, k)].own

\* The counters of read and read_done agree and stay in the ring.
RingKept == TypeOK /\ WindowKept

\* The list DWC_ETH_QOS_read returns: no packet is in it twice, which would make
\* it a circle, and each packet keeps its frame until read_done.
ListIntact ==
    /\ \A m, n \in DOMAIN read.list : read.list[m] = read.list[n] => m = n
    /\ \A n \in DOMAIN read.list :
          LET s == read.list[n] IN ~desc[s].own /\ fate[mem[s]] = "stack"

Completed(f) == fate[f] = "ring" /\ (f < Len(frames) \/ dma.left = 0)

\* A process that sleeps while a frame is complete will be woken: the interrupt
\* is pending and enabled, or the service routine or the semaphore has it.
WakeUpPending ==
    pc = "wait" /\ (\E f \in Frames : Completed(f)) =>
        rx_sem > 0 \/ isr # "idle" \/ (ri /\ rie)

\* umod drv.c:1666 "update the TAIL pointer": while the process sleeps and has
\* read every frame, the channel has a descriptor for the next one.
ChannelCanReceive == pc = "wait" /\ desc[cur_rx].own => dma.idx # dma.tail

\* A complete frame is read, signals and spurious wake-ups notwithstanding.
FramesRead == \A f \in Frames : Completed(f) ~> fate[f] # "ring"

-----------------------------------------------------------------------------
\* The queue seen from outside: packets are read once, in order of arrival.
Fifo == INSTANCE RxFifo WITH
    place <- fate,
    bad <- {f \in DOMAIN frames : fate[f] # "wire" /\ frames[f].es}

\* The ring and its reader implement the queue of RxFifo.
ImplementsFifo == Fifo!Spec
=============================================================================
