------------------------------- MODULE RxRing -------------------------------
(***************************************************************************)
(* One receive queue of the kernel driver in the default mode (no jumbo    *)
(* frames, no header split): the descriptor ring shared by the poll        *)
(* routine clean_rx_irq, its refill re_alloc_skb and the receive DMA       *)
(* channel.                                                                *)
(*                                                                         *)
(* One poll at a time works on the queue (Napi is about when that is so).  *)
(* The DMA honours the OWN bit only, so its steps fall between any two     *)
(* descriptors the poll looks at or refills.  Receive time stamps come in  *)
(* a context descriptor of their own, written after the last data          *)
(* descriptor of the frame.                                                *)
(*                                                                         *)
(* A poll starts when the channel has reported something or when the last  *)
(* poll used up its budget, which is all the queue has: it is the only one *)
(* and no other source calls the service routine.  Napi has what happens   *)
(* to the interrupts of several queues and sources.                        *)
(***************************************************************************)
EXTENDS Integers, Sequences

CONSTANTS
    RX_DESC_CNT,        \* descriptors in the ring (512 in the driver)
    MIN_RX_DESC_CNT,    \* consumed descriptors that force a refill (16)
    Quota,              \* the share of the NAPI budget of this queue
    Kinds,              \* the frames that may arrive, see KindType
    StampIrq,           \* whether the channel reports a time stamp it wrote
    NumFrames,          \* bound: frames that arrive
    MaxLost             \* bound: descriptors failed refills leave behind

\* descs: data descriptors the frame fills; es: error summary; stamp: whether
\* the MAC took a time stamp and whether it is readable.
KindType == [descs : Nat \ {0}, es : BOOLEAN, stamp : {"none", "good", "corrupt"}]

\* A frame longer than one receive buffer is a giant packet for the MAC, which
\* sets the error summary.
ASSUME RxAssumption ==
    /\ RX_DESC_CNT \in Nat /\ RX_DESC_CNT > 1
    /\ MIN_RX_DESC_CNT \in Nat \ {0}
    /\ Quota \in Nat \ {0}
    /\ StampIrq \in BOOLEAN
    /\ NumFrames \in Nat /\ MaxLost \in Nat
    /\ Kinds \subseteq KindType
    /\ \A k \in Kinds : k.descs > 1 => k.es

Slots  == 0 .. RX_DESC_CNT - 1
Frames == 1 .. NumFrames

VARIABLES
    pc,             \* where the poll is: "idle", "loop", "stamp", "refill", "oops"
    poll,           \* its locals
    due,            \* an interrupt or a budget used up will have it called
    desc,           \* the descriptor ring, in memory shared with the DMA
    buf,            \* rx_buf_ptrs: the skb of each descriptor, 0 if none
    cur_rx, dirty_rx, skb_realloc_idx,
    hwts_rx_en,
    dma,            \* the DMA channel
    mem,            \* what each skb allocated so far contains: a frame, or 0
    frames,         \* the frames that arrived
    fate,           \* where each frame is
    delivered,      \* what DWC_ETH_QOS_receive_skb gave the stack
    lost            \* history: descriptors failed refills have left behind

ring == <<cur_rx, dirty_rx, skb_realloc_idx>>
vars == <<pc, poll, due, desc, buf, ring, hwts_rx_en, dma, mem, frames, fate, delivered, lost>>

-----------------------------------------------------------------------------
Advance(i, k) == IF i + k >= RX_DESC_CNT THEN i + k - RX_DESC_CNT ELSE i + k

Retreat(i) == IF i = 0 THEN RX_DESC_CNT - 1 ELSE i - 1

Dist(from, i) == IF i >= from THEN i - from ELSE i - from + RX_DESC_CNT

\* An armed descriptor.  Bit 30 of RDES3 is INTE while the DMA owns it and CTXT
\* once the DMA has written it back: rx_descriptor_reset leaves it set.  RDES0
\* and RDES1 hold a buffer address then, not a frame's status: of is -1.
Armed(skb) == [own |-> TRUE, addr |-> skb, ctxt |-> TRUE, ld |-> FALSE,
               es |-> FALSE, tsa |-> FALSE, corrupt |-> FALSE, of |-> -1]

\* Mutant: OWN is set again, the address is not written.
RearmedOwnOnly(i, skb) == [desc[i] EXCEPT !.own = TRUE, !.ctxt = TRUE]

\* rx_descriptor_reset on descriptor i.
Rearmed(i, skb) == Armed(skb)

-----------------------------------------------------------------------------
(* clean_rx_irq.                                                           *)

\* The service routine clears what the channel reports and schedules the poll.
PollStart ==
    /\ pc = "idle" /\ pc' = "loop"
    /\ due /\ due' = FALSE
    /\ poll' = [poll EXCEPT !.received = 0]
    /\ UNCHANGED <<desc, buf, ring, hwts_rx_en, dma, mem, frames, fate, delivered, lost>>

\* A turn of the loop that finds a descriptor the DMA is done with.
Available == pc = "loop" /\ poll.received < Quota /\ ~desc[cur_rx].own

\* Mutant: the error summary is not looked at.
GoodIfLast == desc[cur_rx].ld

Good == ~desc[cur_rx].es /\ desc[cur_rx].ld

WantsStamp == hwts_rx_en /\ desc[cur_rx].tsa

\* Mutant: the refill waits for one descriptor more.
NextDescriptorLate(received) ==
    /\ dirty_rx' = dirty_rx + 1
    /\ IF dirty_rx + 1 > MIN_RX_DESC_CNT
       THEN /\ pc' = "refill"
            /\ poll' = [poll EXCEPT !.received = received, !.i = 0, !.then = "loop"]
            /\ UNCHANGED cur_rx
       ELSE /\ pc' = "loop"
            /\ poll' = [poll EXCEPT !.received = received]
            /\ cur_rx' = Advance(cur_rx, 1)

\* dirty_rx++, a refill if that makes enough of them, then cur_rx++.
NextDescriptor(received) ==
    /\ dirty_rx' = dirty_rx + 1
    /\ IF dirty_rx + 1 >= MIN_RX_DESC_CNT
       THEN /\ pc' = "refill"
            /\ poll' = [poll EXCEPT !.received = received, !.i = 0, !.then = "loop"]
            /\ UNCHANGED cur_rx
       ELSE /\ pc' = "loop"
            /\ poll' = [poll EXCEPT !.received = received]
            /\ cur_rx' = Advance(cur_rx, 1)

\* DWC_ETH_QOS_receive_skb.
ReceiveSkb(f, skb, stamp) ==
    /\ delivered' = Append(delivered, [of |-> f, skb |-> skb, stamp |-> stamp])
    /\ fate' = [fate EXCEPT ![f] = "stack"]

\* Mutant: buffer->skb keeps pointing to the skb that was given away.
RxGoodKeepsSkb ==
    /\ Available /\ Good /\ ~WantsStamp
    /\ ReceiveSkb(desc[cur_rx].of, buf[cur_rx], 0)
    /\ NextDescriptor(poll.received + 1)
    /\ UNCHANGED <<due, buf, desc, skb_realloc_idx, hwts_rx_en, dma, mem, frames, lost>>

RxGood ==
    /\ Available /\ Good /\ ~WantsStamp
    /\ ReceiveSkb(desc[cur_rx].of, buf[cur_rx], 0)
    /\ buf' = [buf EXCEPT ![cur_rx] = 0]
    /\ NextDescriptor(poll.received + 1)
    /\ UNCHANGED <<due, desc, skb_realloc_idx, hwts_rx_en, dma, mem, frames, lost>>

\* A bad frame, a part of an oversized one, or a context descriptor nobody
\* expects: the skb stays with the descriptor.
RxBad ==
    /\ Available /\ ~Good
    /\ fate' = IF desc[cur_rx].ld THEN [fate EXCEPT ![desc[cur_rx].of] = "lost"] ELSE fate
    /\ NextDescriptor(poll.received)
    /\ UNCHANGED <<due, desc, buf, skb_realloc_idx, hwts_rx_en, dma, mem, frames, delivered, lost>>

\* A good frame whose descriptor says a time stamp follows: get_rx_hwtstamp is called.
TakeStamped ==
    /\ Available /\ Good /\ WantsStamp
    /\ poll' = [poll EXCEPT !.skb = buf[cur_rx], !.of = desc[cur_rx].of]
    /\ buf' = [buf EXCEPT ![cur_rx] = 0]
    /\ UNCHANGED <<due, desc, skb_realloc_idx, hwts_rx_en, dma, mem, frames, fate, delivered, lost>>

\* get_rx_hwtstamp has print_rx_tstamp_info read through NULL.  Nothing uses what
\* it reads unless YDEBUG_PTP is set: a compiler may leave the load in or out.
\* Where it is in, the poll ends there and with it the softirq.
RxStampOops ==
    /\ TakeStamped
    /\ pc' = "oops"
    /\ UNCHANGED <<cur_rx, dirty_rx>>

\* Where it is out, get_rx_hwtstamp moves on to the descriptor that should hold
\* the time stamp.
RxWantStamp ==
    /\ TakeStamped
    /\ pc' = "stamp"
    /\ dirty_rx' = dirty_rx + 1
    /\ cur_rx' = Advance(cur_rx, 1)

\* Mutant: get_rx_tstamp_status tests CTXT and forgets OWN.
StampReadyCtxtOnly == desc[cur_rx].ctxt

StampReady == ~desc[cur_rx].own /\ desc[cur_rx].ctxt

\* One of the 20 looks finds the time stamp, or a corrupted one.
RxStamp ==
    /\ pc = "stamp" /\ StampReady
    /\ ReceiveSkb(poll.of, poll.skb, IF desc[cur_rx].corrupt THEN 0 ELSE desc[cur_rx].of)
    /\ NextDescriptor(poll.received + 1)
    /\ UNCHANGED <<due, desc, buf, skb_realloc_idx, hwts_rx_en, dma, mem, frames, lost>>

\* The code at rx_tstmp_failed, which the end of the loop falls into.
LoopEnds(dirty) ==
    /\ IF dirty > 0
       THEN pc' = "refill" /\ poll' = [poll EXCEPT !.i = 0, !.then = "idle"]
       ELSE pc' = "idle" /\ UNCHANGED poll

\* Mutant: cur_rx is not taken back.
RxStampLateStays ==
    /\ pc = "stamp" /\ ~StampReady
    /\ buf' = [buf EXCEPT ![Retreat(cur_rx)] = poll.skb]
    /\ UNCHANGED cur_rx
    /\ dirty_rx' = dirty_rx - 1
    /\ LoopEnds(dirty_rx - 1)
    /\ UNCHANGED <<due, desc, skb_realloc_idx, hwts_rx_en, dma, mem, frames, fate, delivered, lost>>

\* Mutant: the skb of the late frame is not put back.
RxStampLateDrops ==
    /\ pc = "stamp" /\ ~StampReady
    /\ cur_rx' = Retreat(cur_rx)
    /\ dirty_rx' = dirty_rx - 1
    /\ LoopEnds(dirty_rx - 1)
    /\ UNCHANGED <<due, desc, buf, skb_realloc_idx, hwts_rx_en, dma, mem, frames, fate, delivered, lost>>

\* 20 looks were too early: the frame goes back and the poll ends.
RxStampLate ==
    /\ pc = "stamp" /\ ~StampReady
    /\ buf' = [buf EXCEPT ![Retreat(cur_rx)] = poll.skb]
    /\ cur_rx' = Retreat(cur_rx)
    /\ dirty_rx' = dirty_rx - 1
    /\ LoopEnds(dirty_rx - 1)
    /\ UNCHANGED <<due, desc, skb_realloc_idx, hwts_rx_en, dma, mem, frames, fate, delivered, lost>>

\* A poll that used up its budget does not napi_complete: it is called again.
RxEnd ==
    /\ pc = "loop" /\ (poll.received >= Quota \/ desc[cur_rx].own)
    /\ LoopEnds(dirty_rx)
    /\ due' = (due \/ poll.received >= Quota)
    /\ UNCHANGED <<desc, buf, ring, hwts_rx_en, dma, mem, frames, fate, delivered, lost>>

-----------------------------------------------------------------------------
(* re_alloc_skb: alloc_rx_buf and rx_desc_reset for dirty_rx descriptors.  *)

\* A descriptor that has lost its skb gets a new one, the others keep theirs.
RefillOne ==
    /\ pc = "refill" /\ poll.i < dirty_rx
    /\ LET new == buf[skb_realloc_idx] = 0
           skb == IF new THEN Len(mem) + 1 ELSE buf[skb_realloc_idx]
       IN  /\ mem' = IF new THEN Append(mem, 0) ELSE mem
           /\ buf' = [buf EXCEPT ![skb_realloc_idx] = skb]
           /\ desc' = [desc EXCEPT ![skb_realloc_idx] = Rearmed(skb_realloc_idx, skb)]
    /\ skb_realloc_idx' = Advance(skb_realloc_idx, 1)
    /\ poll' = [poll EXCEPT !.i = @ + 1]
    /\ UNCHANGED <<pc, due, cur_rx, dirty_rx, hwts_rx_en, dma, frames, fate, delivered, lost>>

\* Mutant: the tail pointer is not written.
RefillDoneNoTail ==
    /\ dirty_rx' = 0
    /\ pc' = poll.then
    /\ cur_rx' = IF poll.then = "loop" THEN Advance(cur_rx, 1) ELSE cur_rx
    /\ UNCHANGED <<poll, due, desc, buf, skb_realloc_idx, hwts_rx_en, dma, mem, frames, fate, delivered>>

\* The tail pointer write wakes a suspended channel.
RefillDone ==
    /\ dma' = [dma EXCEPT !.run = TRUE, !.tail = Retreat(skb_realloc_idx)]
    /\ dirty_rx' = 0
    /\ pc' = poll.then
    /\ cur_rx' = IF poll.then = "loop" THEN Advance(cur_rx, 1) ELSE cur_rx
    /\ UNCHANGED <<poll, due, desc, buf, skb_realloc_idx, hwts_rx_en, mem, frames, fate, delivered>>

RefillEnd ==
    /\ pc = "refill" /\ poll.i = dirty_rx
    /\ RefillDone
    /\ UNCHANGED lost

\* dev_alloc_skb fails: the loop breaks, and the descriptors that were not
\* refilled are forgotten all the same.
RefillFails ==
    /\ pc = "refill" /\ poll.i < dirty_rx
    /\ buf[skb_realloc_idx] = 0
    /\ lost' = lost + dirty_rx - poll.i
    /\ lost' <= MaxLost
    /\ RefillDone

\* The hardware time stamp ioctl switches receive time stamps on and off.
HwtstampIoctl ==
    /\ pc # "oops"
    /\ hwts_rx_en' = ~hwts_rx_en
    /\ UNCHANGED <<pc, poll, due, desc, buf, ring, dma, mem, frames, fate, delivered, lost>>

-----------------------------------------------------------------------------
(* The MAC and the receive DMA channel, as the driver programs them.       *)

\* The channel has written all of the last frame.
Between == dma.left = 0 /\ ~dma.owes

Arrives(k, where) ==
    /\ Between /\ Len(frames) < NumFrames
    /\ frames' = Append(frames, k)
    /\ fate' = [fate EXCEPT ![Len(frames) + 1] = where]
    /\ UNCHANGED <<pc, poll, due, desc, buf, ring, hwts_rx_en, mem, delivered, lost>>

FrameEnters(k) ==
    /\ Arrives(k, "ring")
    /\ dma' = [dma EXCEPT !.left = k.descs]

\* With the channel suspended the receive FIFO may overflow.
FrameMissed(k) ==
    /\ ~dma.run
    /\ Arrives(k, "lost")
    /\ UNCHANGED dma

\* The channel suspends at a descriptor it does not own, and may at the tail; it
\* reports RBU.
DmaSuspend ==
    /\ due' = TRUE
    /\ dma.run /\ (~desc[dma.idx].own \/ dma.idx = dma.tail)
    /\ dma' = [dma EXCEPT !.run = FALSE]
    /\ UNCHANGED <<pc, poll, desc, buf, ring, hwts_rx_en, mem, frames, fate, delivered, lost>>

WriteBack(status) ==
    /\ dma.run /\ desc[dma.idx].own
    /\ desc' = [desc EXCEPT ![dma.idx] = status]
    /\ UNCHANGED <<pc, poll, buf, ring, hwts_rx_en, frames, fate, delivered, lost>>

\* The frame goes into the buffer, the status into the descriptor; RI with the last.
DmaData ==
    /\ dma.left > 0
    /\ LET f == Len(frames)
           k == frames[f]
           last == dma.left = 1
           stamped == last /\ k.stamp # "none"
           addr == desc[dma.idx].addr
       IN  /\ WriteBack([own |-> FALSE, addr |-> addr, ctxt |-> FALSE, ld |-> last,
                         es |-> last /\ k.es, tsa |-> stamped, corrupt |-> FALSE, of |-> f])
           /\ mem' = [mem EXCEPT ![addr] = f]
           /\ dma' = [dma EXCEPT !.idx = Advance(@, 1), !.left = @ - 1, !.owes = stamped]
           /\ due' = (due \/ last)

DmaStamp ==
    /\ dma.owes
    /\ WriteBack([own |-> FALSE, addr |-> desc[dma.idx].addr, ctxt |-> TRUE, ld |-> FALSE,
                  es |-> FALSE, tsa |-> FALSE,
                  corrupt |-> frames[Len(frames)].stamp = "corrupt", of |-> Len(frames)])
    /\ dma' = [dma EXCEPT !.idx = Advance(@, 1), !.owes = FALSE]
    /\ due' = (due \/ StampIrq)
    /\ UNCHANGED mem

-----------------------------------------------------------------------------
\* wrapper_rx_descriptor_init and rx_descriptor_init, with every skb allocated.
Init ==
    /\ pc = "idle"
    /\ poll = [received |-> 0, i |-> 0, then |-> "idle", skb |-> 0, of |-> 0]
    /\ due = FALSE
    /\ buf = [i \in Slots |-> i + 1]
    /\ desc = [i \in Slots |-> Armed(i + 1)]
    /\ mem = [s \in 1 .. RX_DESC_CNT |-> 0]
    /\ cur_rx = 0 /\ dirty_rx = 0 /\ skb_realloc_idx = 0
    /\ hwts_rx_en = FALSE
    /\ dma = [idx |-> 0, run |-> TRUE, tail |-> RX_DESC_CNT - 1, left |-> 0, owes |-> FALSE]
    /\ frames = <<>> /\ delivered = <<>>
    /\ fate = [f \in Frames |-> "wire"]
    /\ lost = 0

Rx == RxGood \/ RxBad \/ RxStampOops \/ RxWantStamp \/ RxStamp \/ RxStampLate \/ RxEnd
Refill == RefillOne \/ RefillEnd \/ RefillFails
Dma == DmaSuspend \/ DmaData \/ DmaStamp
Wire == \E k \in Kinds : FrameEnters(k) \/ FrameMissed(k)

Next == PollStart \/ Rx \/ Refill \/ HwtstampIoctl \/ Wire \/ Dma

Spec == Init /\ [][Next]_vars

\* A poll that is due is called, it runs to its end, and a running channel with a
\* frame to write writes it.
Fairness == WF_vars(PollStart) /\ WF_vars(Rx) /\ WF_vars(Refill) /\ WF_vars(Dma)

FairSpec == Spec /\ Fairness

-----------------------------------------------------------------------------
(* Type invariant and safety properties.                                   *)

PollType == [received : Nat, i : Nat, then : {"idle", "loop"}, skb : Nat, of : Int]
DescType == [own : BOOLEAN, addr : Nat, ctxt : BOOLEAN, ld : BOOLEAN, es : BOOLEAN,
             tsa : BOOLEAN, corrupt : BOOLEAN, of : Int]
DmaType  == [idx : Slots, run : BOOLEAN, tail : Slots, left : Nat, owes : BOOLEAN]

RingTypes ==
    /\ pc \in {"idle", "loop", "stamp", "refill", "oops"}
    /\ poll \in PollType
    /\ desc \in [Slots -> DescType]
    /\ buf \in [Slots -> Nat]
    /\ cur_rx \in Slots /\ skb_realloc_idx \in Slots
    /\ dirty_rx \in 0 .. MIN_RX_DESC_CNT + 1
    /\ hwts_rx_en \in BOOLEAN
    /\ dma \in DmaType
    /\ mem \in Seq(Nat)
    /\ frames \in Seq(Kinds)
    /\ fate \in [Frames -> {"wire", "ring", "stack", "lost"}]
    /\ delivered \in Seq([of : Int, skb : Nat, stamp : Int])
    /\ lost \in 0 .. MaxLost

\* Every variable keeps its type, indices stay in the ring, and dirty_rx never
\* passes the refill threshold by more than the context descriptor.
TypeOK == RingTypes /\ due \in BOOLEAN

\* Descriptors the poll has passed and nobody has armed again; an oops keeps the
\* poll from counting the last one.
Behind ==
    lost + (IF pc = "refill" THEN dirty_rx - poll.i
            ELSE IF pc = "oops" THEN dirty_rx + 1 ELSE dirty_rx)

\* Where the poll takes its next descriptor once a refill in progress is done.
Front ==
    IF pc = "oops" \/ (pc = "refill" /\ poll.then = "loop") THEN Advance(cur_rx, 1) ELSE cur_rx

\* The refill index, dirty_rx and cur_rx, moved in three different places and
\* taken back when a time stamp is late, always tell the same story.
WindowKept == Behind <= RX_DESC_CNT /\ Front = Advance(skb_realloc_idx, Behind)

\* The counters clean_rx_irq and re_alloc_skb keep separately agree.
RingKept == TypeOK /\ WindowKept

\* The DMA writes only into the skb of the very descriptor it owns, never into
\* one that was given to the stack or taken for a time stamp.
OwnedBuffer == \A i \in Slots : desc[i].own => buf[i] # 0 /\ desc[i].addr = buf[i]

\* No skb is in two places of the ring, and none that the stack has is in it.
SkbsApart ==
    /\ \A i, j \in Slots : buf[i] # 0 /\ buf[i] = buf[j] => i = j
    /\ \A n \in DOMAIN delivered, i \in Slots : delivered[n].skb # buf[i]

\* What the stack got stays what arrived: the skb of each frame holds that
\* frame, whatever the DMA writes afterwards.
StackIntact == \A n \in DOMAIN delivered : mem[delivered[n].skb] = delivered[n].of

\* Descriptor, buffer table, DMA and stack agree about who has which skb.
SkbsSafe == OwnedBuffer /\ SkbsApart /\ StackIntact

\* A frame never carries the time stamp of another, although the poll looks for
\* it in a descriptor the DMA may not have written yet.
StampRight == \A n \in DOMAIN delivered : delivered[n].stamp \in {0, delivered[n].of}

\* drv.c:3306 "check for data availability": a descriptor that is taken as data
\* has an skb for the stack.
TakenHasSkb == Available => buf[cur_rx] # 0

\* A frame that is in the ring is handed on, late time stamps, refills that
\* failed, a suspended channel and polls that come only when one is due
\* notwithstanding; unless the poll dies of an oops.
FramesHandedOn == \A f \in Frames : fate[f] = "ring" ~> fate[f] # "ring" \/ pc = "oops"

\* drv.c:2116 "This function will read received packet's timestamp from the
\* descriptor and pass it to stack": a poll that looks for a time stamp goes on.
StampPassedOn == pc # "oops"

-----------------------------------------------------------------------------
\* The queue seen from outside: frames reach the stack once, in order of arrival.
Fifo == INSTANCE RxFifo WITH
    place <- fate,
    bad <- {f \in DOMAIN frames : fate[f] # "wire" /\ frames[f].es}

\* The ring implements the queue of RxFifo.
ImplementsFifo == Fifo!Spec

=============================================================================
