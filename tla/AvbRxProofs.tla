---------------------------- MODULE AvbRxProofs ----------------------------
(***************************************************************************)
(* For every ring size, quota and sequence of frames: the reader and the   *)
(* channel agree about the ring, the packets a read returns are intact     *)
(* until read_done, a sleeping reader will be woken, and the queue         *)
(* implements the abstract queue of RxFifo.                                *)
(*                                                                         *)
(* All of it provided that no single read meets more bad descriptors than  *)
(* the ring has beside the quota (FewBad): a read that goes all the way    *)
(* round the ring takes its own leavings for new packets.                  *)
(* Without bad frames nothing has to be assumed (GoodFramesOnly).          *)
(***************************************************************************)
EXTENDS AvbRx, FiniteSetTheorems, TLAPS

\* dirty_rx counts the descriptors of this read, the list its packets.
FewBad == pc = "loop" => dirty_rx - Len(read.list) <= RX_DESC_CNT - Quota

-----------------------------------------------------------------------------
(* Ring arithmetic.                                                        *)

\* Steps from slot i forward to slot j.
Dist(i, j) == IF j >= i THEN j - i ELSE j - i + RX_DESC_CNT

LEMMA AdvanceSmall ==
    ASSUME NEW i \in Slots, NEW k \in 0 .. RX_DESC_CNT
    PROVE  /\ Advance(i, k) = IF i + k < RX_DESC_CNT THEN i + k ELSE i + k - RX_DESC_CNT
           /\ Advance(i, k) \in Slots
BY AvbRxAssumption DEF Advance, Slots

LEMMA DistType ==
    ASSUME NEW i \in Slots, NEW j \in Slots
    PROVE  Dist(i, j) \in 0 .. RX_DESC_CNT - 1 /\ Dist(i, i) = 0
BY AvbRxAssumption DEF Dist, Slots

LEMMA DistInjective ==
    ASSUME NEW i \in Slots, NEW j \in Slots, NEW k \in Slots, Dist(i, j) = Dist(i, k)
    PROVE  j = k
BY AvbRxAssumption DEF Dist, Slots

\* The slot k steps away is k steps away.
LEMMA DistAdvance ==
    ASSUME NEW i \in Slots, NEW k \in 0 .. RX_DESC_CNT - 1
    PROVE  Dist(i, Advance(i, k)) = k
<1>1. Advance(i, k) = IF i + k < RX_DESC_CNT THEN i + k ELSE i + k - RX_DESC_CNT
  BY AdvanceSmall, AvbRxAssumption
<1> QED
  BY <1>1, AvbRxAssumption DEF Dist, Slots

LEMMA AdvanceNext ==
    ASSUME NEW i \in Slots, NEW k \in 0 .. RX_DESC_CNT - 1
    PROVE  Advance(Advance(i, k), 1) = Advance(i, k + 1)
<1>1. /\ Advance(i, k) = IF i + k < RX_DESC_CNT THEN i + k ELSE i + k - RX_DESC_CNT
      /\ Advance(i, k) \in Slots
  BY AdvanceSmall, AvbRxAssumption
<1>2. Advance(i, k + 1) = IF i + (k + 1) < RX_DESC_CNT THEN i + (k + 1) ELSE i + (k + 1) - RX_DESC_CNT
  BY AdvanceSmall, AvbRxAssumption
<1>3. Advance(Advance(i, k), 1) = IF Advance(i, k) + 1 < RX_DESC_CNT THEN Advance(i, k) + 1
                                  ELSE Advance(i, k) + 1 - RX_DESC_CNT
  BY <1>1, AdvanceSmall, AvbRxAssumption
<1> QED
  BY <1>1, <1>2, <1>3, AvbRxAssumption DEF Slots

\* Seen from the next slot, every other slot is one step nearer.
LEMMA DistFrom ==
    ASSUME NEW i \in Slots, NEW s \in Slots
    PROVE  Dist(Advance(i, 1), s) = IF s = i THEN RX_DESC_CNT - 1 ELSE Dist(i, s) - 1
<1>1. Advance(i, 1) = IF i + 1 < RX_DESC_CNT THEN i + 1 ELSE i + 1 - RX_DESC_CNT
  BY AdvanceSmall, AvbRxAssumption
<1> QED
  BY <1>1, AvbRxAssumption DEF Dist, Slots

LEMMA AdvanceFrom ==
    ASSUME NEW i \in Slots, NEW k \in 1 .. RX_DESC_CNT
    PROVE  Advance(Advance(i, 1), k - 1) = Advance(i, k)
<1>1. /\ Advance(i, 1) = IF i + 1 < RX_DESC_CNT THEN i + 1 ELSE i + 1 - RX_DESC_CNT
      /\ Advance(i, 1) \in Slots
  BY AdvanceSmall, AvbRxAssumption
<1>2. Advance(i, k) = IF i + k < RX_DESC_CNT THEN i + k ELSE i + k - RX_DESC_CNT
  BY AdvanceSmall, AvbRxAssumption
<1>3. Advance(Advance(i, 1), k - 1) =
        IF Advance(i, 1) + (k - 1) < RX_DESC_CNT THEN Advance(i, 1) + (k - 1)
        ELSE Advance(i, 1) + (k - 1) - RX_DESC_CNT
  BY <1>1, AdvanceSmall, AvbRxAssumption
<1> QED
  BY <1>1, <1>2, <1>3, AvbRxAssumption DEF Slots

-----------------------------------------------------------------------------
(* The inductive invariant.                                                *)

\* Distance from the first descriptor that read_done has not armed yet.
From(s) == Dist(skb_realloc_idx, s)

\* Consumed descriptors not yet armed again.
Behind == IF pc = "rearm" THEN dirty_rx - read.i ELSE dirty_rx

\* Descriptors the channel has written, consumed or not, and not yet armed again.
Written == IF desc[dma.idx].own THEN From(dma.idx) ELSE RX_DESC_CNT

Filled(s) == Behind <= From(s) /\ From(s) < Written

\* From skb_realloc_idx on: consumed descriptors, written ones, the channel's.
Window ==
    /\ pc = "rearm" => read.i <= dirty_rx /\ read.list = <<>>
    /\ cur_rx = Advance(skb_realloc_idx, Behind)
    /\ Behind <= Written
    /\ dma.idx = Advance(skb_realloc_idx, Written)
    /\ \A s \in Slots : desc[s].own <=> From(s) >= Written

\* Frames arrive in order; the last one may be half written.
Arrived ==
    /\ Len(frames) <= NumFrames
    /\ \A f \in Frames : fate[f] = "wire" <=> f > Len(frames)
    /\ dma.left > 0 => /\ frames # <<>> /\ fate[Len(frames)] = "ring"
                       /\ dma.left <= frames[Len(frames)].descs

\* A written descriptor says what its frame is; only bad frames span several.
Contents ==
    \A s \in Slots : Filled(s) =>
        /\ mem[s] \in 1 .. Len(frames) /\ fate[mem[s]] = "ring"
        /\ IF desc[s].ld THEN desc[s].es = frames[mem[s]].es ELSE frames[mem[s]].es
        /\ dma.left > 0 /\ desc[s].ld => mem[s] < Len(frames)

\* Frames are written in the order they arrive, each up to its last descriptor.
InOrder ==
    \A s, t \in Slots : Filled(s) /\ Filled(t) /\ From(s) < From(t) =>
        mem[s] <= mem[t] /\ (desc[s].ld => mem[s] < mem[t])

\* A complete frame is in the ring, to its end.
Located == \A f \in Frames : Completed(f) => \E s \in Slots : Filled(s) /\ desc[s].ld /\ mem[s] = f

\* The list names different consumed descriptors with packets of the process.
List ==
    /\ \A m, n \in DOMAIN read.list : read.list[m] = read.list[n] => m = n
    /\ \A n \in DOMAIN read.list :
          LET s == read.list[n] IN From(s) < Behind /\ mem[s] \in Frames /\ fate[mem[s]] = "stack"

\* Somebody will release the semaphore or has done so.
Pending == ri \/ isr \in {"mask", "up"} \/ rx_sem > 0

Wake ==
    /\ pc \in {"wait", "failed"} => ~pkt_present
    /\ pc = "wait" => rx_sem > 0 \/ isr # "idle" \/ rie
    /\ pc # "loop" /\ ~pkt_present /\ (\E f \in Frames : Completed(f)) => Pending

AvbRxInv == TypeOK /\ Window /\ Arrived /\ Contents /\ InOrder /\ Located /\ List /\ Wake

LEMMA InvInit == Init => AvbRxInv
<1> SUFFICES ASSUME Init PROVE AvbRxInv
  OBVIOUS
<1> USE AvbRxAssumption
<1>1. 0 \in Slots /\ RX_DESC_CNT - 1 \in Slots
  BY DEF Slots
<1>2. TypeOK
  <2>1. read \in ReadType /\ dma \in DmaType /\ frames \in Seq(Kinds)
    BY <1>1 DEF Init, ReadType, DmaType
  <2>2. desc \in [Slots -> DescType] /\ mem \in [Slots -> 0 .. NumFrames]
        /\ fate \in [Frames -> {"wire", "ring", "stack", "lost"}]
    BY DEF Init, DescType
  <2>3. pc = "call" /\ cur_rx = 0 /\ skb_realloc_idx = 0 /\ dirty_rx \in 0 .. RX_DESC_CNT
        /\ signals \in 0 .. MaxSignals
    BY DEF Init
  <2>4. pkt_present \in BOOLEAN /\ isr = "idle" /\ ri \in BOOLEAN /\ rie \in BOOLEAN /\ rx_sem \in Nat
    BY DEF Init
  <2> QED
    BY <1>1, <2>1, <2>2, <2>3, <2>4 DEF TypeOK
<1>3. Behind = 0 /\ Written = 0 /\ \A s \in Slots : From(s) \in Nat
  BY <1>1, DistType DEF Init, Behind, Written, From
<1>4. Window
  BY <1>1, <1>3, AdvanceSmall DEF Init, Window, Slots
<1>5. Contents /\ InOrder
  BY <1>3 DEF Contents, InOrder, Filled
<1>6. Arrived /\ Located /\ List /\ Wake
  BY DEF Init, Arrived, Located, List, Wake, Completed, Frames
<1> QED
  BY <1>2, <1>4, <1>5, <1>6 DEF AvbRxInv

-----------------------------------------------------------------------------
(* What the invariant says about the numbers.                              *)

LEMMA Numbers ==
    ASSUME AvbRxInv
    PROVE  /\ Behind \in 0 .. RX_DESC_CNT /\ Written \in Behind .. RX_DESC_CNT
           /\ \A s \in Slots : From(s) \in 0 .. RX_DESC_CNT - 1
           /\ \A s, t \in Slots : From(s) = From(t) => s = t
           /\ Behind < RX_DESC_CNT => From(cur_rx) = Behind
           /\ Written < RX_DESC_CNT => From(dma.idx) = Written
           /\ skb_realloc_idx \in Slots /\ cur_rx \in Slots /\ dma.idx \in Slots
           /\ From(skb_realloc_idx) = 0
<1> USE AvbRxAssumption DEF AvbRxInv
<1>1. skb_realloc_idx \in Slots /\ cur_rx \in Slots /\ dma.idx \in Slots
  BY DEF TypeOK, DmaType
<1>2. \A s \in Slots : From(s) \in 0 .. RX_DESC_CNT - 1
  BY <1>1, DistType DEF From
<1>3. Behind \in 0 .. RX_DESC_CNT
  BY DEF TypeOK, ReadType, Window, Behind
<1>4. Written \in Behind .. RX_DESC_CNT
  <2>1. Written \in 0 .. RX_DESC_CNT
    BY <1>1, <1>2 DEF Written
  <2> QED
    BY <2>1, <1>3 DEF Window
<1>5. \A s, t \in Slots : From(s) = From(t) => s = t
  BY <1>1, DistInjective DEF From
<1>6. Behind < RX_DESC_CNT => From(cur_rx) = Behind
  BY <1>1, <1>3, DistAdvance DEF From, Window
<1>7. Written < RX_DESC_CNT => From(dma.idx) = Written
  BY <1>1, <1>3, <1>4, DistAdvance DEF From, Window
<1> QED
  BY <1>1, <1>2, <1>3, <1>4, <1>5, <1>6, <1>7, DistType DEF From

\* If the channel owns the next descriptor, the process has read every complete
\* frame.
LEMMA NothingUnread ==
    ASSUME AvbRxInv, desc[cur_rx].own
    PROVE  \A f \in Frames : ~Completed(f)
<1>1. From(cur_rx) >= Written
  BY Numbers DEF AvbRxInv, Window
<1>2. Behind < RX_DESC_CNT
  BY <1>1, Numbers, AvbRxAssumption
<1>3. Written <= Behind
  BY <1>1, <1>2, Numbers
<1>4. \A s \in Slots : ~Filled(s)
  BY <1>3, Numbers, AvbRxAssumption DEF Filled
<1> QED
  BY <1>4 DEF AvbRxInv, Located

-----------------------------------------------------------------------------
(* Steps that leave the ring alone.                                        *)

LEMMA RingStays ==
    ASSUME AvbRxInv, UNCHANGED <<desc, cur_rx, skb_realloc_idx, mem, frames, fate>>,
           Behind' = Behind, dma'.idx = dma.idx, dma'.left = dma.left,
           pc' = "rearm" => read'.i <= dirty_rx' /\ read'.list = <<>>
    PROVE  /\ Window' /\ Arrived' /\ Contents' /\ InOrder' /\ Located'
           /\ \A f \in Frames : Completed(f)' <=> Completed(f)
<1>1. \A s : From(s)' = From(s)
  BY DEF From, Dist
<1>2. Written' = Written
  BY DEF Written, From, Dist
<1>3. \A s : Filled(s)' <=> Filled(s)
  BY <1>1, <1>2 DEF Filled
<1>4. \A f \in Frames : Completed(f)' <=> Completed(f)
  BY DEF Completed
<1>5. Window'
  BY <1>1, <1>2 DEF AvbRxInv, Window, Advance
<1>6. Arrived'
  BY DEF AvbRxInv, Arrived
<1>7. Contents' /\ InOrder'
  BY <1>1, <1>3 DEF AvbRxInv, Contents, InOrder
<1>8. Located'
  BY <1>3, <1>4 DEF AvbRxInv, Located
<1> QED
  BY <1>4, <1>5, <1>6, <1>7, <1>8

\* The reader moves on, with the list it has or with none.
LEMMA ListStays ==
    ASSUME AvbRxInv, UNCHANGED <<skb_realloc_idx, mem, fate>>, Behind' = Behind,
           read'.list \in {read.list, <<>>}
    PROVE  List'
BY DEF AvbRxInv, List, From, Dist

LEMMA ReadCallStep == ASSUME AvbRxInv, ReadCall PROVE AvbRxInv'
<1> USE AvbRxAssumption
<1>1. /\ pc = "call" /\ pc' \in {"loop", "wait"} /\ Behind' = Behind
      /\ read' = [list |-> <<>>, i |-> 0, tail |-> 0]
      /\ UNCHANGED <<desc, cur_rx, dirty_rx, skb_realloc_idx, pkt_present, isr, ri, rx_sem, dma,
                     frames, fate, mem, signals>>
      /\ IF pkt_present THEN pc' = "loop" /\ rie' = rie ELSE pc' = "wait" /\ rie' = TRUE
  BY DEF ReadCall, Behind, ring, wire
<1>2. TypeOK'
  <2>1. read' \in ReadType
    BY <1>1 DEF ReadType, Slots
  <2>2. rie' \in BOOLEAN
    BY <1>1 DEF AvbRxInv, TypeOK
  <2> QED
    BY <1>1, <2>1, <2>2 DEF AvbRxInv, TypeOK
<1>3. /\ Window' /\ Arrived' /\ Contents' /\ InOrder' /\ Located'
      /\ \A f \in Frames : Completed(f)' <=> Completed(f)
  BY <1>1, RingStays
<1>4. List'
  BY <1>1, ListStays
<1>5. Wake'
  BY <1>1, <1>3 DEF AvbRxInv, Wake, Pending
<1> QED
  BY <1>2, <1>3, <1>4, <1>5 DEF AvbRxInv

LEMMA ReadMoveStep ==
    ASSUME AvbRxInv, ReadWoken \/ ReadSignal \/ ReadFailed
    PROVE  AvbRxInv'
<1> USE AvbRxAssumption
<1>1. /\ pc \in {"wait", "failed"} /\ pc' \in {"loop", "failed", "app"} /\ Behind' = Behind
      /\ UNCHANGED <<desc, cur_rx, dirty_rx, skb_realloc_idx, pkt_present, isr, ri, read, dma,
                     frames, fate, mem>>
      /\ pc' = "loop" \/ rx_sem' = rx_sem
  BY DEF ReadWoken, ReadSignal, ReadFailed, Behind, ring, wire, irq
<1>2. TypeOK'
  <2>1. rx_sem' \in Nat /\ signals' \in 0 .. MaxSignals
    BY DEF AvbRxInv, TypeOK, ReadWoken, ReadSignal, ReadFailed, irq
  <2>2. rie' \in {rie, FALSE}
    BY DEF ReadWoken, ReadSignal, ReadFailed, irq
  <2>3. rie' \in BOOLEAN
    BY <2>2 DEF AvbRxInv, TypeOK
  <2> QED
    BY <1>1, <2>1, <2>3 DEF AvbRxInv, TypeOK
<1>3. /\ Window' /\ Arrived' /\ Contents' /\ InOrder' /\ Located'
      /\ \A f \in Frames : Completed(f)' <=> Completed(f)
  BY <1>1, RingStays
<1>4. List'
  BY <1>1, ListStays
<1>5. Wake'
  BY <1>1, <1>3 DEF AvbRxInv, Wake, Pending
<1> QED
  BY <1>2, <1>3, <1>4, <1>5 DEF AvbRxInv

\* A read that ends without pkt_present leaves no complete frame behind.
LEMMA ReadEndStep == ASSUME AvbRxInv, ReadEnd PROVE AvbRxInv'
<1> USE AvbRxAssumption
<1>1. /\ pc = "loop" /\ pc' = "app" /\ Behind' = Behind
      /\ UNCHANGED <<desc, cur_rx, dirty_rx, skb_realloc_idx, isr, ri, rie, rx_sem, read, dma,
                     frames, fate, mem, signals>>
      /\ pkt_present' \/ desc[cur_rx].own
      /\ pkt_present' \in BOOLEAN
  <2>1. desc[cur_rx].own \in BOOLEAN /\ pkt_present \in BOOLEAN
    BY Numbers DEF AvbRxInv, TypeOK, DescType
  <2> QED
    BY <2>1 DEF ReadEnd, Behind, wire, irq
<1>2. TypeOK'
  BY <1>1 DEF AvbRxInv, TypeOK
<1>3. /\ Window' /\ Arrived' /\ Contents' /\ InOrder' /\ Located'
      /\ \A f \in Frames : Completed(f)' <=> Completed(f)
  BY <1>1, RingStays
<1>4. List'
  BY <1>1, ListStays
<1>5. Wake'
  BY <1>1, <1>3, NothingUnread DEF Wake
<1> QED
  BY <1>2, <1>3, <1>4, <1>5 DEF AvbRxInv

\* The steps of read_done around its loop.
LEMMA ReadDoneStep == ASSUME AvbRxInv, ReadDone PROVE AvbRxInv'
<1> USE AvbRxAssumption
<1>1. /\ pc = "app" /\ pc' = "rearm"
      /\ read' = [list |-> <<>>, i |-> 0, tail |-> 0]
      /\ UNCHANGED <<desc, cur_rx, dirty_rx, skb_realloc_idx, pkt_present, isr, ri, rie, rx_sem, dma,
                     frames, fate, mem, signals>>
  BY DEF ReadDone, ring, wire, irq
<1>2. Behind' = Behind /\ dirty_rx \in Nat /\ read'.i = 0
  BY <1>1 DEF Behind, AvbRxInv, TypeOK
<1>3. TypeOK'
  <2>1. read' \in ReadType
    BY <1>1 DEF ReadType, Slots
  <2> QED
    BY <1>1, <2>1 DEF AvbRxInv, TypeOK
<1>4. /\ Window' /\ Arrived' /\ Contents' /\ InOrder' /\ Located'
      /\ \A f \in Frames : Completed(f)' <=> Completed(f)
  BY <1>1, <1>2, RingStays
<1>5. List'
  BY <1>1, <1>2, ListStays
<1>6. Wake'
  BY <1>1, <1>4 DEF AvbRxInv, Wake, Pending
<1> QED
  BY <1>3, <1>4, <1>5, <1>6 DEF AvbRxInv

LEMMA RearmEndStep == ASSUME AvbRxInv, RearmEnd PROVE AvbRxInv'
<1> USE AvbRxAssumption
<1>1. /\ pc = "rearm" /\ read.i = dirty_rx /\ pc' = "call" /\ dirty_rx' = 0
      /\ dma' = [dma EXCEPT !.run = TRUE, !.tail = read.tail]
      /\ UNCHANGED <<desc, cur_rx, skb_realloc_idx, pkt_present, isr, ri, rie, rx_sem, read,
                     frames, fate, mem, signals>>
  BY DEF RearmEnd, wire, irq
<1>2. Behind' = Behind /\ dma'.idx = dma.idx /\ dma'.left = dma.left
  BY <1>1 DEF Behind, AvbRxInv, TypeOK, DmaType
<1>3. TypeOK'
  <2>1. dma' \in DmaType
    BY <1>1 DEF AvbRxInv, TypeOK, DmaType, ReadType
  <2> QED
    BY <1>1, <2>1 DEF AvbRxInv, TypeOK
<1>4. /\ Window' /\ Arrived' /\ Contents' /\ InOrder' /\ Located'
      /\ \A f \in Frames : Completed(f)' <=> Completed(f)
  BY <1>1, <1>2, RingStays
<1>5. List'
  BY <1>1, <1>2, ListStays
<1>6. Wake'
  BY <1>1, <1>4 DEF AvbRxInv, Wake, Pending
<1> QED
  BY <1>3, <1>4, <1>5, <1>6 DEF AvbRxInv

\* The service routine and the suspension of the channel leave the ring alone.
LEMMA IsrStep == ASSUME AvbRxInv, Isr \/ DmaSuspend PROVE AvbRxInv'
<1> USE AvbRxAssumption
<1>1. /\ UNCHANGED <<pc, desc, cur_rx, dirty_rx, skb_realloc_idx, pkt_present, read,
                     frames, fate, mem, signals>>
      /\ dma' = dma \/ dma' = [dma EXCEPT !.run = FALSE]
  BY DEF Isr, DmaSuspend, IsrStart, IsrClear, IsrMask, IsrUp, ring, wire
<1>2. Behind' = Behind /\ dma'.idx = dma.idx /\ dma'.left = dma.left /\ dma' \in DmaType
  BY <1>1 DEF Behind, AvbRxInv, TypeOK, DmaType
<1>3. TypeOK'
  <2>1. isr' \in {"idle", "clear", "mask", "up"} /\ rx_sem' \in Nat
    BY DEF AvbRxInv, TypeOK, Isr, DmaSuspend, IsrStart, IsrClear, IsrMask, IsrUp, irq
  <2>2. ri' \in {ri, FALSE} /\ rie' \in {rie, FALSE}
    BY DEF Isr, DmaSuspend, IsrStart, IsrClear, IsrMask, IsrUp, irq
  <2>3. ri' \in BOOLEAN /\ rie' \in BOOLEAN
    BY <2>2 DEF AvbRxInv, TypeOK
  <2> QED
    BY <1>1, <1>2, <2>1, <2>3 DEF AvbRxInv, TypeOK
<1>4. /\ Window' /\ Arrived' /\ Contents' /\ InOrder' /\ Located'
      /\ \A f \in Frames : Completed(f)' <=> Completed(f)
  <2>1. pc' = "rearm" => read'.i <= dirty_rx' /\ read'.list = <<>>
    BY <1>1 DEF AvbRxInv, Window
  <2> QED
    BY <1>1, <1>2, <2>1, RingStays
<1>5. List'
  BY <1>1, <1>2, ListStays
<1>6. Wake'
  <2>1. Pending => Pending'
    BY DEF Pending, Isr, DmaSuspend, IsrStart, IsrClear, IsrMask, IsrUp, irq, AvbRxInv, TypeOK
  <2>2. rx_sem > 0 \/ isr # "idle" \/ rie => rx_sem' > 0 \/ isr' # "idle" \/ rie'
    BY DEF Isr, DmaSuspend, IsrStart, IsrClear, IsrMask, IsrUp, irq, AvbRxInv, TypeOK
  <2> QED
    BY <1>1, <1>4, <2>1, <2>2 DEF AvbRxInv, Wake
<1> QED
  BY <1>3, <1>4, <1>5, <1>6 DEF AvbRxInv

-----------------------------------------------------------------------------
(* The reader takes a descriptor.                                          *)

\* What both kinds of descriptors have in common.
LEMMA ConsumeFacts ==
    ASSUME AvbRxInv, FewBad, Available, Consume, UNCHANGED desc
    PROVE  /\ dirty_rx \in 0 .. RX_DESC_CNT - 1 /\ Behind = dirty_rx /\ Behind' = Behind + 1
           /\ From(cur_rx) = Behind /\ Filled(cur_rx) /\ cur_rx \in Slots
           /\ \A s : From(s)' = From(s)
           /\ Written' = Written
           /\ \A s \in Slots : Filled(s)' <=> Filled(s) /\ s # cur_rx
           /\ Window'
<1> USE AvbRxAssumption
<1>1. /\ pc = "loop" /\ pc' = "loop" /\ dirty_rx' = dirty_rx + 1 /\ cur_rx' = Advance(cur_rx, 1)
      /\ UNCHANGED <<desc, skb_realloc_idx, dma>>
      /\ Len(read.list) < Quota /\ ~desc[cur_rx].own
  BY DEF Available, Consume
<1>2. dirty_rx \in 0 .. RX_DESC_CNT - 1
  <2>1. Len(read.list) \in Nat /\ dirty_rx \in Nat
    BY DEF AvbRxInv, TypeOK, ReadType
  <2> QED
    BY <1>1, <2>1 DEF FewBad
<1>3. Behind = dirty_rx /\ Behind' = Behind + 1
  BY <1>1 DEF Behind
<1>4. From(cur_rx) = Behind /\ cur_rx \in Slots
  BY <1>2, <1>3, Numbers
<1>5. From(cur_rx) < Written
  BY <1>1, <1>4, Numbers DEF AvbRxInv, Window
<1>6. \A s : From(s)' = From(s)
  BY <1>1 DEF From, Dist
<1>7. Written' = Written
  BY <1>1 DEF Written, From, Dist
<1>8. \A s \in Slots : Filled(s)' <=> Filled(s) /\ s # cur_rx
  <2>1. ASSUME NEW s \in Slots
        PROVE  From(s) \in Nat /\ (From(s) = Behind <=> s = cur_rx)
    BY <1>4, Numbers
  <2> QED
    BY <2>1, <1>3, <1>2, <1>6, <1>7 DEF Filled
<1>9. Window'
  <2>1. cur_rx' = Advance(skb_realloc_idx, Behind + 1)
    <3>1. cur_rx = Advance(skb_realloc_idx, Behind)
      BY DEF AvbRxInv, Window
    <3> QED
      BY <3>1, <1>1, <1>2, <1>3, Numbers, AdvanceNext
  <2>2. Behind + 1 <= Written
    BY <1>4, <1>5, Numbers
  <2> QED
    BY <2>1, <2>2, <1>1, <1>3, <1>6, <1>7 DEF AvbRxInv, Window, Advance
<1> QED
  BY <1>2, <1>3, <1>4, <1>5, <1>6, <1>7, <1>8, <1>9 DEF Filled

\* The frame of the descriptor leaves the ring with its last descriptor.
LEMMA ConsumeFrames ==
    ASSUME AvbRxInv, FewBad, Available, Consume, UNCHANGED desc,
           NEW where \in {"stack", "lost"},
           fate' = IF desc[cur_rx].ld THEN [fate EXCEPT ![mem[cur_rx]] = where] ELSE fate
    PROVE  /\ Arrived' /\ Contents' /\ InOrder' /\ Located'
           /\ mem[cur_rx] \in Frames /\ fate[mem[cur_rx]] = "ring"
<1> DEFINE g == mem[cur_rx]
<1> USE AvbRxAssumption
<1>1. UNCHANGED <<desc, dma, mem, frames>>
  BY DEF Consume
<1>2. /\ Filled(cur_rx) /\ cur_rx \in Slots /\ \A s : From(s)' = From(s)
      /\ \A s \in Slots : Filled(s)' <=> Filled(s) /\ s # cur_rx
      /\ From(cur_rx) = Behind
  BY ConsumeFacts
<1>3. /\ Len(frames) \in Nat /\ Len(frames) <= NumFrames
      /\ fate \in [Frames -> {"wire", "ring", "stack", "lost"}]
  BY DEF AvbRxInv, TypeOK, Arrived
<1>4. g \in 1 .. Len(frames) /\ fate[g] = "ring" /\ (dma.left > 0 /\ desc[cur_rx].ld => g < Len(frames))
  BY <1>2 DEF AvbRxInv, Contents
<1>5. g \in Frames /\ g \in Nat
  BY <1>3, <1>4 DEF Frames
<1> HIDE DEF g
<1>6. \A f \in Frames : fate'[f] = IF desc[cur_rx].ld /\ f = g THEN where ELSE fate[f]
  BY <1>3, <1>5 DEF g
<1>7. ASSUME NEW s \in Slots, Filled(s), s # cur_rx, desc[cur_rx].ld
      PROVE  g < mem[s]
  <2>1. From(cur_rx) < From(s)
    BY <1>2, <1>7, Numbers DEF Filled
  <2> QED
    BY <2>1, <1>2, <1>7 DEF AvbRxInv, InOrder, g
<1>8. Arrived'
  <2>1. Len(frames) > 0 => Len(frames) \in Frames
    BY <1>3 DEF Frames
  <2>2. frames # <<>> => Len(frames) > 0
    BY DEF AvbRxInv, TypeOK
  <2>3. \A f \in Frames : fate'[f] = "wire" <=> f > Len(frames)
    BY <1>4, <1>5, <1>6 DEF AvbRxInv, Arrived
  <2>4. dma.left > 0 => fate'[Len(frames)] = "ring"
    BY <2>1, <2>2, <1>3, <1>4, <1>6 DEF AvbRxInv, Arrived
  <2> QED
    BY <2>3, <2>4, <1>1, <1>3 DEF AvbRxInv, Arrived
<1>9. Contents'
  <2> SUFFICES ASSUME NEW s \in Slots, Filled(s), s # cur_rx
               PROVE  (/\ mem[s] \in 1 .. Len(frames) /\ fate[mem[s]] = "ring"
                       /\ IF desc[s].ld THEN desc[s].es = frames[mem[s]].es ELSE frames[mem[s]].es
                       /\ dma.left > 0 /\ desc[s].ld => mem[s] < Len(frames))'
    BY <1>2 DEF Contents
  <2>1. /\ mem[s] \in 1 .. Len(frames) /\ fate[mem[s]] = "ring"
        /\ IF desc[s].ld THEN desc[s].es = frames[mem[s]].es ELSE frames[mem[s]].es
        /\ dma.left > 0 /\ desc[s].ld => mem[s] < Len(frames)
    BY DEF AvbRxInv, Contents
  <2>2. mem[s] \in Frames /\ mem[s] \in Nat
    BY <2>1, <1>3 DEF Frames
  <2>3. fate'[mem[s]] = "ring"
    BY <2>1, <2>2, <1>5, <1>6, <1>7
  <2> QED
    BY <2>1, <2>3, <1>1
<1>10. InOrder'
  BY <1>1, <1>2 DEF AvbRxInv, InOrder
<1>11. Located'
  <2> SUFFICES ASSUME NEW f \in Frames, Completed(f)'
               PROVE  \E s \in Slots : Filled(s)' /\ desc'[s].ld /\ mem'[s] = f
    BY DEF Located
  <2>1. Completed(f) /\ ~(desc[cur_rx].ld /\ f = g)
    BY <1>1, <1>6 DEF Completed
  <2>2. PICK s \in Slots : Filled(s) /\ desc[s].ld /\ mem[s] = f
    BY <2>1 DEF AvbRxInv, Located
  <2>3. s # cur_rx
    BY <2>1, <2>2 DEF g
  <2> QED
    BY <2>2, <2>3, <1>1, <1>2
<1> QED
  BY <1>4, <1>5, <1>8, <1>9, <1>10, <1>11 DEF g

LEMMA ReadGoodStep == ASSUME AvbRxInv, FewBad, ReadGood PROVE AvbRxInv'
<1> USE AvbRxAssumption
<1>1. /\ Available /\ Consume /\ UNCHANGED desc
      /\ desc[cur_rx].ld /\ fate' = [fate EXCEPT ![mem[cur_rx]] = "stack"]
      /\ read' = [read EXCEPT !.list = Append(@, cur_rx)]
  BY DEF ReadGood, Good
<1>2. /\ dirty_rx \in 0 .. RX_DESC_CNT - 1 /\ Behind = dirty_rx /\ Behind' = Behind + 1
      /\ From(cur_rx) = Behind /\ cur_rx \in Slots /\ \A s : From(s)' = From(s) /\ Window'
  BY <1>1, ConsumeFacts
<1>3. /\ Arrived' /\ Contents' /\ InOrder' /\ Located'
      /\ mem[cur_rx] \in Frames /\ fate[mem[cur_rx]] = "ring"
  BY <1>1, ConsumeFrames
<1>4. /\ dirty_rx' = dirty_rx + 1 /\ cur_rx' = Advance(cur_rx, 1) /\ pc = "loop"
      /\ UNCHANGED <<pc, desc, skb_realloc_idx, pkt_present, isr, ri, rie, rx_sem, dma, frames, mem,
                     signals>>
  BY <1>1 DEF Consume, Available, irq
<1>5. read \in ReadType /\ fate \in [Frames -> {"wire", "ring", "stack", "lost"}]
  BY DEF AvbRxInv, TypeOK
<1>a. /\ read.list \in Seq(Slots) /\ Append(read.list, cur_rx) \in Seq(Slots)
      /\ read'.list = Append(read.list, cur_rx) /\ read' \in ReadType
  <2>1. read.list \in Seq(Slots) /\ Append(read.list, cur_rx) \in Seq(Slots)
    BY <1>2, <1>5 DEF ReadType
  <2> QED
    BY <2>1, <1>1, <1>5 DEF ReadType
<1>6. /\ read'.list \in Seq(Slots)
      /\ DOMAIN read'.list = 1 .. Len(read.list) + 1 /\ DOMAIN read.list = 1 .. Len(read.list)
      /\ Len(read.list) \in Nat
      /\ \A n \in 1 .. Len(read.list) + 1 :
            read'.list[n] = IF n = Len(read.list) + 1 THEN cur_rx ELSE read.list[n]
  BY <1>a
<1>7. TypeOK'
  <2>1. cur_rx' \in Slots
    BY <1>2, <1>4, AdvanceSmall
  <2>2. fate' \in [Frames -> {"wire", "ring", "stack", "lost"}]
    BY <1>1, <1>5
  <2>3. dirty_rx' \in 0 .. RX_DESC_CNT
    BY <1>2, <1>4
  <2> QED
    BY <2>1, <2>2, <2>3, <1>4, <1>a DEF AvbRxInv, TypeOK
<1>8. List'
  <2>1. ASSUME NEW n \in 1 .. Len(read.list)
        PROVE  /\ read.list[n] \in Slots /\ From(read.list[n]) < Behind
               /\ mem[read.list[n]] \in Frames /\ fate[mem[read.list[n]]] = "stack"
    BY <1>5, <1>6 DEF AvbRxInv, List, ReadType
  <2>2. ASSUME NEW n \in 1 .. Len(read.list) PROVE read.list[n] # cur_rx
    BY <2>1, <1>2
  <2>3. \A m, n \in DOMAIN read'.list : read'.list[m] = read'.list[n] => m = n
    <3> SUFFICES ASSUME NEW m \in DOMAIN read'.list, NEW n \in DOMAIN read'.list,
                        read'.list[m] = read'.list[n]
                 PROVE  m = n
      OBVIOUS
    <3>1. m \in 1 .. Len(read.list) + 1 /\ n \in 1 .. Len(read.list) + 1
      BY <1>6
    <3>2. CASE m = Len(read.list) + 1
      <4>1. n \notin 1 .. Len(read.list)
        BY <3>1, <3>2, <2>2, <1>6
      <4> QED
        BY <4>1, <3>1, <3>2, <1>6
    <3>3. CASE m \in 1 .. Len(read.list) /\ n = Len(read.list) + 1
      BY <3>1, <3>3, <2>2, <1>6
    <3>4. CASE m \in 1 .. Len(read.list) /\ n \in 1 .. Len(read.list)
      <4>1. read.list[m] = read.list[n] /\ m \in DOMAIN read.list /\ n \in DOMAIN read.list
        BY <3>1, <3>4, <1>6
      <4> QED
        BY <4>1 DEF AvbRxInv, List
    <3> QED
      BY <3>1, <3>2, <3>3, <3>4, <1>6
  <2>4. ASSUME NEW n \in DOMAIN read'.list
        PROVE  LET s == read'.list[n] IN
               From(s) < Behind + 1 /\ mem[s] \in Frames /\ fate'[mem[s]] = "stack"
    <3>1. CASE n = Len(read.list) + 1
      BY <3>1, <1>1, <1>2, <1>3, <1>5, <1>6
    <3>2. CASE n \in 1 .. Len(read.list)
      <4>1. From(read.list[n]) < Behind + 1
        BY <2>1, <3>2, <1>2, Numbers
      <4>2. fate'[mem[read.list[n]]] = "stack"
        BY <2>1, <3>2, <1>1, <1>3, <1>5
      <4> QED
        BY <4>1, <4>2, <2>1, <3>2, <1>6
    <3> QED
      BY <3>1, <3>2, <1>6
  <2> QED
    BY <2>3, <2>4, <1>2, <1>4 DEF List
<1>9. Wake'
  BY <1>4 DEF Wake
<1> QED
  BY <1>2, <1>3, <1>7, <1>8, <1>9 DEF AvbRxInv

LEMMA ReadBadStep == ASSUME AvbRxInv, FewBad, ReadBad PROVE AvbRxInv'
<1> USE AvbRxAssumption
<1>1. /\ Available /\ Consume /\ UNCHANGED <<desc, read>>
      /\ fate' = IF desc[cur_rx].ld THEN [fate EXCEPT ![mem[cur_rx]] = "lost"] ELSE fate
  BY DEF ReadBad
<1>2. /\ dirty_rx \in 0 .. RX_DESC_CNT - 1 /\ Behind = dirty_rx /\ Behind' = Behind + 1
      /\ cur_rx \in Slots /\ \A s : From(s)' = From(s) /\ Window'
  BY <1>1, ConsumeFacts
<1>3. /\ Arrived' /\ Contents' /\ InOrder' /\ Located'
      /\ mem[cur_rx] \in Frames /\ fate[mem[cur_rx]] = "ring"
  BY <1>1, ConsumeFrames
<1>4. /\ dirty_rx' = dirty_rx + 1 /\ cur_rx' = Advance(cur_rx, 1) /\ pc = "loop"
      /\ UNCHANGED <<pc, desc, read, skb_realloc_idx, pkt_present, isr, ri, rie, rx_sem, dma, frames,
                     mem, signals>>
  BY <1>1 DEF Consume, Available, irq
<1>5. read \in ReadType /\ fate \in [Frames -> {"wire", "ring", "stack", "lost"}]
  BY DEF AvbRxInv, TypeOK
<1>6. TypeOK'
  <2>1. cur_rx' \in Slots
    BY <1>2, <1>4, AdvanceSmall
  <2>2. fate' \in [Frames -> {"wire", "ring", "stack", "lost"}]
    BY <1>1, <1>5
  <2>3. dirty_rx' \in 0 .. RX_DESC_CNT
    BY <1>2, <1>4
  <2> QED
    BY <2>1, <2>2, <2>3, <1>4 DEF AvbRxInv, TypeOK
<1>7. List'
  <2>1. ASSUME NEW n \in DOMAIN read.list
        PROVE  LET s == read.list[n] IN
               From(s) < Behind + 1 /\ mem[s] \in Frames /\ fate'[mem[s]] = "stack"
    <3>1. /\ read.list[n] \in Slots /\ From(read.list[n]) < Behind
          /\ mem[read.list[n]] \in Frames /\ fate[mem[read.list[n]]] = "stack"
      BY <1>5 DEF AvbRxInv, List, ReadType
    <3>2. fate'[mem[read.list[n]]] = "stack"
      BY <3>1, <1>1, <1>3, <1>5
    <3>3. From(read.list[n]) < Behind + 1
      BY <3>1, <1>2, Numbers
    <3> QED
      BY <3>1, <3>2, <3>3
  <2> QED
    BY <2>1, <1>2, <1>4 DEF AvbRxInv, List
<1>8. Wake'
  BY <1>4 DEF Wake
<1> QED
  BY <1>2, <1>3, <1>6, <1>7, <1>8 DEF AvbRxInv

-----------------------------------------------------------------------------
(* read_done arms a descriptor: everything comes one step nearer.          *)

LEMMA RearmOneStep == ASSUME AvbRxInv, RearmOne PROVE AvbRxInv'
<1> DEFINE R == skb_realloc_idx
<1> USE AvbRxAssumption
<1>1. /\ pc = "rearm" /\ pc' = "rearm" /\ read.i < dirty_rx
      /\ desc' = [desc EXCEPT ![R].own = TRUE]
      /\ read' = [read EXCEPT !.i = @ + 1, !.tail = R]
      /\ skb_realloc_idx' = Advance(R, 1)
      /\ UNCHANGED <<cur_rx, dirty_rx, pkt_present, isr, ri, rie, rx_sem, dma, frames, fate, mem,
                     signals>>
  BY DEF RearmOne, irq, wire
<1>2. /\ R \in Slots /\ desc \in [Slots -> DescType] /\ read \in ReadType /\ dma \in DmaType
      /\ dirty_rx \in 0 .. RX_DESC_CNT /\ dma.idx \in Slots
  BY DEF AvbRxInv, TypeOK, DmaType
<1> HIDE DEF R
<1>3. /\ read'.i = read.i + 1 /\ read'.list = read.list /\ read' \in ReadType
      /\ read.i \in Nat
  <2>1. read.i \in Nat /\ read.i + 1 \in Nat /\ read.list \in Seq(Slots)
    BY <1>2 DEF ReadType
  <2>2. read' = [list |-> read.list, i |-> read.i + 1, tail |-> R]
    BY <1>1, <1>2 DEF ReadType
  <2> QED
    BY <2>1, <2>2, <1>2 DEF ReadType
<1>4. Behind \in 1 .. RX_DESC_CNT /\ Behind' = Behind - 1
  BY <1>1, <1>2, <1>3 DEF Behind
<1>5. /\ desc' \in [Slots -> DescType]
      /\ \A s \in Slots : /\ desc'[s].own = IF s = R THEN TRUE ELSE desc[s].own
                          /\ desc'[s].ld = desc[s].ld /\ desc'[s].es = desc[s].es
  BY <1>1, <1>2 DEF DescType
<1>6. \A s \in Slots : From(s)' = IF s = R THEN RX_DESC_CNT - 1 ELSE From(s) - 1
  <2>1. \A s \in Slots : From(s)' = Dist(Advance(R, 1), s)
    BY <1>1 DEF From, Dist
  <2> QED
    BY <2>1, <1>2, DistFrom DEF From, R
<1>7. /\ \A s \in Slots : From(s) \in 0 .. RX_DESC_CNT - 1 /\ (From(s) = 0 <=> s = R)
      /\ Written \in Behind .. RX_DESC_CNT
  BY Numbers DEF R
<1>8. Written' = Written - 1
  <2>1. CASE desc[dma.idx].own
    <3>1. Written = From(dma.idx) /\ dma.idx # R
      BY <2>1, <1>2, <1>4, <1>7 DEF Written
    <3>2. Written' = From(dma.idx)'
      BY <2>1, <3>1, <1>1, <1>2, <1>5 DEF Written, From, Dist
    <3>3. From(dma.idx)' = From(dma.idx) - 1
      BY <3>1, <1>1, <1>2, <1>6
    <3> QED
      BY <3>1, <3>2, <3>3
  <2>2. CASE ~desc[dma.idx].own
    <3>1. Written = RX_DESC_CNT
      BY <2>2 DEF Written
    <3>2. dma.idx = R
      <4>1. dma.idx = Advance(R, RX_DESC_CNT)
        BY <3>1 DEF AvbRxInv, Window, R
      <4> QED
        BY <4>1, <1>2, AdvanceSmall DEF Slots
    <3>3. Written' = From(dma.idx)'
      BY <3>2, <1>1, <1>2, <1>5 DEF Written, From, Dist
    <3>4. From(dma.idx)' = RX_DESC_CNT - 1
      BY <3>2, <1>1, <1>2, <1>6
    <3> QED
      BY <3>1, <3>3, <3>4
  <2> QED
    BY <2>1, <2>2
<1>9. \A s \in Slots : (Filled(s)' <=> Filled(s)) /\ (Filled(s) => s # R)
  <2> SUFFICES ASSUME NEW s \in Slots PROVE (Filled(s)' <=> Filled(s)) /\ (Filled(s) => s # R)
    OBVIOUS
  <2>1. Filled(s)' <=> Behind - 1 <= From(s)' /\ From(s)' < Written - 1
    BY <1>4, <1>8 DEF Filled
  <2>2. From(s) \in 0 .. RX_DESC_CNT - 1 /\ (From(s) = 0 <=> s = R)
    BY <1>7
  <2>3. From(s)' = IF s = R THEN RX_DESC_CNT - 1 ELSE From(s) - 1
    BY <1>6
  <2> QED
    BY <2>1, <2>2, <2>3, <1>4, <1>7 DEF Filled
<1>10. TypeOK'
  <2>1. skb_realloc_idx' \in Slots
    BY <1>1, <1>2, AdvanceSmall
  <2>2. pc' \in {"call", "wait", "failed", "loop", "app", "rearm"} /\ dirty_rx' \in 0 .. RX_DESC_CNT
    BY <1>1, <1>2
  <2> QED
    BY <2>1, <2>2, <1>1, <1>3, <1>5 DEF AvbRxInv, TypeOK
<1>11. Window'
  <2>1. cur_rx' = Advance(skb_realloc_idx', Behind - 1) /\ dma.idx = Advance(skb_realloc_idx', Written - 1)
    <3>1. cur_rx = Advance(R, Behind) /\ dma.idx = Advance(R, Written)
      BY DEF AvbRxInv, Window, R
    <3>2. Written \in 1 .. RX_DESC_CNT
      BY <1>4, <1>7
    <3> QED
      BY <3>1, <3>2, <1>1, <1>2, <1>4, AdvanceFrom
  <2>2. \A s \in Slots : desc'[s].own <=> From(s)' >= Written - 1
    <3> SUFFICES ASSUME NEW s \in Slots PROVE desc'[s].own <=> From(s)' >= Written - 1
      OBVIOUS
    <3>1. desc[s].own <=> From(s) >= Written
      BY DEF AvbRxInv, Window
    <3>2. CASE s = R
      <4>1. desc'[s].own = TRUE /\ From(s)' = RX_DESC_CNT - 1
        BY <3>2, <1>2, <1>5, <1>6
      <4>2. From(s)' >= Written - 1
        BY <4>1, <1>4, <1>7
      <4> QED
        BY <4>1, <4>2
    <3>3. CASE s # R
      <4>1. desc'[s].own = desc[s].own /\ From(s)' = From(s) - 1
        BY <3>3, <1>5, <1>6
      <4>2. From(s) \in Nat /\ Written \in Nat
        BY <1>4, <1>7
      <4>3. From(s)' >= Written - 1 <=> From(s) >= Written
        BY <4>1, <4>2
      <4> QED
        BY <4>1, <4>3, <3>1
    <3> QED
      BY <3>2, <3>3
  <2>3. read'.i <= dirty_rx' /\ read'.list = <<>>
    BY <1>1, <1>2, <1>3 DEF AvbRxInv, Window
  <2> QED
    BY <2>1, <2>2, <2>3, <1>1, <1>4, <1>7, <1>8 DEF Window, Advance
<1>12. Arrived'
  BY <1>1 DEF AvbRxInv, Arrived
<1>13. Contents'
  BY <1>1, <1>5, <1>9 DEF AvbRxInv, Contents
<1>14. InOrder'
  <2>1. ASSUME NEW s \in Slots, NEW t \in Slots, Filled(s), Filled(t)
        PROVE  From(s)' < From(t)' <=> From(s) < From(t)
    BY <2>1, <1>6, <1>7, <1>9
  <2> QED
    BY <2>1, <1>1, <1>5, <1>9 DEF AvbRxInv, InOrder
<1>15. Located' /\ \A f \in Frames : Completed(f)' <=> Completed(f)
  <2>1. \A f \in Frames : Completed(f)' <=> Completed(f)
    BY <1>1 DEF Completed
  <2> QED
    BY <2>1, <1>1, <1>5, <1>9 DEF AvbRxInv, Located
<1>16. List'
  BY <1>1, <1>3 DEF AvbRxInv, Window, List
<1>17. Wake'
  BY <1>1, <1>15 DEF AvbRxInv, Wake, Pending
<1> QED
  BY <1>10, <1>11, <1>12, <1>13, <1>14, <1>15, <1>16, <1>17 DEF AvbRxInv

-----------------------------------------------------------------------------
(* Frames arrive and are written.                                          *)

LEMMA ArrivesStep ==
    ASSUME AvbRxInv, NEW k \in Kinds, FrameEnters(k) \/ FrameMissed(k)
    PROVE  AvbRxInv'
<1> DEFINE n == Len(frames)
<1> USE AvbRxAssumption
<1>1. PICK where \in {"ring", "lost"} :
        /\ fate' = [fate EXCEPT ![n + 1] = where]
        /\ dma' = IF where = "ring" THEN [dma EXCEPT !.left = k.descs] ELSE dma
  BY DEF FrameEnters, FrameMissed, Arrives
<1>2. /\ dma.left = 0 /\ n < NumFrames /\ frames' = Append(frames, k)
      /\ UNCHANGED <<pc, desc, cur_rx, dirty_rx, skb_realloc_idx, pkt_present, read, isr, ri, rie,
                     rx_sem, mem, signals>>
  BY DEF FrameEnters, FrameMissed, Arrives, ring, irq
<1>3. /\ n \in Nat /\ frames \in Seq(Kinds) /\ k.descs \in Nat \ {0}
      /\ dma \in DmaType /\ fate \in [Frames -> {"wire", "ring", "stack", "lost"}]
  BY DEF AvbRxInv, TypeOK, KindType
<1>4. /\ frames' \in Seq(Kinds) /\ Len(frames') = n + 1 /\ frames'[n + 1] = k
      /\ \A f \in 1 .. n : frames'[f] = frames[f]
  BY <1>2, <1>3
<1>5. n + 1 \in Frames /\ \A f \in Frames : fate'[f] = IF f = n + 1 THEN where ELSE fate[f]
  BY <1>1, <1>2, <1>3 DEF Frames
<1>6. /\ dma'.idx = dma.idx /\ dma' \in DmaType
      /\ dma'.left = IF where = "ring" THEN k.descs ELSE 0
  BY <1>1, <1>2, <1>3 DEF DmaType
<1>7. \A f \in Frames : f \in Nat /\ (fate[f] = "wire" <=> f > n)
  BY DEF AvbRxInv, Arrived, Frames
<1> HIDE DEF n
<1>8. /\ \A s : From(s)' = From(s) /\ Behind' = Behind /\ Written' = Written
      /\ \A s : Filled(s)' <=> Filled(s)
  <2>1. (\A s : From(s)' = From(s)) /\ Behind' = Behind
    BY <1>2 DEF From, Dist, Behind
  <2>2. Written' = Written
    BY <2>1, <1>2, <1>6 DEF Written
  <2> QED
    BY <2>1, <2>2 DEF Filled
<1>9. \A f \in Frames : Completed(f)' <=> Completed(f)
  <2> SUFFICES ASSUME NEW f \in Frames PROVE Completed(f)' <=> Completed(f)
    OBVIOUS
  <2>1. Completed(f) <=> fate[f] = "ring"
    BY <1>2 DEF Completed
  <2>2. Completed(f)' <=> fate'[f] = "ring" /\ (f < n + 1 \/ dma'.left = 0)
    BY <1>4 DEF Completed
  <2> QED
    BY <2>1, <2>2, <1>3, <1>5, <1>6, <1>7
<1>10. TypeOK'
  <2>1. fate' \in [Frames -> {"wire", "ring", "stack", "lost"}]
    BY <1>1, <1>3
  <2> QED
    BY <2>1, <1>2, <1>4, <1>6 DEF AvbRxInv, TypeOK
<1>11. Window'
  BY <1>2, <1>6, <1>8 DEF AvbRxInv, Window, Advance
<1>12. Arrived'
  <2>1. \A f \in Frames : fate'[f] = "wire" <=> f > n + 1
    BY <1>3, <1>5, <1>7
  <2>2. dma'.left > 0 => /\ frames' # <<>> /\ fate'[n + 1] = "ring" /\ dma'.left <= frames'[n + 1].descs
    BY <1>3, <1>4, <1>5, <1>6
  <2> QED
    BY <2>1, <2>2, <1>2, <1>3, <1>4 DEF Arrived, n
<1>13. \A s \in Slots : Filled(s) => mem[s] \in 1 .. n /\ mem[s] \in Frames
  BY <1>2, <1>3 DEF AvbRxInv, Contents, Frames, n
<1>14. Contents'
  <2> SUFFICES ASSUME NEW s \in Slots, Filled(s)
               PROVE  (/\ mem[s] \in 1 .. Len(frames) /\ fate[mem[s]] = "ring"
                       /\ IF desc[s].ld THEN desc[s].es = frames[mem[s]].es ELSE frames[mem[s]].es
                       /\ dma.left > 0 /\ desc[s].ld => mem[s] < Len(frames))'
    BY <1>8 DEF Contents
  <2>1. /\ mem[s] \in 1 .. n /\ mem[s] \in Frames /\ fate[mem[s]] = "ring"
        /\ IF desc[s].ld THEN desc[s].es = frames[mem[s]].es ELSE frames[mem[s]].es
    BY <1>13 DEF AvbRxInv, Contents
  <2>2. mem[s] \in 1 .. n + 1 /\ mem[s] < n + 1 /\ fate'[mem[s]] = "ring" /\ frames'[mem[s]] = frames[mem[s]]
    BY <2>1, <1>3, <1>4, <1>5
  <2> QED
    BY <2>1, <2>2, <1>2, <1>4
<1>15. InOrder'
  BY <1>2, <1>8 DEF AvbRxInv, InOrder
<1>16. Located'
  BY <1>2, <1>8, <1>9 DEF AvbRxInv, Located
<1>17. List'
  <2>1. ASSUME NEW i \in DOMAIN read.list
        PROVE  LET s == read.list[i] IN mem[s] \in Frames /\ fate'[mem[s]] = "stack"
    <3>1. mem[read.list[i]] \in Frames /\ fate[mem[read.list[i]]] = "stack"
      BY DEF AvbRxInv, List
    <3>2. mem[read.list[i]] # n + 1
      BY <3>1, <1>3, <1>7
    <3> QED
      BY <3>1, <3>2, <1>5
  <2> QED
    BY <2>1, <1>2, <1>8 DEF AvbRxInv, List
<1>18. Wake'
  BY <1>2, <1>9 DEF AvbRxInv, Wake, Pending
<1> QED
  BY <1>10, <1>11, <1>12, <1>14, <1>15, <1>16, <1>17, <1>18 DEF AvbRxInv

\* What the descriptor the channel writes does to the window.
LEMMA WrittenNext ==
    ASSUME AvbRxInv, DmaData
    PROVE  /\ dma.idx \in Slots /\ From(dma.idx) = Written /\ desc[dma.idx].own
           /\ Written \in 0 .. RX_DESC_CNT - 1
           /\ \A s : From(s)' = From(s)
           /\ Behind' = Behind /\ Written' = Written + 1
           /\ \A s \in Slots : Filled(s)' <=> Filled(s) \/ s = dma.idx
           /\ ~Filled(dma.idx)
           /\ Window'
<1> DEFINE x == dma.idx
<1> USE AvbRxAssumption
<1>1. /\ desc[x].own /\ dma' = [dma EXCEPT !.idx = Advance(@, 1), !.left = @ - 1]
      /\ UNCHANGED <<pc, cur_rx, dirty_rx, skb_realloc_idx, read>>
      /\ desc' = [desc EXCEPT ![x] = [own |-> FALSE, ld |-> dma.left = 1,
                                      es |-> dma.left = 1 /\ frames[Len(frames)].es]]
  BY DEF DmaData, Usable, ring
<1>2. /\ x \in Slots /\ desc \in [Slots -> DescType] /\ dma \in DmaType /\ skb_realloc_idx \in Slots
  BY DEF AvbRxInv, TypeOK, DmaType
<1>3. /\ From(x) = Written /\ Written \in 0 .. RX_DESC_CNT - 1 /\ Behind \in 0 .. Written
      /\ \A s \in Slots : From(s) \in 0 .. RX_DESC_CNT - 1 /\ (From(s) = Written <=> s = x)
  <2>1. From(x) = Written
    BY <1>1 DEF Written
  <2> QED
    BY <2>1, <1>2, Numbers
<1>4. dma'.idx = Advance(x, 1) /\ dma'.idx \in Slots
  BY <1>1, <1>2, AdvanceSmall DEF DmaType
<1>5. (\A s : From(s)' = From(s)) /\ Behind' = Behind
  BY <1>1 DEF From, Dist, Behind
<1>6. \A s \in Slots : desc'[s].own = IF s = x THEN FALSE ELSE desc[s].own
  BY <1>1, <1>2 DEF DescType
<1> HIDE DEF x
<1>7. x = Advance(skb_realloc_idx, Written) /\ dma'.idx = Advance(skb_realloc_idx, Written + 1)
  <2>1. x = Advance(skb_realloc_idx, Written)
    BY DEF AvbRxInv, Window, x
  <2> QED
    BY <2>1, <1>2, <1>3, <1>4, AdvanceNext
<1>8. Written' = Written + 1
  <2>1. CASE Written + 1 < RX_DESC_CNT
    <3>1. From(dma'.idx) = Written + 1
      BY <2>1, <1>2, <1>3, <1>7, DistAdvance DEF From
    <3>2. dma'.idx # x
      BY <3>1, <1>3 DEF x
    <3>3. desc[dma'.idx].own
      BY <3>1, <1>3, <1>4 DEF AvbRxInv, Window
    <3>4. desc'[dma'.idx].own
      BY <3>2, <3>3, <1>4, <1>6
    <3>5. Written' = Dist(skb_realloc_idx', dma'.idx)
      BY <3>4 DEF Written, From, Dist
    <3> QED
      BY <3>1, <3>5, <1>1 DEF From
  <2>2. CASE Written + 1 = RX_DESC_CNT
    <3>1. dma'.idx = skb_realloc_idx
      BY <2>2, <1>2, <1>7, AdvanceSmall DEF Slots
    <3>2. ~desc'[dma'.idx].own
      <4>1. From(skb_realloc_idx) = 0 /\ 0 < Written
        BY <2>2, Numbers
      <4>2. ~desc[skb_realloc_idx].own
        BY <4>1, <1>2, <1>3 DEF AvbRxInv, Window
      <4> QED
        BY <3>1, <4>2, <1>2, <1>6
    <3> QED
      BY <3>2, <2>2 DEF Written
  <2> QED
    BY <2>1, <2>2, <1>3
<1>9. \A s \in Slots : Filled(s)' <=> Filled(s) \/ s = x
  BY <1>3, <1>5, <1>8 DEF Filled
<1>10. ~Filled(x)
  BY <1>3 DEF Filled
<1>11. Window'
  <2>1. \A s \in Slots : desc'[s].own <=> From(s) >= Written + 1
    <3> SUFFICES ASSUME NEW s \in Slots PROVE desc'[s].own <=> From(s) >= Written + 1
      OBVIOUS
    <3>1. desc[s].own <=> From(s) >= Written
      BY DEF AvbRxInv, Window
    <3>2. CASE s = x
      <4>1. desc'[s].own = FALSE
        BY <3>2, <1>6
      <4>2. ~(From(s) >= Written + 1)
        BY <3>2, <1>3
      <4> QED
        BY <4>1, <4>2
    <3>3. CASE s # x
      <4>1. desc'[s].own = desc[s].own
        BY <3>3, <1>6
      <4>2. From(s) >= Written <=> From(s) >= Written + 1
        BY <3>3, <1>3
      <4> QED
        BY <4>1, <4>2, <3>1
    <3> QED
      BY <3>2, <3>3
  <2>2. cur_rx' = Advance(skb_realloc_idx', Behind')
    BY <1>1, <1>5 DEF AvbRxInv, Window
  <2>3. Behind' <= Written'
    BY <1>3, <1>5, <1>8
  <2>4. dma'.idx = Advance(skb_realloc_idx', Written')
    BY <1>1, <1>7, <1>8
  <2>5. pc' = "rearm" => read'.i <= dirty_rx' /\ read'.list = <<>>
    BY <1>1 DEF AvbRxInv, Window
  <2> QED
    BY <2>1, <2>2, <2>3, <2>4, <2>5, <1>5, <1>8 DEF Window
<1> QED
  BY <1>1, <1>2, <1>3, <1>5, <1>8, <1>9, <1>10, <1>11 DEF x

LEMMA DmaDataStep == ASSUME AvbRxInv, DmaData PROVE AvbRxInv'
<1> DEFINE x == dma.idx
           n == Len(frames)
           last == dma.left = 1
<1> USE AvbRxAssumption
<1>1. /\ dma.left > 0 /\ mem' = [mem EXCEPT ![x] = n] /\ ri' = (ri \/ last)
      /\ desc' = [desc EXCEPT ![x] = [own |-> FALSE, ld |-> last, es |-> last /\ frames[n].es]]
      /\ dma' = [dma EXCEPT !.idx = Advance(@, 1), !.left = @ - 1]
      /\ UNCHANGED <<pc, cur_rx, dirty_rx, skb_realloc_idx, pkt_present, read, isr, rie, rx_sem,
                     frames, fate, signals>>
  BY DEF DmaData, ring
<1>2. /\ x \in Slots /\ From(x) = Written /\ Written \in Nat /\ ~Filled(x)
      /\ (\A s : From(s)' = From(s)) /\ Behind' = Behind
      /\ \A s \in Slots : Filled(s)' <=> Filled(s) \/ s = x
      /\ Window'
  BY WrittenNext
<1>3. /\ dma \in DmaType /\ desc \in [Slots -> DescType] /\ mem \in [Slots -> 0 .. NumFrames]
      /\ frames \in Seq(Kinds) /\ ri \in BOOLEAN
      /\ \A s \in Slots : From(s) \in Nat
  BY Numbers DEF AvbRxInv, TypeOK
<1>4. /\ n \in 1 .. NumFrames /\ n \in Frames /\ fate[n] = "ring"
      /\ frames[n].es \in BOOLEAN /\ frames[n].descs \in Nat /\ dma.left <= frames[n].descs
      /\ frames[n].descs > 1 => frames[n].es
  <2>1. frames # <<>> /\ n <= NumFrames /\ fate[n] = "ring" /\ dma.left <= frames[n].descs
    BY <1>1 DEF AvbRxInv, Arrived
  <2>2. n \in 1 .. NumFrames /\ frames[n] \in Kinds
    BY <2>1, <1>3
  <2> QED
    BY <2>1, <2>2 DEF KindType, Frames
<1>5. /\ dma'.left = dma.left - 1 /\ dma.left \in Nat \ {0} /\ dma' \in DmaType
      /\ dma'.idx = Advance(x, 1)
  <2>1. dma.left \in Nat /\ dma.left > 0
    BY <1>1, <1>3 DEF DmaType
  <2>2. Advance(x, 1) \in Slots
    BY <1>2, AdvanceSmall
  <2>3. dma' = [idx |-> Advance(x, 1), run |-> dma.run, tail |-> dma.tail, left |-> dma.left - 1]
    BY <1>1, <1>3 DEF DmaType
  <2>4. dma.run \in BOOLEAN /\ dma.tail \in Slots /\ dma.left - 1 \in Nat
    BY <2>1, <1>3 DEF DmaType
  <2> QED
    BY <2>1, <2>2, <2>3, <2>4 DEF DmaType
<1> HIDE DEF x, n
<1>6. /\ \A s \in Slots : s # x => desc'[s] = desc[s] /\ mem'[s] = mem[s]
      /\ mem'[x] = n /\ desc'[x].ld = last /\ desc'[x].es = (last /\ frames[n].es)
  BY <1>1, <1>2, <1>3
<1>7. TypeOK'
  <2>1. desc' \in [Slots -> DescType] /\ mem' \in [Slots -> 0 .. NumFrames]
    <3>1. [own |-> FALSE, ld |-> last, es |-> last /\ frames[n].es] \in DescType
      BY <1>4 DEF DescType
    <3>2. desc' \in [Slots -> DescType]
      BY <3>1, <1>1, <1>3
    <3>3. n \in 0 .. NumFrames
      BY <1>4
    <3> QED
      BY <3>2, <3>3, <1>1, <1>3
  <2>2. ri' \in BOOLEAN
    BY <1>1, <1>3
  <2> QED
    BY <2>1, <2>2, <1>1, <1>5 DEF AvbRxInv, TypeOK
<1>8. Arrived'
  <2>1. dma'.left > 0 => dma'.left <= frames[n].descs
    BY <1>4, <1>5
  <2> QED
    BY <2>1, <1>1, <1>4, <1>5 DEF AvbRxInv, Arrived, n
<1>9. \A s \in Slots : Filled(s) => /\ s # x /\ mem[s] \in 1 .. n /\ fate[mem[s]] = "ring"
                                    /\ desc[s].ld => mem[s] < n
  BY <1>1, <1>2 DEF AvbRxInv, Contents, n
<1>10. Contents'
  <2> SUFFICES ASSUME NEW s \in Slots, Filled(s) \/ s = x
               PROVE  (/\ mem[s] \in 1 .. Len(frames) /\ fate[mem[s]] = "ring"
                       /\ IF desc[s].ld THEN desc[s].es = frames[mem[s]].es ELSE frames[mem[s]].es
                       /\ dma.left > 0 /\ desc[s].ld => mem[s] < Len(frames))'
    BY <1>2 DEF Contents
  <2>1. CASE s = x
    <3>1. mem'[s] = n /\ n \in 1 .. n /\ fate'[n] = "ring"
      BY <2>1, <1>1, <1>4, <1>6
    <3>2. IF desc'[s].ld THEN desc'[s].es = frames[n].es ELSE frames[n].es
      <4>1. CASE last
        BY <4>1, <2>1, <1>4, <1>6
      <4>2. CASE ~last
        <5>1. frames[n].descs > 1
          BY <4>2, <1>4, <1>5
        <5> QED
          BY <5>1, <4>2, <2>1, <1>4, <1>6
      <4> QED
        BY <4>1, <4>2
    <3>3. ~(dma'.left > 0 /\ desc'[s].ld)
      <4>1. dma'.left > 0 => ~last
        BY <1>5
      <4>2. desc'[s].ld = last
        BY <2>1, <1>6
      <4> QED
        BY <4>1, <4>2
    <3> QED
      BY <3>1, <3>2, <3>3, <1>1 DEF n
  <2>2. CASE s # x
    <3>1. Filled(s) /\ desc'[s] = desc[s] /\ mem'[s] = mem[s]
      BY <2>2, <1>6
    <3>2. IF desc[s].ld THEN desc[s].es = frames[mem[s]].es ELSE frames[mem[s]].es
      BY <3>1 DEF AvbRxInv, Contents
    <3> QED
      BY <3>1, <3>2, <1>1, <1>9 DEF n
  <2> QED
    BY <2>1, <2>2
<1>11. InOrder'
  <2> SUFFICES ASSUME NEW s \in Slots, NEW t \in Slots, Filled(s) \/ s = x, Filled(t) \/ t = x,
                      From(s) < From(t)
               PROVE  mem'[s] <= mem'[t] /\ (desc'[s].ld => mem'[s] < mem'[t])
    BY <1>2 DEF InOrder
  <2>1. s # x /\ Filled(s) /\ desc'[s] = desc[s] /\ mem'[s] = mem[s]
    <3>1. s # x
      <4>1. CASE s = x
        <5>1. t # x /\ Filled(t)
          BY <4>1, <1>2
        <5>2. From(t) < Written
          BY <5>1 DEF Filled
        <5> QED
          BY <5>2, <4>1, <1>2, <1>3
      <4> QED
        BY <4>1
    <3> QED
      BY <3>1, <1>6
  <2>2. CASE t = x
    BY <2>1, <2>2, <1>4, <1>6, <1>9
  <2>3. CASE t # x
    <3>1. Filled(t) /\ mem'[t] = mem[t]
      BY <2>3, <1>6
    <3> QED
      BY <3>1, <2>1 DEF AvbRxInv, InOrder
  <2> QED
    BY <2>2, <2>3
<1>12. \A f \in Frames : Completed(f)' <=> Completed(f) \/ (last /\ f = n)
  <2> SUFFICES ASSUME NEW f \in Frames PROVE Completed(f)' <=> Completed(f) \/ (last /\ f = n)
    OBVIOUS
  <2>1. Completed(f)' <=> fate[f] = "ring" /\ (f < n \/ last)
    BY <1>1, <1>5 DEF Completed, n
  <2>2. Completed(f) <=> fate[f] = "ring" /\ f < n
    BY <1>5 DEF Completed, n
  <2>3. fate[f] = "ring" => f <= n
    BY <1>4 DEF AvbRxInv, Arrived, n, Frames
  <2> QED
    BY <2>1, <2>2, <2>3, <1>4 DEF Frames
<1>13. Located'
  <2> SUFFICES ASSUME NEW f \in Frames, Completed(f) \/ (last /\ f = n)
               PROVE  \E s \in Slots : (Filled(s) \/ s = x) /\ desc'[s].ld /\ mem'[s] = f
    BY <1>2, <1>12 DEF Located
  <2>1. CASE Completed(f)
    <3>1. PICK s \in Slots : Filled(s) /\ desc[s].ld /\ mem[s] = f
      BY <2>1 DEF AvbRxInv, Located
    <3> QED
      BY <3>1, <1>6, <1>9
  <2>2. CASE last /\ f = n
    BY <2>2, <1>2, <1>6
  <2> QED
    BY <2>1, <2>2
<1>14. List'
  <2>1. ASSUME NEW i \in DOMAIN read.list
        PROVE  LET s == read.list[i] IN
               From(s) < Behind /\ mem'[s] \in Frames /\ fate[mem'[s]] = "stack"
    <3>1. /\ read.list[i] \in Slots /\ From(read.list[i]) < Behind
          /\ mem[read.list[i]] \in Frames /\ fate[mem[read.list[i]]] = "stack"
      BY DEF AvbRxInv, List, TypeOK, ReadType
    <3>2. read.list[i] # x
      BY <3>1, <1>2, Numbers
    <3> QED
      BY <3>1, <3>2, <1>6
  <2> QED
    BY <2>1, <1>1, <1>2 DEF AvbRxInv, List
<1>15. Wake'
  <2>1. (\E f \in Frames : Completed(f)') => (\E f \in Frames : Completed(f)) \/ last
    BY <1>12
  <2>2. last => ri'
    BY <1>1
  <2>3. ri => ri'
    BY <1>1
  <2> QED
    BY <2>1, <2>2, <2>3, <1>1 DEF AvbRxInv, Wake, Pending
<1> QED
  BY <1>2, <1>7, <1>8, <1>10, <1>11, <1>13, <1>14, <1>15 DEF AvbRxInv

LEMMA InvStep == ASSUME AvbRxInv, FewBad, [Next]_vars PROVE AvbRxInv'
<1>1. CASE Read
  BY <1>1, ReadCallStep, ReadMoveStep, ReadGoodStep, ReadBadStep, ReadEndStep DEF Read
<1>2. CASE ReadSignal
  BY <1>2, ReadMoveStep
<1>3. CASE Rearm
  BY <1>3, ReadDoneStep, RearmOneStep, RearmEndStep DEF Rearm
<1>4. CASE Isr \/ Dma
  BY <1>4, IsrStep, DmaDataStep DEF Dma
<1>5. CASE Wire
  BY <1>5, ArrivesStep DEF Wire
<1>6. CASE UNCHANGED vars
  <2>1. UNCHANGED <<pc, desc, cur_rx, dirty_rx, skb_realloc_idx, pkt_present, read, isr, ri, rie,
                    rx_sem, dma, frames, fate, mem, signals>>
    BY <1>6 DEF vars, ring, irq, wire
  <2>2. Behind' = Behind
    BY <2>1 DEF Behind
  <2>3. /\ Window' /\ Arrived' /\ Contents' /\ InOrder' /\ Located'
        /\ \A f \in Frames : Completed(f)' <=> Completed(f)
    <3>1. pc' = "rearm" => read'.i <= dirty_rx' /\ read'.list = <<>>
      BY <2>1 DEF AvbRxInv, Window
    <3> QED
      BY <2>1, <2>2, <3>1, RingStays
  <2>4. List'
    BY <2>1, <2>2, ListStays
  <2>5. TypeOK' /\ Wake'
    BY <2>1, <2>3 DEF AvbRxInv, TypeOK, Wake, Pending
  <2> QED
    BY <2>3, <2>4, <2>5 DEF AvbRxInv
<1> QED
  BY <1>1, <1>2, <1>3, <1>4, <1>5, <1>6 DEF Next

-----------------------------------------------------------------------------
(* What follows for the program.                                           *)

\* Everything below rests on this invariant.
THEOREM ReaderInvariant == Spec /\ []FewBad => []AvbRxInv
<1>1. Init => AvbRxInv
  BY InvInit
<1>2. AvbRxInv /\ FewBad /\ [Next]_vars => AvbRxInv'
  BY InvStep
<1> QED
  BY <1>1, <1>2, PTL DEF Spec

LEMMA RingOfInv == ASSUME AvbRxInv PROVE RingKept
<1> USE AvbRxAssumption
<1>1. Behind = IF pc = "rearm" THEN dirty_rx - read.i ELSE dirty_rx
  BY DEF Behind
<1>2. cur_rx = Advance(skb_realloc_idx, Behind)
  BY DEF AvbRxInv, Window
<1>3. ASSUME NEW k \in 0 .. Behind - 1 PROVE ~desc[Advance(skb_realloc_idx, k)].own
  <2>1. k \in 0 .. RX_DESC_CNT - 1 /\ k < Behind /\ skb_realloc_idx \in Slots
    BY Numbers
  <2>2. Advance(skb_realloc_idx, k) \in Slots /\ From(Advance(skb_realloc_idx, k)) = k
    BY <2>1, AdvanceSmall, DistAdvance DEF From
  <2>3. ~(k >= Written)
    BY <2>1, Numbers
  <2> QED
    BY <2>2, <2>3 DEF AvbRxInv, Window
<1> QED
  BY <1>1, <1>2, <1>3 DEF AvbRxInv, RingKept, WindowKept

\* The counters of read and read_done agree about the ring: the descriptors
\* between skb_realloc_idx and cur_rx are the process's, whatever the channel,
\* the service routine and signals do meanwhile.
THEOREM ReaderRingKept == Spec /\ []FewBad => []RingKept
<1>1. AvbRxInv => RingKept
  BY RingOfInv
<1> QED
  BY <1>1, ReaderInvariant, PTL

LEMMA ListOfInv == ASSUME AvbRxInv PROVE ListIntact
<1> SUFFICES ASSUME NEW n \in DOMAIN read.list
             PROVE  ~desc[read.list[n]].own /\ fate[mem[read.list[n]]] = "stack"
  BY DEF AvbRxInv, List, ListIntact
<1>1. read.list[n] \in Slots /\ From(read.list[n]) < Behind /\ fate[mem[read.list[n]]] = "stack"
  BY DEF AvbRxInv, List, TypeOK, ReadType
<1>2. ~(From(read.list[n]) >= Written)
  BY <1>1, Numbers, AvbRxAssumption
<1> QED
  BY <1>1, <1>2 DEF AvbRxInv, Window

\* The packets a read returned are distinct and stay in their buffers until
\* read_done: the channel does not own any of their descriptors.
THEOREM ReaderListIntact == Spec /\ []FewBad => []ListIntact
<1>1. AvbRxInv => ListIntact
  BY ListOfInv
<1> QED
  BY <1>1, ReaderInvariant, PTL

\* A process that sleeps while a frame is complete will be woken.
THEOREM ReaderWakeUpPending == Spec /\ []FewBad => []WakeUpPending
<1>1. AvbRxInv => WakeUpPending
  BY DEF AvbRxInv, Wake, Pending, WakeUpPending
<1> QED
  BY <1>1, ReaderInvariant, PTL

-----------------------------------------------------------------------------
(* The refinement.                                                         *)

Bad == {f \in DOMAIN frames : fate[f] # "wire" /\ frames[f].es}

LEMMA FifoInit == Init => Fifo!Init
BY DEF Init, Fifo!Init

\* The reader takes the oldest frame there is.
LEMMA OldestRead ==
    ASSUME AvbRxInv, FewBad, Available, Consume, UNCHANGED desc, desc[cur_rx].ld,
           NEW where \in {"stack", "lost"}, fate' = [fate EXCEPT ![mem[cur_rx]] = where]
    PROVE  /\ mem[cur_rx] \in Frames /\ Fifo!Move(mem[cur_rx], "ring", where)
           /\ mem[cur_rx] \in Bad <=> desc[cur_rx].es
           /\ UNCHANGED Bad
<1> DEFINE g == mem[cur_rx]
<1>1. /\ Filled(cur_rx) /\ cur_rx \in Slots /\ From(cur_rx) = Behind
      /\ g \in Frames /\ fate[g] = "ring"
  BY ConsumeFacts, ConsumeFrames
<1>2. /\ g \in 1 .. Len(frames) /\ desc[cur_rx].es = frames[g].es
      /\ frames \in Seq(Kinds) /\ frames' = frames
      /\ fate \in [Frames -> {"wire", "ring", "stack", "lost"}]
  BY <1>1 DEF AvbRxInv, Contents, TypeOK, Consume
<1>3. ASSUME NEW f \in Frames, f < g PROVE fate[f] # "ring"
  <2> SUFFICES ASSUME fate[f] = "ring" PROVE FALSE
    OBVIOUS
  <2>1. Completed(f)
    BY <1>2, <1>3, AvbRxAssumption DEF Completed, Frames
  <2>2. PICK s \in Slots : Filled(s) /\ mem[s] = f
    BY <2>1 DEF AvbRxInv, Located
  <2>3. s # cur_rx /\ Behind <= From(s)
    BY <2>2, <1>2, <1>3, AvbRxAssumption DEF Filled, Frames
  <2>4. From(cur_rx) < From(s)
    BY <2>3, <1>1, Numbers
  <2>5. g <= f
    BY <2>2, <2>4, <1>1 DEF AvbRxInv, InOrder
  <2> QED
    BY <2>5, <1>2, <1>3, AvbRxAssumption DEF Frames
<1> HIDE DEF g
<1>4. Fifo!Move(g, "ring", where)
  BY <1>1, <1>3 DEF Fifo!Move, Fifo!Oldest, g
<1>5. g \in Bad <=> desc[cur_rx].es
  BY <1>1, <1>2 DEF Bad
<1>6. UNCHANGED Bad
  <2>1. \A f \in DOMAIN frames : fate'[f] # "wire" <=> fate[f] # "wire"
    <3>1. \A f \in Frames : fate'[f] = IF f = g THEN where ELSE fate[f]
      BY <1>1, <1>2 DEF g
    <3>2. DOMAIN frames \subseteq Frames
      BY <1>2, AvbRxAssumption DEF AvbRxInv, Arrived, Frames
    <3> QED
      BY <3>1, <3>2, <1>1
  <2> QED
    BY <2>1, <1>2 DEF Bad
<1> QED
  BY <1>1, <1>4, <1>5, <1>6 DEF g

\* The MAC lets a frame into the ring or drops it.
LEMMA NewestArrives ==
    ASSUME AvbRxInv, NEW k \in Kinds, NEW where, Arrives(k, where), where \in {"ring", "lost"}
    PROVE  \E f \in Frames : Fifo!Move(f, "wire", where) /\ (Bad' = Bad \/ Bad' = Bad \cup {f})
<1> DEFINE n == Len(frames)
<1> USE AvbRxAssumption
<1>1. /\ n < NumFrames /\ n \in Nat /\ frames \in Seq(Kinds)
      /\ frames' = Append(frames, k) /\ fate' = [fate EXCEPT ![n + 1] = where]
      /\ fate \in [Frames -> {"wire", "ring", "stack", "lost"}]
  BY DEF Arrives, AvbRxInv, TypeOK
<1>2. n + 1 \in Frames /\ \A f \in Frames : f \in Nat /\ (fate[f] = "wire" <=> f > n)
  BY <1>1 DEF Frames, AvbRxInv, Arrived
<1>3. /\ DOMAIN frames' = 1 .. n + 1 /\ DOMAIN frames = 1 .. n
      /\ \A f \in 1 .. n : frames'[f] = frames[f] /\ f # n + 1 /\ f \in Frames
  BY <1>1 DEF Frames
<1> HIDE DEF n
<1>4. Fifo!Move(n + 1, "wire", where)
  BY <1>1, <1>2 DEF Fifo!Move, Fifo!Oldest
<1>5. Bad' = Bad \/ Bad' = Bad \cup {n + 1}
  <2>1. Bad' = {f \in 1 .. n + 1 : fate'[f] # "wire" /\ frames'[f].es}
    BY <1>3 DEF Bad
  <2>2. Bad = {f \in 1 .. n : fate[f] # "wire" /\ frames[f].es}
    BY <1>3 DEF Bad
  <2>3. \A f \in 1 .. n : f \in Bad' <=> f \in Bad
    <3>1. \A f \in 1 .. n : fate'[f] = fate[f] /\ f \in 1 .. n + 1
      BY <1>1, <1>3
    <3> QED
      BY <3>1, <2>1, <2>2, <1>3
  <2>4. Bad \subseteq 1 .. n /\ Bad' \subseteq (1 .. n) \cup {n + 1}
    BY <2>1, <2>2, <1>1
  <2> QED
    BY <2>3, <2>4
<1> QED
  BY <1>2, <1>4, <1>5

LEMMA FifoStep == ASSUME AvbRxInv, FewBad, [Next]_vars PROVE [Fifo!Next]_<<fate, Bad>>
<1>1. CASE ReadGood
  <2>1. /\ Available /\ Consume /\ UNCHANGED desc /\ desc[cur_rx].ld /\ ~desc[cur_rx].es
        /\ fate' = [fate EXCEPT ![mem[cur_rx]] = "stack"]
    BY <1>1 DEF ReadGood, Good
  <2>2. /\ mem[cur_rx] \in Frames /\ Fifo!Move(mem[cur_rx], "ring", "stack")
        /\ mem[cur_rx] \notin Bad /\ UNCHANGED Bad
    BY <2>1, OldestRead
  <2>3. Fifo!Deliver(mem[cur_rx])
    BY <2>2 DEF Fifo!Deliver, Bad
  <2> QED
    BY <2>2, <2>3 DEF Fifo!Next
<1>2. CASE ReadBad /\ desc[cur_rx].ld
  <2>1. /\ Available /\ Consume /\ UNCHANGED desc /\ desc[cur_rx].ld /\ desc[cur_rx].es
        /\ fate' = [fate EXCEPT ![mem[cur_rx]] = "lost"]
    BY <1>2 DEF ReadBad, Good
  <2>2. /\ mem[cur_rx] \in Frames /\ Fifo!Move(mem[cur_rx], "ring", "lost")
        /\ mem[cur_rx] \in Bad /\ UNCHANGED Bad
    BY <2>1, OldestRead
  <2>3. Fifo!Discard(mem[cur_rx])
    BY <2>2 DEF Fifo!Discard, Bad
  <2> QED
    BY <2>2, <2>3 DEF Fifo!Next
<1>3. ASSUME NEW k \in Kinds, FrameEnters(k) PROVE Fifo!Next
  <2>1. PICK f \in Frames : Fifo!Move(f, "wire", "ring") /\ (Bad' = Bad \/ Bad' = Bad \cup {f})
    BY <1>3, NewestArrives DEF FrameEnters
  <2>2. Fifo!Enter(f)
    BY <2>1 DEF Fifo!Enter, Fifo!Judged, Bad
  <2> QED
    BY <2>2 DEF Fifo!Next
<1>4. ASSUME NEW k \in Kinds, FrameMissed(k) PROVE Fifo!Next
  <2>1. PICK f \in Frames : Fifo!Move(f, "wire", "lost") /\ (Bad' = Bad \/ Bad' = Bad \cup {f})
    BY <1>4, NewestArrives DEF FrameMissed
  <2>2. Fifo!Miss(f)
    BY <2>1 DEF Fifo!Miss, Fifo!Judged, Bad
  <2> QED
    BY <2>2 DEF Fifo!Next
<1>5. CASE ~ReadGood /\ ~(ReadBad /\ desc[cur_rx].ld) /\ ~Wire
  <2>1. UNCHANGED <<fate, frames>>
    BY <1>5 DEF Next, Read, Rearm, Isr, Dma, ReadCall, ReadWoken, ReadSignal, ReadFailed, ReadBad,
           ReadEnd, Consume, ReadDone, RearmOne, RearmEnd, IsrStart, IsrClear, IsrMask, IsrUp,
           DmaSuspend, DmaData, vars, wire
  <2> QED
    BY <2>1 DEF Bad
<1> QED
  BY <1>1, <1>2, <1>3, <1>4, <1>5 DEF Wire

\* The ring and its reader implement the queue of RxFifo: the process gets the
\* frames in the order they arrived, each once and none with an error.
THEOREM ReaderImplementsFifo == Spec /\ []FewBad => ImplementsFifo
<1>1. Init => Fifo!Init
  BY FifoInit
<1>2. AvbRxInv /\ FewBad /\ [Next]_vars => [Fifo!Next]_<<fate, Bad>>
  BY FifoStep
<1> QED
  BY <1>1, <1>2, ReaderInvariant, PTL DEF Spec, ImplementsFifo, Fifo!Spec, Bad

-----------------------------------------------------------------------------
(* Without bad frames the condition always holds.                          *)

NoBad ==
    /\ \A f \in DOMAIN frames : ~frames[f].es
    /\ pc \in {"call", "wait", "failed"} => dirty_rx = 0
    /\ pc \in {"wait", "failed"} => read.list = <<>>
    /\ pc = "loop" => dirty_rx = Len(read.list)

LEMMA NoBadFew == ASSUME AvbRxInv, NoBad PROVE FewBad
BY AvbRxAssumption DEF AvbRxInv, TypeOK, ReadType, NoBad, FewBad

\* The MAC lets no frame with an error in if MaxBad is zero.
LEMMA NoneBad ==
    ASSUME MaxBad = 0, AvbRxInv, NEW k \in Kinds, NEW where, Arrives(k, where)
    PROVE  ~k.es
<1> DEFINE S == {f \in DOMAIN frames : frames[f].es}
<1>1. k.es => Cardinality(S) < 0
  BY DEF Arrives
<1>2. IsFiniteSet(DOMAIN frames)
  <2>1. DOMAIN frames = 1 .. Len(frames) /\ Len(frames) \in Nat
    BY DEF AvbRxInv, TypeOK
  <2> QED
    BY <2>1, FS_Interval
<1>3. Cardinality(S) \in Nat
  BY <1>2, FS_Subset, FS_CardinalityType
<1> QED
  BY <1>1, <1>3

LEMMA NoBadStep == ASSUME MaxBad = 0, AvbRxInv, NoBad, [Next]_vars PROVE NoBad'
<1> USE AvbRxAssumption
<1>1. CASE ReadCall
  BY <1>1 DEF NoBad, ReadCall, ring, wire
<1>2. CASE ReadWoken \/ ReadSignal \/ ReadFailed
  BY <1>2 DEF NoBad, ReadWoken, ReadSignal, ReadFailed, ring, wire
<1>3. CASE ReadGood
  <2>1. pc = "loop" /\ pc' = pc /\ frames' = frames /\ dirty_rx' = dirty_rx + 1
        /\ read' = [read EXCEPT !.list = Append(@, cur_rx)]
    BY <1>3 DEF ReadGood, Available, Consume
  <2>2. read.list \in Seq(Slots) /\ cur_rx \in Slots /\ read'.list = Append(read.list, cur_rx)
    BY <2>1 DEF AvbRxInv, TypeOK, ReadType
  <2>3. Len(read'.list) = Len(read.list) + 1
    BY <2>2
  <2> QED
    BY <2>1, <2>3 DEF NoBad
<1>4. ~ReadBad
  <2> SUFFICES ASSUME ReadBad PROVE FALSE
    OBVIOUS
  <2>1. /\ Available /\ Consume /\ UNCHANGED desc /\ FewBad /\ ~(~desc[cur_rx].es /\ desc[cur_rx].ld)
    BY NoBadFew DEF ReadBad, Good
  <2>2. Filled(cur_rx) /\ cur_rx \in Slots
    BY <2>1, ConsumeFacts
  <2>3. /\ mem[cur_rx] \in DOMAIN frames
        /\ IF desc[cur_rx].ld THEN desc[cur_rx].es = frames[mem[cur_rx]].es
                              ELSE frames[mem[cur_rx]].es
    BY <2>2 DEF AvbRxInv, Contents, TypeOK
  <2> QED
    BY <2>1, <2>3 DEF NoBad
<1>5. CASE ReadEnd \/ Rearm \/ Isr \/ Dma \/ UNCHANGED vars
  BY <1>5 DEF NoBad, ReadEnd, Rearm, ReadDone, RearmOne, RearmEnd, Isr, IsrStart, IsrClear, IsrMask,
              IsrUp, Dma, DmaSuspend, DmaData, ring, wire, irq, vars
<1>6. ASSUME NEW k \in Kinds, FrameEnters(k) \/ FrameMissed(k) PROVE NoBad'
  <2>1. /\ frames' = Append(frames, k) /\ ~k.es
        /\ UNCHANGED <<pc, dirty_rx, read>>
    BY <1>6, NoneBad DEF FrameEnters, FrameMissed, Arrives, ring
  <2>2. frames \in Seq(Kinds)
    BY DEF AvbRxInv, TypeOK
  <2>3. \A f \in DOMAIN frames' : ~frames'[f].es
    BY <2>1, <2>2 DEF NoBad
  <2> QED
    BY <2>1, <2>3 DEF NoBad
<1> QED
  BY <1>1, <1>2, <1>3, <1>4, <1>5, <1>6 DEF Next, Read, Wire

\* With good frames only, nothing has to be assumed: the counters agree, the
\* packets of a read stay intact, and the queue of RxFifo is implemented.
THEOREM GoodFramesOnly ==
    ASSUME MaxBad = 0
    PROVE  Spec => []RingKept /\ []ListIntact /\ []WakeUpPending /\ ImplementsFifo
<1>1. Init => AvbRxInv /\ NoBad
  BY InvInit DEF Init, NoBad
<1>2. AvbRxInv /\ NoBad /\ [Next]_vars => (AvbRxInv /\ NoBad)'
  BY InvStep, NoBadStep, NoBadFew
<1>3. AvbRxInv /\ NoBad => FewBad
  BY NoBadFew
<1>4. Spec => []FewBad
  BY <1>1, <1>2, <1>3, PTL DEF Spec
<1> QED
  BY <1>4, ReaderRingKept, ReaderListIntact, ReaderWakeUpPending, ReaderImplementsFifo, PTL

=============================================================================
