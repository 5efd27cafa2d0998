------------------------------ MODULE RxChain ------------------------------
(***************************************************************************)
(* One receive queue of the kernel driver in its two modes with paged      *)
(* buffers: jumbo frames (clean_jumbo_rx_irq, two pages to a descriptor)   *)
(* and header split (clean_split_hdr_rx_irq, an skb for the header and one *)
(* page).  A frame may fill several descriptors; the skb of the first one  *)
(* collects the pages of all of them, and waits in skb_top, between polls  *)
(* too, until the last.                                                    *)
(*                                                                         *)
(* The DMA honours the OWN bit; that it also stops at the tail pointer     *)
(* only delays it, so the tail pointer is left to RxRing, which has the    *)
(* liveness of the queue.  The skb always has room for the Ethernet header *)
(* pskb_may_pull wants and the MAC drops shorter frames: that call does    *)
(* not fail.  MCRxChain has the unit of the lengths.                       *)
(*                                                                         *)
(* A build that keeps the read through NULL of get_rx_hwtstamp stops a     *)
(* poll that takes a stamped frame (RxStampOops of RxRing): the properties *)
(* here are safety properties, which a poll that stops cannot break.       *)
(***************************************************************************)
EXTENDS Integers, Sequences, SequencesExt

CONSTANTS
    RX_DESC_CNT,        \* descriptors in the ring
    MIN_RX_DESC_CNT,    \* consumed descriptors that force a refill
    Quota,              \* the share of the NAPI budget of this queue
    BufLen,             \* rx_buffer_len: bytes in a page
    HdrSize,            \* rx_hdr_size: bytes of a frame that is not split in its skb
    Copybreak,          \* frames up to this length are copied
    Tailroom,           \* if the skb has room: the bytes an empty one has
    U16,                \* lengths are computed modulo this, 2^16
    Modes,              \* the receive modes: "jumbo", "split"
    Kinds,              \* the frames that may arrive, see KindType
    NumFrames,          \* bound: frames that arrive
    MaxLost,            \* bound: descriptors failed refills leave behind
    MaxRestarts,        \* bound: restarts of the device
    MaxLates            \* bound: time stamps that are late

\* hl: the header length the DMA reports, 0 if it did not split; stamp: the MAC
\* took a time stamp, written to a context descriptor after the frame.
KindType == [len : Nat \ {0}, hl : Nat, es : BOOLEAN, stamp : BOOLEAN]

ASSUME ChainAssumption ==
    /\ RX_DESC_CNT \in Nat /\ MIN_RX_DESC_CNT \in Nat \ {0}
    /\ MaxLost + MIN_RX_DESC_CNT < RX_DESC_CNT
    /\ {Quota, BufLen, HdrSize, U16} \subseteq Nat \ {0}
    /\ {Copybreak, Tailroom, NumFrames, MaxLost, MaxRestarts, MaxLates} \subseteq Nat
    /\ Copybreak < BufLen /\ HdrSize < BufLen
    /\ Modes \subseteq {"jumbo", "split"}
    /\ Kinds \subseteq KindType

Slots == 0 .. RX_DESC_CNT - 1

VARIABLES
    mode,           \* pdata->clean_rx and alloc_rx_buf
    pc,             \* where the poll is: "idle", "loop", "refill"
    poll,           \* its locals
    desc,           \* the descriptor ring, in memory shared with the DMA
    buf,            \* rx_buf_ptrs: skb, page and page2, 0 for NULL
    cur_rx, dirty_rx, skb_realloc_idx,
    skb_top,        \* the skb that collects a chain, 0 for NULL
    skbs,           \* every skb allocated so far
    pages,          \* what each page allocated so far contains
    dma,            \* the DMA channel
    frames,         \* the frames that arrived
    gone,           \* history: frames a restart took out of the ring
    delivered,      \* what DWC_ETH_QOS_receive_skb gave the stack
    lost            \* history: descriptors failed refills have left behind

ring == <<cur_rx, dirty_rx, skb_realloc_idx>>
heap == <<skbs, pages>>
wire == <<dma, frames, gone>>
vars == <<mode, pc, poll, desc, buf, ring, skb_top, heap, wire, delivered, lost>>

-----------------------------------------------------------------------------
Advance(i, k) == IF i + k >= RX_DESC_CNT THEN i + k - RX_DESC_CNT ELSE i + k

\* An skb: what its own memory holds, how much of it, its pages and its len.
NoData   == <<0, 0>>
EmptySkb == [data |-> NoData, put |-> 0, frags |-> <<>>, len |-> 0]

Lesser(a, b) == IF a < b THEN a ELSE b

\* skb_put.
Put(skb, n) == [skb EXCEPT !.put = @ + n, !.len = @ + n]

\* skb_fill_page_desc for a page with n bytes, and consume_page for them.
AddPage(skb, page, n) == [skb EXCEPT !.frags = Append(@, page), !.len = @ + n]

Page1(b) == [b EXCEPT !.page = 0]
Page2(b) == [b EXCEPT !.page2 = 0]
NoSkb(b) == [b EXCEPT !.skb = 0]

-----------------------------------------------------------------------------
(* The poll: clean_jumbo_rx_irq and clean_split_hdr_rx_irq.                *)

\* intermediate_desc_cnt and hdr_len are locals: each poll starts them at 0.
PollStart ==
    /\ pc = "idle" /\ pc' = "loop"
    /\ poll' = [poll EXCEPT !.received = 0, !.cnt = 0, !.hdr = 0]
    /\ UNCHANGED <<mode, desc, buf, ring, skb_top, heap, wire, delivered, lost>>

Available == pc = "loop" /\ poll.received < Quota /\ ~desc[cur_rx].own

D == desc[cur_rx]
B == buf[cur_rx]

\* The header length is read from the first descriptor of a frame only.
HdrLen == IF mode = "split" /\ D.fd THEN D.hl ELSE poll.hdr

\* Mutant: the refill waits for one descriptor more.
NextDescriptorLate(received, cnt, hdr, taken) ==
    LET locals == [poll EXCEPT !.received = received, !.cnt = cnt, !.hdr = hdr]
    IN  /\ dirty_rx' = dirty_rx + taken
        /\ IF dirty_rx + taken > MIN_RX_DESC_CNT
           THEN /\ pc' = "refill"
                /\ poll' = [locals EXCEPT !.i = 0, !.then = "loop"]
                /\ cur_rx' = Advance(cur_rx, taken - 1)
           ELSE /\ pc' = "loop"
                /\ poll' = locals
                /\ cur_rx' = Advance(cur_rx, taken)

\* dirty_rx += taken, a refill if that makes enough of them, then cur_rx++.
NextDescriptor(received, cnt, hdr, taken) ==
    LET locals == [poll EXCEPT !.received = received, !.cnt = cnt, !.hdr = hdr]
    IN  /\ dirty_rx' = dirty_rx + taken
        /\ IF dirty_rx + taken >= MIN_RX_DESC_CNT
           THEN /\ pc' = "refill"
                /\ poll' = [locals EXCEPT !.i = 0, !.then = "loop"]
                /\ cur_rx' = Advance(cur_rx, taken - 1)
           ELSE /\ pc' = "loop"
                /\ poll' = locals
                /\ cur_rx' = Advance(cur_rx, taken)

\* Mutant: the chain that ends in error stays in skb_top.
RxBadKeepsTop ==
    /\ Available /\ D.es /\ D.ld
    /\ NextDescriptor(poll.received, poll.cnt, HdrLen, 1)
    /\ UNCHANGED <<mode, desc, buf, skb_realloc_idx, skb_top, heap, wire, delivered, lost>>

\* The last descriptor of a bad frame: its buffers stay with it, a chain that
\* was collected is freed.  The locals of the chain are not reset.
RxBad ==
    /\ Available /\ D.es /\ D.ld
    /\ skb_top' = 0
    /\ NextDescriptor(poll.received, poll.cnt, HdrLen, 1)
    /\ UNCHANGED <<mode, desc, buf, skb_realloc_idx, heap, wire, delivered, lost>>

\* The skb of the first descriptor with all the descriptor's bytes.
Started(skb) ==
    IF mode = "jumbo" THEN AddPage(AddPage(skb, B.page, BufLen), B.page2, BufLen)
    ELSE IF HdrLen > 0 THEN AddPage(Put(skb, HdrLen), B.page2, BufLen)
    ELSE AddPage(Put(skb, HdrSize), B.page2, D.len - HdrSize)

\* Mutant: the first page of a pair stays with the descriptor.
ConsumedOne(b) == Page2(b)

Consumed(b) == IF mode = "jumbo" THEN Page1(Page2(b)) ELSE Page2(b)

\* The beginning of a chain: its skb goes to skb_top.
RxFirst ==
    /\ Available /\ ~D.ld /\ D.fd
    /\ skb_top' = B.skb
    /\ skbs' = [skbs EXCEPT ![B.skb] = Started(@)]
    /\ buf' = [buf EXCEPT ![cur_rx] = NoSkb(Consumed(@))]
    /\ NextDescriptor(poll.received, poll.cnt + 1, HdrLen, 1)
    /\ UNCHANGED <<mode, desc, skb_realloc_idx, pages, wire, delivered, lost>>

\* The middle of a chain: only the pages go.
RxMiddle ==
    /\ Available /\ ~D.ld /\ ~D.fd
    /\ skbs' = [skbs EXCEPT ![skb_top] =
                   IF mode = "jumbo"
                   THEN AddPage(AddPage(@, B.page, BufLen), B.page2, BufLen)
                   ELSE AddPage(@, B.page2, BufLen)]
    /\ buf' = [buf EXCEPT ![cur_rx] = Consumed(@)]
    /\ NextDescriptor(poll.received, poll.cnt + 1, HdrLen, 1)
    /\ UNCHANGED <<mode, desc, skb_realloc_idx, skb_top, pages, wire, delivered, lost>>

\* What the end of a chain adds: the length in the last descriptor is that of
\* the frame, and BufLen is subtracted for each descriptor before it.
Rest ==
    LET before == BufLen * poll.cnt
        split  == IF HdrLen > 0 THEN HdrLen ELSE HdrSize
    IN  (D.len - before - IF mode = "split" THEN split ELSE 0) % U16

\* The buffers of a last descriptor with n bytes added to the skb.
Ended(skb, n) ==
    IF mode = "split" THEN AddPage(skb, B.page2, n)
    ELSE IF n > BufLen THEN AddPage(AddPage(skb, B.page, BufLen), B.page2, n - BufLen)
    ELSE AddPage(skb, B.page, n)

EndConsumed(b, n) ==
    IF mode = "jumbo" /\ n <= BufLen THEN Page1(b) ELSE Consumed(b)

\* A small jumbo frame is copied if the skb has the room: an skb kept for a late
\* time stamp has less.
Copied(skb) == D.len <= Copybreak /\ skb.put + D.len <= Tailroom

\* A frame that fits its descriptor, in the skb of the descriptor.  The pages of
\* a copied frame stay.
Whole(skb) ==
    LET hdr == IF HdrLen > 0 THEN HdrLen ELSE Lesser(HdrSize, D.len)
    IN  IF mode = "jumbo"
        THEN IF Copied(skb)
             THEN [Put(skb, D.len) EXCEPT !.data = pages[B.page]]
             ELSE Ended(skb, D.len)
        ELSE IF HdrLen > 0 \/ D.len > HdrSize
             THEN AddPage(Put(skb, hdr), B.page2, D.len - hdr)
             ELSE Put(skb, D.len)

\* Mutant: the pages of a frame that fits its descriptor stay with it.
WholeConsumedNone(b) == b

WholeConsumed(b) ==
    IF mode = "jumbo"
    THEN IF Copied(skbs[b.skb]) THEN b ELSE EndConsumed(b, D.len)
    ELSE IF HdrLen > 0 \/ D.len > HdrSize THEN Page2(b) ELSE b

\* The code at rx_tstmp_failed, which the end of the loop falls into.
LoopEnds(dirty) ==
    IF dirty > 0
    THEN pc' = "refill" /\ poll' = [poll EXCEPT !.i = 0, !.then = "idle"]
    ELSE pc' = "idle" /\ UNCHANGED poll

\* The descriptor after this one holds the time stamp.
StampReady == LET next == desc[Advance(cur_rx, 1)] IN ~next.own /\ next.ctxt

\* Mutant: the error summary is not looked at.
GoodIfLast == Available /\ D.ld

Good == Available /\ ~D.es /\ D.ld

\* The skb that holds the whole frame now, and what is left of the descriptor's
\* buffers.  At the end of a chain the descriptor keeps its own skb.
Complete ==
    IF D.fd THEN [skb |-> B.skb, new |-> Whole(skbs[B.skb]), left |-> NoSkb(WholeConsumed(B))]
            ELSE [skb |-> skb_top, new |-> Ended(skbs[skb_top], Rest), left |-> EndConsumed(B, Rest)]

\* The stack gets the frame, with its time stamp if it has one.
RxGood ==
    /\ Good /\ (D.stamp => StampReady)
    /\ skb_top' = IF D.fd THEN skb_top ELSE 0
    /\ skbs' = [skbs EXCEPT ![Complete.skb] = Complete.new]
    /\ buf' = [buf EXCEPT ![cur_rx] = Complete.left]
    /\ delivered' = Append(delivered, [of |-> D.of, len |-> D.len, skb |-> Complete.skb, mode |-> mode])
    /\ NextDescriptor(poll.received + 1, 0, 0, IF D.stamp THEN 2 ELSE 1)
    /\ UNCHANGED <<mode, desc, skb_realloc_idx, pages, wire, lost>>

\* The time stamp is late: the skb goes to the descriptor and the poll ends with
\* cur_rx and dirty_rx as they were; the pages are in the skb already.
RxLate ==
    /\ Good /\ D.stamp /\ ~StampReady
    /\ dma.lates < MaxLates
    /\ dma' = [dma EXCEPT !.lates = @ + 1]
    /\ skb_top' = IF D.fd THEN skb_top ELSE 0
    /\ skbs' = [skbs EXCEPT ![Complete.skb] = Complete.new]
    /\ buf' = [buf EXCEPT ![cur_rx] = [Complete.left EXCEPT !.skb = Complete.skb]]
    /\ LoopEnds(dirty_rx)
    /\ UNCHANGED <<mode, desc, ring, pages, frames, gone, delivered, lost>>

RxEnd ==
    /\ pc = "loop" /\ (poll.received >= Quota \/ desc[cur_rx].own)
    /\ LoopEnds(dirty_rx)
    /\ UNCHANGED <<mode, desc, buf, ring, skb_top, heap, wire, delivered, lost>>

-----------------------------------------------------------------------------
(* re_alloc_skb, with alloc_jumbo_rx_buf and alloc_split_hdr_rx_buf.       *)

\* What of a buffer is missing: its skb, the jumbo page, page2.  They are allocated
\* in this order.
Missing(b) == [skb |-> b.skb = 0, page |-> mode = "jumbo" /\ b.page = 0, page2 |-> b.page2 = 0]

\* Those of the first n of the three that are missing are allocated, the kept skb
\* is trimmed.
Allocate(i, n) ==
    LET b     == buf[i]
        skb   == IF Missing(b).skb /\ n >= 1 THEN Len(skbs) + 1 ELSE b.skb
        page  == IF Missing(b).page /\ n >= 2 THEN Len(pages) + 1 ELSE b.page
        page2 == IF Missing(b).page2 /\ n >= 3
                 THEN Len(pages) + (IF page # b.page THEN 2 ELSE 1) ELSE b.page2
    IN  /\ buf' = [buf EXCEPT ![i] = [skb |-> skb, page |-> page, page2 |-> page2]]
        /\ skbs' = IF skb # b.skb THEN Append(skbs, EmptySkb)
                   ELSE [s \in DOMAIN skbs |->
                            IF s = skb THEN [skbs[s] EXCEPT !.put = 0, !.len = 0] ELSE skbs[s]]
        /\ pages' = pages \o (IF page # b.page THEN <<NoData>> ELSE <<>>)
                         \o (IF page2 # b.page2 THEN <<NoData>> ELSE <<>>)

\* rx_descriptor_reset.
Armed(b) == [own |-> TRUE, addr |-> b, fd |-> FALSE, ld |-> FALSE, es |-> FALSE,
             ctxt |-> FALSE, stamp |-> FALSE, len |-> 0, hl |-> 0, of |-> 0]

RefillOne ==
    /\ pc = "refill" /\ poll.i < dirty_rx
    /\ Allocate(skb_realloc_idx, 3)
    /\ desc' = [desc EXCEPT ![skb_realloc_idx] = Armed(buf'[skb_realloc_idx])]
    /\ skb_realloc_idx' = Advance(skb_realloc_idx, 1)
    /\ poll' = [poll EXCEPT !.i = @ + 1]
    /\ UNCHANGED <<mode, pc, cur_rx, dirty_rx, skb_top, wire, delivered, lost>>

\* Mutant: the end of the poll moves on as well.
RefillLeftOn ==
    /\ dirty_rx' = 0
    /\ pc' = poll.then
    /\ cur_rx' = Advance(cur_rx, 1)
    /\ UNCHANGED <<mode, poll, desc, skb_realloc_idx, skb_top, wire, delivered>>

\* Back to the loop, which moves on, or to the end of the poll.
RefillLeft ==
    /\ dirty_rx' = 0
    /\ pc' = poll.then
    /\ cur_rx' = IF poll.then = "loop" THEN Advance(cur_rx, 1) ELSE cur_rx
    /\ UNCHANGED <<mode, poll, desc, skb_realloc_idx, skb_top, wire, delivered>>

RefillEnd ==
    /\ pc = "refill" /\ poll.i = dirty_rx
    /\ RefillLeft
    /\ UNCHANGED <<buf, heap, lost>>

\* An allocation fails, those before it stay with the buffer: the loop breaks
\* and the descriptors that were not refilled are forgotten.
RefillFails ==
    /\ pc = "refill" /\ poll.i < dirty_rx
    /\ LET missing == Missing(buf[skb_realloc_idx])
       IN  \/ missing.skb /\ Allocate(skb_realloc_idx, 0)
           \/ missing.page /\ Allocate(skb_realloc_idx, 1)
           \/ missing.page2 /\ Allocate(skb_realloc_idx, 2)
    /\ lost' = lost + dirty_rx - poll.i
    /\ lost' <= MaxLost
    /\ RefillLeft

-----------------------------------------------------------------------------
(* stop_dev and start_dev, as DWC_ETH_QOS_config_rx_split_hdr_mode and     *)
(* change_mtu call them.                                                   *)

\* wrapper_rx_descriptor_init: new buffers for every descriptor, none of them
\* one of the s skbs or p pages there were.
NewBuffers(m, s, p) ==
    [i \in Slots |-> [skb   |-> s + i + 1,
                      page  |-> IF m = "jumbo" THEN p + 2 * i + 2 ELSE 0,
                      page2 |-> p + 2 * i + 1]]

NewSkbs  == [s \in 1 .. RX_DESC_CNT |-> EmptySkb]
NewPages == [p \in 1 .. 2 * RX_DESC_CNT |-> NoData]

\* With NAPI disabled no poll is in progress.  rx_skb_free_mem drops the chain
\* in skb_top with the buffers; what was in the ring is gone.
Restart(m) ==
    /\ pc = "idle" /\ dma.restarts < MaxRestarts
    /\ mode' = m
    /\ buf' = NewBuffers(m, Len(skbs), Len(pages))
    /\ desc' = [i \in Slots |-> Armed(buf'[i])]
    /\ skbs' = skbs \o NewSkbs /\ pages' = pages \o NewPages
    /\ cur_rx' = 0 /\ dirty_rx' = 0 /\ skb_realloc_idx' = 0
    /\ skb_top' = 0
    /\ dma' = [dma EXCEPT !.idx = 0, !.left = 0, !.part = 0, !.owes = FALSE, !.restarts = @ + 1]
    /\ gone' = DOMAIN frames /\ lost' = 0
    /\ UNCHANGED <<pc, poll, frames, delivered>>

-----------------------------------------------------------------------------
(* The MAC and the receive DMA channel.                                    *)

FrameArrives(k) ==
    /\ dma.left = 0 /\ ~dma.owes /\ Len(frames) < NumFrames
    /\ mode = "jumbo" => k.hl = 0
    /\ frames' = Append(frames, k)
    /\ dma' = [dma EXCEPT !.left = k.len, !.part = 0]
    /\ UNCHANGED <<mode, pc, poll, desc, buf, ring, skb_top, heap, gone, delivered, lost>>

F == Len(frames)
K == frames[F]

\* What goes into the first buffer of a descriptor, and into the second.
First ==
    IF mode = "jumbo" THEN Lesser(BufLen, dma.left)
    ELSE IF dma.part > 0 THEN 0
    ELSE IF K.hl > 0 THEN K.hl ELSE Lesser(HdrSize, dma.left)

Second == Lesser(BufLen, dma.left - First)

\* Each buffer gets the next part of the frame.  PL in the descriptor counts
\* the bytes of the frame so far.
DmaData ==
    /\ dma.left > 0 /\ desc[dma.idx].own
    /\ LET addr == desc[dma.idx].addr
           n1   == IF First > 0 THEN dma.part + 1 ELSE dma.part
           n2   == IF Second > 0 THEN n1 + 1 ELSE n1
           rest == dma.left - First - Second
       IN  /\ desc' = [desc EXCEPT ![dma.idx] =
                          [own |-> FALSE, addr |-> addr, fd |-> dma.part = 0, ld |-> rest = 0,
                           es |-> rest = 0 /\ K.es, ctxt |-> FALSE,
                           stamp |-> rest = 0 /\ K.stamp, len |-> K.len - rest,
                           hl |-> IF dma.part = 0 THEN K.hl ELSE 0, of |-> F]]
           /\ pages' = [p \in DOMAIN pages |->
                            IF p = addr.page2 /\ Second > 0 THEN <<F, n2>>
                            ELSE IF p = addr.page /\ First > 0 THEN <<F, n1>>
                            ELSE pages[p]]
           /\ skbs' = IF mode = "split" /\ First > 0
                      THEN [skbs EXCEPT ![addr.skb].data = <<F, n1>>] ELSE skbs
           /\ dma' = [dma EXCEPT !.idx = Advance(@, 1), !.left = rest, !.part = n2,
                                 !.owes = rest = 0 /\ K.stamp]
    /\ UNCHANGED <<mode, pc, poll, buf, ring, skb_top, frames, gone, delivered, lost>>

\* The context descriptor with the time stamp.
DmaStamp ==
    /\ dma.owes /\ desc[dma.idx].own
    /\ desc' = [desc EXCEPT ![dma.idx] = [@ EXCEPT !.own = FALSE, !.ctxt = TRUE, !.of = F]]
    /\ dma' = [dma EXCEPT !.idx = Advance(@, 1), !.owes = FALSE]
    /\ UNCHANGED <<mode, pc, poll, buf, ring, skb_top, heap, frames, gone, delivered, lost>>

-----------------------------------------------------------------------------
Init ==
    /\ mode \in Modes
    /\ pc = "idle"
    /\ poll = [received |-> 0, cnt |-> 0, hdr |-> 0, i |-> 0, then |-> "idle"]
    /\ buf = NewBuffers(mode, 0, 0)
    /\ desc = [i \in Slots |-> Armed(buf[i])]
    /\ skbs = NewSkbs /\ pages = NewPages
    /\ cur_rx = 0 /\ dirty_rx = 0 /\ skb_realloc_idx = 0
    /\ skb_top = 0
    /\ dma = [idx |-> 0, left |-> 0, part |-> 0, owes |-> FALSE, restarts |-> 0, lates |-> 0]
    /\ frames = <<>> /\ gone = {} /\ delivered = <<>>
    /\ lost = 0

Rx == PollStart \/ RxBad \/ RxFirst \/ RxMiddle \/ RxGood \/ RxLate \/ RxEnd
Refill == RefillOne \/ RefillEnd \/ RefillFails
Dma == DmaData \/ DmaStamp

Next ==
    \/ Rx \/ Refill \/ Dma
    \/ \E k \in Kinds : FrameArrives(k)
    \/ \E m \in Modes : Restart(m)

Spec == Init /\ [][Next]_vars

-----------------------------------------------------------------------------
(* Type invariant and safety properties.                                   *)

\* Every variable keeps its type and the indices stay in the ring.
TypeOK ==
    /\ mode \in {"jumbo", "split"} /\ pc \in {"idle", "loop", "refill"}
    /\ poll \in [received : 0 .. Quota, cnt : Nat, hdr : Nat, i : Nat, then : {"idle", "loop"}]
    /\ DOMAIN desc = Slots /\ buf \in [Slots -> [skb : Nat, page : Nat, page2 : Nat]]
    /\ cur_rx \in Slots /\ skb_realloc_idx \in Slots
    /\ dirty_rx \in 0 .. MIN_RX_DESC_CNT + 1
    /\ skb_top \in 0 .. Len(skbs)
    /\ \A s \in DOMAIN skbs : skbs[s].len \in Nat /\ skbs[s].put \in Nat
    /\ frames \in Seq(Kinds) /\ gone \subseteq DOMAIN frames
    /\ lost \in 0 .. MaxLost

\* What is in the buffers of an skb, in the order the stack reads them.
Contents(s) ==
    (IF skbs[s].put > 0 THEN <<skbs[s].data>> ELSE <<>>)
        \o [n \in DOMAIN skbs[s].frags |-> pages[skbs[s].frags[n]]]

\* The parts 1 .. n of frame f.
PartsOf(f, n) == [k \in 1 .. n |-> <<f, k>>]

\* How many parts the DMA makes of frame f in mode m.
Count(f, m) ==
    LET k    == frames[f]
        head == IF m = "jumbo" THEN 0 ELSE IF k.hl > 0 THEN k.hl ELSE Lesser(HdrSize, k.len)
    IN  (k.len - head + BufLen - 1) \div BufLen + (IF m = "jumbo" THEN 0 ELSE 1)

\* yheader.h:867 "points to first skb in the chain": between two descriptors of
\* a frame, in the same poll or in different ones, skb_top is the skb that holds
\* all parts of the frame so far; when the poll is at the first descriptor of a
\* frame, it is NULL.
ChainHead ==
    /\ Available => (D.fd <=> skb_top = 0)
    /\ Available /\ ~D.fd =>
          \E n \in 1 .. Count(D.of, mode) : Contents(skb_top) = PartsOf(D.of, n)

\* The indices of the ring and the chain agree, across polls and restarts.
ChainKept == TypeOK /\ ChainHead

\* An skb or a page is in one place only: in one buffer of the ring, in the
\* chain, or with the stack, once; and the DMA writes only into what the ring
\* holds.
PagesApart ==
    LET given    == {delivered[n].skb : n \in DOMAIN delivered}
        held     == given \cup ({skb_top} \ {0})
        frags(s) == skbs[s].frags
        both(i)  == {buf[i].page, buf[i].page2} \ {0}
    IN  /\ \A m, n \in DOMAIN delivered : delivered[m].skb = delivered[n].skb => m = n
        /\ skb_top \notin given
        /\ \A i \in Slots, s \in held : /\ buf[i].skb # s
                                        /\ \A n \in DOMAIN frags(s) : frags(s)[n] \notin both(i)
        /\ \A r, s \in held : \A m \in DOMAIN frags(r), n \in DOMAIN frags(s) :
              frags(r)[m] = frags(s)[n] => r = s /\ m = n
        /\ \A i \in Slots : /\ buf[i].page = buf[i].page2 => buf[i].page = 0
                            /\ buf[i].skb # 0 => frags(buf[i].skb) = <<>>
                            /\ desc[i].own => desc[i].addr = buf[i]
        /\ \A i, j \in Slots : i # j => /\ buf[i].skb = buf[j].skb => buf[i].skb = 0
                                        /\ both(i) \cap both(j) = {}

\* The stack reads every part of a frame it got, in order and never written
\* again, before anything else in the skb.
WholeFrames ==
    \A n \in DOMAIN delivered :
        LET d == delivered[n]
        IN  IsPrefix(PartsOf(d.of, Count(d.of, d.mode)), Contents(d.skb))

\* A frame the poll is done with was given to the stack, unless it is bad or a
\* restart threw it away.
Accounted(h) == frames[h].es \/ h \in gone \/ \E n \in DOMAIN delivered : delivered[n].of = h

\* The frame of the descriptor the poll comes to, written or still to be.
NextFrame == IF ~D.own THEN D.of ELSE IF dma.left > 0 THEN F ELSE F + 1

\* Good frames, and no others, reach the stack, in the order of their arrival
\* and once; and no frame before the one the poll is at is left out.
InOrder ==
    /\ \A n \in DOMAIN delivered : ~frames[delivered[n].of].es
    /\ \A m, n \in DOMAIN delivered : m < n => delivered[m].of < delivered[n].of
    /\ pc # "refill" => \A h \in 1 .. NextFrame - 1 : Accounted(h)

\* The length of an skb is that of its frame.
LengthRight ==
    \A n \in DOMAIN delivered : skbs[delivered[n].skb].len = delivered[n].len

=============================================================================
