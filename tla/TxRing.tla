------------------------------- MODULE TxRing -------------------------------
(***************************************************************************)
(* One transmit queue of the kernel driver: the descriptor ring shared by  *)
(* start_xmit, tx_interrupt and the transmit DMA channel.                  *)
(*                                                                         *)
(* start_xmit and tx_interrupt both run under pdata->tx_lock; pc says who  *)
(* holds it and how far it is.  The DMA takes no lock: it only honours the *)
(* OWN bit, so its steps interleave with every descriptor write of         *)
(* pre_transmit.  The stack offers the packets 1..NumSkbs in this order    *)
(* and offers a packet again when start_xmit answered NETDEV_TX_BUSY.      *)
(***************************************************************************)
EXTENDS Integers, Sequences

CONSTANTS
    TX_DESC_CNT,    \* descriptors in the ring (512 in the driver)
    NumSkbs,        \* packets the stack offers
    Shapes,         \* the packets it may offer, see ShapeType
    MaxPieces,      \* DWC_ETH_QOS_MAX_SUPPORTED_MTU, in buffer pieces
    ContextSetup,   \* desc_data->context_setup = 1
    TagViaReg,      \* desc_data->tx_vlan_tag_via_reg = Y_TRUE
    AllocFails,     \* pskb_expand_head may fail
    MapFails        \* dma_map_single and dma_map_page may fail

\* lin: 4 KB pieces of the linear part; frags: page fragments; mss: gso_size,
\* 0 if not GSO; tag: VLAN tag, 0 if none; cloned: skb_header_cloned.
ShapeType == [lin : Nat, frags : Nat, mss : Nat, tag : Nat, cloned : BOOLEAN]

ASSUME TxAssumption ==
    /\ TX_DESC_CNT \in Nat /\ TX_DESC_CNT > 1
    /\ NumSkbs \in Nat
    /\ Shapes \subseteq ShapeType
    /\ MaxPieces \in Nat
    /\ ContextSetup \in BOOLEAN /\ TagViaReg \in BOOLEAN
    /\ AllocFails \in BOOLEAN /\ MapFails \in BOOLEAN

Slots == 0 .. TX_DESC_CNT - 1
Skbs  == 1 .. NumSkbs

VARIABLES
    pc,             \* holder of tx_lock: "idle" is free
    xm,             \* start_xmit's locals and tx_pkt_features
    desc,           \* the descriptor ring, in memory shared with the DMA
    buf,            \* tx_buf_ptrs: what the driver mapped for each descriptor
    cur_tx, dirty_tx, free_desc_cnt, tx_pkt_queued, packet_count,
    queue_stopped,  \* and netif_stop_subqueue, always set together
    default_mss, vlan_tag_id, vlan_tag_present,
    dma_cr_mss,     \* the MSS field of the channel's control register DMA_CR
    dma,            \* the DMA channel: next descriptor and latched context
    wire,           \* frames the DMA has sent
    shape,          \* what each skb looks like
    fate            \* where each skb is

ctl  == <<cur_tx, dirty_tx, free_desc_cnt, tx_pkt_queued, packet_count>>
ctx  == <<default_mss, dma_cr_mss, vlan_tag_id, vlan_tag_present>>
vars == <<pc, xm, desc, buf, ctl, queue_stopped, ctx, dma, wire, shape, fate>>

-----------------------------------------------------------------------------
(* Ring arithmetic and packet layout.                                      *)

Advance(i, k) == IF i + k >= TX_DESC_CNT THEN i + k - TX_DESC_CNT ELSE i + k

Dist(from, i) == IF i >= from THEN i - from ELSE i - from + TX_DESC_CNT

Half(n) == (n + 1) \div 2

\* Data descriptors map_skb fills: two buffer pointers in each.
DataDescs(p) == Half(p.lin) + Half(p.frags)

NoData == [of |-> 0, dma |-> 0, dma2 |-> 0, page2 |-> 0]
NoBuf  == [data |-> NoData, skb |-> 0]
NoDesc == [own |-> FALSE, ctxt |-> FALSE, fd |-> FALSE, ld |-> FALSE,
           tag |-> 0, mss |-> 0, vtir |-> FALSE, tse |-> FALSE, data |-> NoData]

\* Pieces are numbered through the packet, linear part first.  The second
\* pointer of a fragment pair is mapped from the page of the FIRST fragment.
PieceOf(p, k) ==
    IF k <= Half(p.lin)
    THEN [first |-> 2 * k - 1,
          second |-> IF 2 * k <= p.lin THEN 2 * k ELSE 0,
          page2 |-> IF 2 * k <= p.lin THEN 2 * k ELSE 0]
    ELSE LET f == 2 * (k - Half(p.lin)) - 1 IN
         [first |-> p.lin + f,
          second |-> IF f < p.frags THEN p.lin + f + 1 ELSE 0,
          page2 |-> IF f < p.frags THEN p.lin + f ELSE 0]

\* What map_skb leaves in the k-th buffer of skb s.
Mapped(s, k) ==
    LET q == PieceOf(shape[s], k) IN
    [of |-> s, dma |-> q.first, dma2 |-> q.second, page2 |-> q.page2]

\* A dma_addr_t that dma_mapping_error rejects: not zero, and not a mapping.
MapError == -1

-----------------------------------------------------------------------------
(* start_xmit up to pre_xmit: driver-private state only, under tx_lock.    *)

\* Empty and over-long skbs are dropped at the door.
Rejected(p) == LET n == p.lin + p.frags IN n = 0 \/ (p.mss = 0 /\ n > MaxPieces)

NewTag(p) == p.tag # 0 /\ (p.tag # vlan_tag_id \/ ContextSetup)

NeedsVlanCtx(p) == NewTag(p) /\ ~TagViaReg

\* Mutant: the VLAN context descriptor is not reserved.
DescsReservedNoVlan(p) == p.frags + Half(p.lin) + (IF p.mss # 0 THEN 1 ELSE 0)

DescsReserved(p) ==
    p.frags + Half(p.lin) + (IF p.mss # 0 THEN 1 ELSE 0)
                          + (IF NeedsVlanCtx(p) THEN 1 ELSE 0)

\* handle_tso answers 0, "not TSO", after it has unshared a cloned header.
TsoEnabled(p) == p.mss # 0 /\ ~p.cloned

NeedsMssCtx(x) == x.tso /\ shape[x.s].mss # default_mss

\* Mutant: a slot is kept for the VLAN context descriptor only.
FirstSlotVlanOnly(x) == IF x.vlan THEN Advance(cur_tx, 1) ELSE cur_tx

\* map_skb keeps one slot for a context descriptor, never two.
FirstSlot(x) ==
    IF x.vlan \/ NeedsMssCtx(x) THEN Advance(cur_tx, 1) ELSE cur_tx

\* Mutant: the MSS context descriptor is not subtracted.
DescsUsedNoMss(x) == DataDescs(shape[x.s]) + (IF x.vlan THEN 1 ELSE 0)

DescsUsed(x) == DataDescs(shape[x.s]) + (IF x.vlan THEN 1 ELSE 0)
                                      + (IF NeedsMssCtx(x) THEN 1 ELSE 0)

\* Mutant: default_mss is updated as early as the tag cache.
CountDescsMssToo(p) ==
    /\ vlan_tag_present' = (p.tag # 0)
    /\ vlan_tag_id' = IF NewTag(p) THEN p.tag ELSE vlan_tag_id
    /\ default_mss' = IF p.mss # 0 THEN p.mss ELSE default_mss
    /\ UNCHANGED dma_cr_mss

\* The counting of get_total_desc_cnt, which also updates the tag cache and,
\* with TagViaReg, writes it to the VLAN tag register of the MAC: vlan_tag_id is
\* then what the register holds.
CountDescs(p) ==
    /\ vlan_tag_present' = (p.tag # 0)
    /\ vlan_tag_id' = IF NewTag(p) THEN p.tag ELSE vlan_tag_id
    /\ UNCHANGED <<default_mss, dma_cr_mss>>

Drop(s) ==
    /\ fate' = [fate EXCEPT ![s] = "dropped"]
    /\ UNCHANGED <<pc, xm, desc, ctl, queue_stopped, dma, wire, shape>>

\* The next packet of the stack, with the lock free and the queue awake.
Offered(s) ==
    /\ pc = "idle" /\ ~queue_stopped
    /\ fate[s] = "stack"
    /\ \A t \in Skbs : t < s => fate[t] # "stack"

XmitReject(s) ==
    /\ Offered(s) /\ Rejected(shape[s])
    /\ Drop(s)
    /\ UNCHANGED <<buf, ctx>>

XmitBusy(s) ==
    /\ Offered(s) /\ ~Rejected(shape[s])
    /\ CountDescs(shape[s])
    /\ free_desc_cnt < DescsReserved(shape[s])
    /\ queue_stopped' = TRUE
    /\ UNCHANGED <<pc, xm, desc, buf, ctl, dma, wire, shape, fate>>

\* Mutant: the last descriptor needed is not waited for.
FitsAllButOne(s) ==
    /\ Offered(s) /\ ~Rejected(shape[s])
    /\ CountDescs(shape[s])
    /\ free_desc_cnt + 1 >= DescsReserved(shape[s])

Fits(s) ==
    /\ Offered(s) /\ ~Rejected(shape[s])
    /\ CountDescs(shape[s])
    /\ free_desc_cnt >= DescsReserved(shape[s])

XmitTsoFails(s) ==
    /\ AllocFails
    /\ shape[s].mss # 0 /\ shape[s].cloned
    /\ Fits(s)
    /\ Drop(s)
    /\ UNCHANGED buf

\* The locals once the packet passed the checks.
Locals(s) == [s |-> s, vlan |-> NeedsVlanCtx(shape[s]),
              tso |-> TsoEnabled(shape[s]), at |-> cur_tx]

\* The first or second mapping of the k-th buffer fails: the buffers before it
\* are unmapped, the k-th is left as it stands.
UndoMap(s, k, second) ==
    [i \in Slots |->
        LET d == Dist(FirstSlot(Locals(s)), i) IN
        IF d >= k THEN buf[i]
        ELSE [buf[i] EXCEPT !.data =
                IF d < k - 1 THEN NoData
                ELSE IF second THEN [Mapped(s, k) EXCEPT !.dma2 = MapError]
                ELSE [@ EXCEPT !.of = s, !.dma = MapError]]]

XmitMapFails(s) ==
    /\ MapFails
    /\ Fits(s)
    /\ \E k \in 1 .. DataDescs(shape[s]), second \in BOOLEAN :
        /\ second => Mapped(s, k).dma2 # 0
        /\ buf' = UndoMap(s, k, second)
    /\ Drop(s)

DoMap(s) ==
    [i \in Slots |->
        LET k == Dist(FirstSlot(Locals(s)), i) + 1 IN
        IF k > DataDescs(shape[s]) THEN buf[i]
        ELSE [data |-> Mapped(s, k),
              skb  |-> IF k = DataDescs(shape[s]) THEN s ELSE buf[i].skb]]

XmitMap(s) ==
    /\ Fits(s)
    /\ xm' = Locals(s)
    /\ buf' = DoMap(s)
    /\ packet_count' = DataDescs(shape[s])
    /\ free_desc_cnt' = free_desc_cnt - DescsUsed(Locals(s))
    /\ tx_pkt_queued' = tx_pkt_queued + DescsUsed(Locals(s))
    /\ pc' = "vlan"
    /\ fate' = [fate EXCEPT ![s] = "held"]
    /\ UNCHANGED <<desc, cur_tx, dirty_tx, queue_stopped, dma, wire, shape>>

-----------------------------------------------------------------------------
(* pre_transmit: the writes the DMA can see, in the order of the code.     *)

PreTransmit(here, next) ==
    /\ pc = here /\ pc' = next
    /\ UNCHANGED <<buf, dirty_tx, free_desc_cnt, tx_pkt_queued, packet_count,
                   queue_stopped, vlan_tag_id, vlan_tag_present, wire, shape, fate>>

\* The context descriptor of the VLAN tag, if this packet has one.
PreVlan ==
    /\ PreTransmit("vlan", "mss")
    /\ IF xm.vlan
       THEN /\ desc' = [desc EXCEPT ![xm.at] =
                  [@ EXCEPT !.tag = shape[xm.s].tag, !.ctxt = TRUE, !.own = TRUE]]
            /\ cur_tx' = Advance(cur_tx, 1)
       ELSE UNCHANGED <<desc, cur_tx>>
    /\ UNCHANGED <<xm, default_mss, dma_cr_mss, dma>>

\* The context descriptor of the MSS: written through TX_CONTEXT_DESC, which
\* still points where cur_tx was when pre_transmit was entered.  The MSS is
\* written to DMA_CR at once, while packets sent before are still in the ring.
PreMss ==
    /\ PreTransmit("mss", "first")
    /\ IF NeedsMssCtx(xm)
       THEN /\ desc' = [desc EXCEPT ![xm.at] =
                  [@ EXCEPT !.mss = shape[xm.s].mss, !.ctxt = TRUE, !.own = TRUE]]
            /\ default_mss' = shape[xm.s].mss
            /\ dma_cr_mss' = shape[xm.s].mss
            /\ cur_tx' = Advance(cur_tx, 1)
       ELSE UNCHANGED <<desc, default_mss, dma_cr_mss, cur_tx>>
    /\ UNCHANGED <<xm, dma>>

\* Mutant: OWN is set with the rest of the first descriptor.
PreFirstOwned ==
    /\ PreTransmit("first", "rest")
    /\ desc' = [desc EXCEPT ![cur_tx] =
          [@ EXCEPT !.data = buf[cur_tx].data, !.fd = TRUE, !.ctxt = FALSE, !.own = TRUE,
                    !.vtir = vlan_tag_present /\ ~TagViaReg, !.tse = xm.tso]]
    /\ xm' = [xm EXCEPT !.at = cur_tx]
    /\ cur_tx' = Advance(cur_tx, 1)
    /\ UNCHANGED <<default_mss, dma_cr_mss, dma>>

\* The first data descriptor, all of it but OWN.
PreFirst ==
    /\ PreTransmit("first", "rest")
    /\ desc' = [desc EXCEPT ![cur_tx] =
          [@ EXCEPT !.data = buf[cur_tx].data, !.fd = TRUE, !.ctxt = FALSE,
                    !.vtir = vlan_tag_present /\ ~TagViaReg, !.tse = xm.tso]]
    /\ xm' = [xm EXCEPT !.at = cur_tx]
    /\ cur_tx' = Advance(cur_tx, 1)
    /\ UNCHANGED <<default_mss, dma_cr_mss, dma>>

\* Mutant: the loop runs once too often.
PreRestOneMore ==
    /\ PreTransmit("rest", "own")
    /\ desc' = [i \in Slots |->
          LET d == Dist(xm.at, i) IN
          IF d \in 1 .. packet_count
          THEN [desc[i] EXCEPT !.data = buf[i].data, !.ctxt = FALSE, !.own = TRUE,
                               !.ld = (d = packet_count)]
          ELSE desc[i]]
    /\ cur_tx' = Advance(cur_tx, packet_count - 1)
    /\ UNCHANGED <<xm, default_mss, dma_cr_mss, dma>>

\* The descriptors after it, with OWN, and LD on the last one.
PreRest ==
    /\ PreTransmit("rest", "own")
    /\ desc' = [i \in Slots |->
          LET d == Dist(xm.at, i) IN
          IF d = 0 THEN [desc[i] EXCEPT !.ld = (packet_count = 1)]
          ELSE IF d < packet_count
          THEN [desc[i] EXCEPT !.data = buf[i].data, !.ctxt = FALSE, !.own = TRUE,
                               !.ld = (d = packet_count - 1)]
          ELSE desc[i]]
    /\ cur_tx' = Advance(cur_tx, packet_count - 1)
    /\ UNCHANGED <<xm, default_mss, dma_cr_mss, dma>>

\* "set OWN bit of FIRST descriptor at end to avoid race condition"
PreOwn ==
    /\ PreTransmit("own", "tail")
    /\ desc' = [desc EXCEPT ![xm.at].own = TRUE]
    /\ UNCHANGED <<xm, cur_tx, default_mss, dma_cr_mss, dma>>

\* The tail pointer write wakes a suspended channel; start_xmit unlocks.
PreTail ==
    /\ PreTransmit("tail", "idle")
    /\ dma' = [dma EXCEPT !.run = TRUE]
    /\ UNCHANGED <<xm, desc, cur_tx, default_mss, dma_cr_mss>>

-----------------------------------------------------------------------------
(* tx_interrupt, from the poll routine or from the 2 ms tx timer.          *)

CleanStart ==
    /\ pc = "idle" /\ pc' = "clean"
    /\ UNCHANGED <<xm, desc, buf, ctl, queue_stopped, ctx, dma, wire, shape, fate>>

\* What both mutants of CleanOne do as the code does.
CleanMove ==
    /\ pc = "clean" /\ tx_pkt_queued > 0
    /\ fate' = [s \in Skbs |-> IF s = buf[dirty_tx].skb THEN "freed" ELSE fate[s]]
    /\ desc' = [desc EXCEPT ![dirty_tx] = NoDesc]
    /\ dirty_tx' = Advance(dirty_tx, 1)
    /\ free_desc_cnt' = free_desc_cnt + 1 /\ tx_pkt_queued' = tx_pkt_queued - 1
    /\ UNCHANGED <<pc, xm, cur_tx, packet_count, queue_stopped, ctx, dma, wire, shape>>

\* Mutant: the OWN bit is not tested.
CleanOneBlind ==
    /\ CleanMove
    /\ buf' = [buf EXCEPT ![dirty_tx] = NoBuf]

\* Mutant: buffer->skb is not cleared.
CleanOneKeepsSkb ==
    /\ CleanMove /\ ~desc[dirty_tx].own
    /\ buf' = [buf EXCEPT ![dirty_tx].data = NoData]

\* One turn of the loop: unmap_tx_skb, tx_desc_reset, move on.
CleanOne ==
    /\ pc = "clean"
    /\ tx_pkt_queued > 0 /\ ~desc[dirty_tx].own
    /\ fate' = [s \in Skbs |-> IF s = buf[dirty_tx].skb THEN "freed" ELSE fate[s]]
    /\ buf' = [buf EXCEPT ![dirty_tx] =
          [data |-> IF @.data.dma # 0 THEN NoData ELSE @.data, skb |-> 0]]
    /\ desc' = [desc EXCEPT ![dirty_tx] = NoDesc]
    /\ dirty_tx' = Advance(dirty_tx, 1)
    /\ free_desc_cnt' = free_desc_cnt + 1
    /\ tx_pkt_queued' = tx_pkt_queued - 1
    /\ UNCHANGED <<pc, xm, cur_tx, packet_count, queue_stopped, ctx, dma, wire, shape>>

\* Mutant: an empty ring returns before the queue is woken.
CleanEndEarly ==
    /\ pc = "clean" /\ pc' = "idle"
    /\ tx_pkt_queued = 0 \/ desc[dirty_tx].own
    /\ queue_stopped' = (queue_stopped /\ (tx_pkt_queued = 0 \/ free_desc_cnt = 0))
    /\ UNCHANGED <<xm, desc, buf, ctl, ctx, dma, wire, shape, fate>>

CleanEnd ==
    /\ pc = "clean"
    /\ tx_pkt_queued = 0 \/ desc[dirty_tx].own
    /\ queue_stopped' = (queue_stopped /\ free_desc_cnt = 0)
    /\ pc' = "idle"
    /\ UNCHANGED <<xm, desc, buf, ctl, ctx, dma, wire, shape, fate>>

-----------------------------------------------------------------------------
(* The transmit DMA channel, as the driver programs it: a tag holds until    *)
(* the next context descriptor, an MSS for the frame that follows; a TSO     *)
(* frame without a context descriptor of its own takes the MSS of DMA_CR.    *)

\* The channel finds a descriptor it does not own and suspends.
DmaSuspend ==
    /\ dma.run /\ ~desc[dma.idx].own
    /\ dma' = [dma EXCEPT !.run = FALSE]
    /\ UNCHANGED <<pc, xm, desc, buf, ctl, queue_stopped, ctx, wire, shape, fate>>

DmaOwns(isCtxt) ==
    /\ dma.run
    /\ desc[dma.idx].own /\ (desc[dma.idx].ctxt <=> isCtxt)
    /\ desc' = [desc EXCEPT ![dma.idx].own = FALSE]
    /\ UNCHANGED <<pc, xm, buf, ctl, queue_stopped, ctx, shape, fate>>

DmaContext ==
    /\ DmaOwns(TRUE)
    /\ LET d == desc[dma.idx] IN
       dma' = [dma EXCEPT !.idx = Advance(@, 1),
                          !.tag = IF d.tag # 0 THEN d.tag ELSE @,
                          !.mss = IF d.mss # 0 THEN d.mss ELSE @]
    /\ UNCHANGED wire

\* What the channel settles when it reads the first descriptor d of a frame.
FrameHead(d) ==
    [tag |-> IF d.vtir THEN dma.tag ELSE 0,
     mss |-> IF ~d.tse THEN 0 ELSE IF dma.mss # 0 THEN dma.mss ELSE dma_cr_mss]

\* A data descriptor is read into the frame; LD puts the frame on the wire,
\* where with TagViaReg the MAC inserts the tag of its register.
DmaData ==
    /\ DmaOwns(FALSE)
    /\ LET d == desc[dma.idx]
           head == IF d.fd THEN FrameHead(d) ELSE dma.head
           body == Append(dma.body, d.data)
           frame == [skb |-> d.data.of, body |-> body, mss |-> head.mss,
                     tag |-> IF TagViaReg THEN vlan_tag_id ELSE head.tag]
       IN  /\ dma' = [dma EXCEPT !.idx = Advance(@, 1), !.head = head,
                                 !.mss = IF d.fd THEN 0 ELSE @,
                                 !.body = IF d.ld THEN <<>> ELSE body]
           /\ wire' = IF d.ld THEN Append(wire, frame) ELSE wire

-----------------------------------------------------------------------------
Init ==
    /\ pc = "idle"
    /\ xm = [s |-> 0, vlan |-> FALSE, tso |-> FALSE, at |-> 0]
    /\ desc = [i \in Slots |-> NoDesc]
    /\ buf = [i \in Slots |-> NoBuf]
    /\ cur_tx = 0 /\ dirty_tx = 0
    /\ free_desc_cnt = TX_DESC_CNT /\ tx_pkt_queued = 0 /\ packet_count = 0
    /\ queue_stopped = FALSE
    /\ default_mss = 0 /\ dma_cr_mss = 0
    /\ vlan_tag_id = 0 /\ vlan_tag_present = FALSE
    /\ dma = [idx |-> 0, run |-> FALSE, tag |-> 0, mss |-> 0,
              head |-> [tag |-> 0, mss |-> 0], body |-> <<>>]
    /\ wire = <<>>
    /\ shape \in [Skbs -> Shapes]
    /\ fate = [s \in Skbs |-> "stack"]

Xmit(s) == XmitReject(s) \/ XmitBusy(s) \/ XmitTsoFails(s) \/ XmitMapFails(s) \/ XmitMap(s)

\* Mutant: the tail pointer is written before OWN is set.
PreTransmitTailFirst ==
    \/ PreVlan \/ PreMss \/ PreFirst \/ PreRest
    \/ /\ PreTransmit("own", "tail")
       /\ dma' = [dma EXCEPT !.run = TRUE]
       /\ UNCHANGED <<xm, desc, cur_tx, default_mss, dma_cr_mss>>
    \/ /\ PreTransmit("tail", "idle")
       /\ desc' = [desc EXCEPT ![xm.at].own = TRUE]
       /\ UNCHANGED <<xm, cur_tx, default_mss, dma_cr_mss, dma>>

PreTransmitStep == PreVlan \/ PreMss \/ PreFirst \/ PreRest \/ PreOwn \/ PreTail
Clean == CleanStart \/ CleanOne \/ CleanEnd
Dma == DmaSuspend \/ DmaContext \/ DmaData

Next == (\E s \in Skbs : Xmit(s)) \/ PreTransmitStep \/ Clean \/ Dma

Spec == Init /\ [][Next]_vars

\* The lock is a fair spin lock, its sections run to their end, the tx timer
\* re-arms itself on every run, and a running DMA channel makes progress.
Fairness ==
    /\ SF_vars(\E s \in Skbs : Xmit(s))
    /\ WF_vars(PreTransmitStep)
    /\ SF_vars(CleanStart) /\ WF_vars(CleanOne \/ CleanEnd)
    /\ WF_vars(Dma)

FairSpec == Spec /\ Fairness

-----------------------------------------------------------------------------
(* Type invariant and safety properties.                                   *)

DataType == [of : Nat, dma : Int, dma2 : Int, page2 : Nat]
BufType  == [data : DataType, skb : Skbs \cup {0}]
DescType == [own : BOOLEAN, ctxt : BOOLEAN, fd : BOOLEAN, ld : BOOLEAN, tag : Nat,
             mss : Nat, vtir : BOOLEAN, tse : BOOLEAN, data : DataType]
XmType   == [s : Skbs \cup {0}, vlan : BOOLEAN, tso : BOOLEAN, at : Slots]
DmaType  == [idx : Slots, run : BOOLEAN, tag : Nat, mss : Nat,
             head : [tag : Nat, mss : Nat], body : Seq(DataType)]
FrameType == [skb : Nat, body : Seq(DataType), tag : Nat, mss : Nat]

\* Every variable keeps its type; indices stay in the ring and the counters
\* between 0 and TX_DESC_CNT (free_desc_cnt is unsigned in the driver).
TypeOK ==
    /\ pc \in {"idle", "vlan", "mss", "first", "rest", "own", "tail", "clean"}
    /\ xm \in XmType
    /\ desc \in [Slots -> DescType]
    /\ buf \in [Slots -> BufType]
    /\ cur_tx \in Slots /\ dirty_tx \in Slots
    /\ free_desc_cnt \in 0 .. TX_DESC_CNT /\ tx_pkt_queued \in 0 .. TX_DESC_CNT
    /\ packet_count \in 0 .. TX_DESC_CNT
    /\ queue_stopped \in BOOLEAN
    /\ default_mss \in Nat /\ dma_cr_mss \in Nat
    /\ vlan_tag_id \in Nat /\ vlan_tag_present \in BOOLEAN
    /\ dma \in DmaType
    /\ wire \in Seq(FrameType)
    /\ shape \in [Skbs -> Shapes]
    /\ fate \in [Skbs -> {"stack", "held", "freed", "dropped"}]

\* The descriptors between dirty_tx and the end of the last accepted packet.
InFlight(i) == Dist(dirty_tx, i) < tx_pkt_queued

\* Descriptors pre_transmit has still to pass for the packet in hand.
ToPass ==
    IF pc = "vlan" THEN DescsUsed(xm)
    ELSE IF pc = "mss" THEN packet_count + (IF NeedsMssCtx(xm) THEN 1 ELSE 0)
    ELSE IF pc = "first" THEN packet_count
    ELSE IF pc = "rest" THEN packet_count - 1
    ELSE 0

\* start_xmit subtracts from free_desc_cnt what tx_interrupt later adds, and
\* cur_tx advances by exactly that number although the three places count the
\* descriptors of a packet independently.
Accounting ==
    /\ free_desc_cnt + tx_pkt_queued = TX_DESC_CNT
    /\ ToPass <= tx_pkt_queued
    /\ Advance(cur_tx, ToPass) = Advance(dirty_tx, tx_pkt_queued)

\* What pre_transmit relies on while it works: the packet in hand and where its
\* context and first data descriptor are in the window.
Preparing ==
    /\ pc \in {"vlan", "mss", "first", "rest", "own"} =>
          /\ xm.s \in Skbs
          /\ packet_count = DataDescs(shape[xm.s]) /\ packet_count >= 1
    /\ pc \in {"vlan", "mss"} =>
          (xm.vlan => shape[xm.s].tag # 0 /\ ~TagViaReg) /\ (xm.tso => shape[xm.s].mss # 0)
    /\ pc = "vlan" => xm.at = cur_tx
    /\ pc = "mss" => /\ Dist(dirty_tx, xm.at) <= tx_pkt_queued - ToPass
                     /\ ~xm.vlan => xm.at = cur_tx
    /\ pc \in {"rest", "own"} => Dist(dirty_tx, xm.at) = tx_pkt_queued - packet_count

\* The DMA owns only descriptors pre_transmit has passed, and not yet the first
\* data descriptor of the packet in hand.
OwnedWritten ==
    \A i \in Slots : desc[i].own =>
        /\ Dist(dirty_tx, i) < tx_pkt_queued - ToPass
        /\ pc \in {"rest", "own"} => i # xm.at

\* The DMA owns descriptors of accepted packets only: a fresh packet is never
\* laid over descriptors the hardware has still to read.
OwnedInFlight == \A i \in Slots : desc[i].own => InFlight(i)

\* Counters, indices and OWN bits agree in every state of start_xmit,
\* pre_transmit and tx_interrupt, each of which counts descriptors for itself.
RingKept == TypeOK /\ Accounting /\ OwnedInFlight

\* Between the descriptors of one frame the DMA never meets one the driver has
\* not handed over yet (OWN of the first descriptor is set last).
WholeFrames == dma.body # <<>> => desc[dma.idx].own

\* An skb the driver holds sits in exactly one buffer of the window, and no
\* buffer refers to an skb that was already freed or dropped.
HeldOnce ==
    /\ \A i \in Slots : buf[i].skb # 0 => InFlight(i) /\ fate[buf[i].skb] = "held"
    /\ \A s \in Skbs : fate[s] = "held" =>
          \E i \in Slots : \A j \in Slots : buf[j].skb = s <=> j = i

\* A frame on the wire has the buffers of its skb, all of them, in order.
WireIntact ==
    \A n \in DOMAIN wire : \E s \in Skbs :
        /\ wire[n].skb = s
        /\ wire[n].body = [k \in 1 .. DataDescs(shape[s]) |-> Mapped(s, k)]

Accepted(s) == fate[s] \in {"held", "freed"}

\* A segment size the driver may have told the channel for packet s: that of s,
\* or of a TSO packet it accepted later.
MssFits(s, m) ==
    IF TsoEnabled(shape[s])
    THEN \E t \in Skbs : s <= t /\ Accepted(t) /\ TsoEnabled(shape[t]) /\ m = shape[t].mss
    ELSE m = 0

\* A TSO frame is never segmented with a size nobody asked for, nor with the
\* size of an earlier packet, although the driver writes context descriptor and
\* DMA_CR only when default_mss changes.  A later packet's size it may take.
WireMss ==
    \A n \in DOMAIN wire, s \in Skbs : wire[n].skb = s => MssFits(s, wire[n].mss)

\* A frame is sent whole, from its own buffers and with a segment size that is
\* not out of date, while pre_transmit writes the next ones.
FramesRight == WholeFrames /\ WireIntact /\ WireMss

\* The driver changes no descriptor that the DMA owns: what the hardware reads
\* stays as it was when OWN was set, until the hardware clears OWN.
OwnedUntouched ==
    [][\A i \in Slots :
          desc[i].own => desc'[i] \in {desc[i], [desc[i] EXCEPT !.own = FALSE]}]_vars

\* Every packet the stack offers is in the end sent and freed, or dropped,
\* however often start_xmit answers NETDEV_TX_BUSY on the way.
EveryPacketSettles ==
    \A s \in Skbs : <>(fate[s] \in {"freed", "dropped"})

\* A stopped queue is woken again.
StoppedIsWoken == queue_stopped ~> ~queue_stopped

-----------------------------------------------------------------------------
(* The channel seen from outside: packets leave in the order they came.    *)

Sent(s) == \E n \in DOMAIN wire : wire[n].skb = s

Fifo == INSTANCE TxFifo WITH
    Packets <- Skbs,
    place <- [s \in Skbs |-> IF fate[s] = "held" /\ Sent(s) THEN "sent" ELSE fate[s]]

\* The ring implements a queue that sends each accepted packet once, in order,
\* and gives its skb back only afterwards.
ImplementsFifo == Fifo!Spec

-----------------------------------------------------------------------------
(* What comments of the code say and the code does not do.                 *)

\* drv.c:1889 "we need one context descriptor to carry vlan tag info": a frame
\* is sent with the VLAN tag of its own skb.
WireTags == \A n \in DOMAIN wire : wire[n].tag = shape[wire[n].skb].tag

\* dev.c:3461 "DMA uses the MSS value programed in DMA_CR if driver doesn't
\* provided the CONTEXT descriptor": a packet is left without one because DMA_CR
\* holds its MSS, so a TSO frame is segmented with the MSS of its own skb.
WireOwnMss ==
    \A n \in DOMAIN wire :
        LET p == shape[wire[n].skb] IN wire[n].mss = IF TsoEnabled(p) THEN p.mss ELSE 0

\* desc.c:828 "keep space for CONTEXT descriptor in the RING": the slot where
\* pre_transmit writes the first data descriptor is where map_skb put the
\* packet's first buffer.
SlotKept == pc = "first" => buf[cur_tx].data = Mapped(xm.s, 1)

=============================================================================
