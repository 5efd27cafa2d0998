---------------------------- MODULE TxRingProofs ----------------------------
(***************************************************************************)
(* For every ring size, packet set and packet shapes: the ring counters,   *)
(* the window the DMA may own and the place of every skb; and, when no     *)
(* packet needs two context descriptors (OneContext), what the channel     *)
(* reads, what goes on the wire, and that the ring implements TxFifo.      *)
(***************************************************************************)
EXTENDS TxRing, TLAPS

\* Half the pieces, rounded up: the descriptors a run of buffers needs.
LEMMA HalfBounds ==
    ASSUME NEW n \in Nat
    PROVE  Half(n) \in Nat /\ Half(n) <= n /\ (n > 0 => Half(n) > 0)
BY DEF Half

\* Moving along the ring stays in the ring.
LEMMA AdvanceType ==
    ASSUME NEW i \in Slots, NEW k \in 0 .. TX_DESC_CNT
    PROVE  Advance(i, k) \in Slots
BY TxAssumption DEF Advance, Slots

LEMMA AdvanceOne ==
    ASSUME NEW i \in Slots
    PROVE  Advance(i, 1) \in Slots
BY TxAssumption DEF Advance, Slots

LEMMA AdvanceZero ==
    ASSUME NEW i \in Slots
    PROVE  Advance(i, 0) = i
BY TxAssumption DEF Advance, Slots

LEMMA DistType ==
    ASSUME NEW i \in Slots, NEW j \in Slots
    PROVE  Dist(i, j) \in Slots
BY TxAssumption DEF Dist, Slots

\* The window [from, from + n) read through Dist, for the slot that is d steps
\* before its end.
LEMMA WindowEnd ==
    ASSUME NEW cur \in Slots, NEW from \in Slots, NEW n \in 0 .. TX_DESC_CNT,
           NEW d \in 1 .. n, Advance(cur, d) = Advance(from, n)
    PROVE  Dist(from, cur) = n - d
BY TxAssumption DEF Advance, Dist, Slots

LEMMA AdvanceTwice ==
    ASSUME NEW i \in Slots, NEW j \in Nat, NEW k \in Nat, j + k <= TX_DESC_CNT
    PROVE  Advance(Advance(i, j), k) = Advance(i, j + k)
BY TxAssumption DEF Advance, Slots

\* A packet uses at most the descriptors start_xmit reserved for it, and at
\* least one of them carries data.
LEMMA ReservedCovers ==
    ASSUME TypeOK, NEW s \in Skbs, ~Rejected(shape[s])
    PROVE  /\ DataDescs(shape[s]) \in Nat /\ DataDescs(shape[s]) >= 1
           /\ DescsReserved(shape[s]) \in Nat
           /\ DescsUsed(Locals(s)) \in Nat
           /\ DescsUsed(Locals(s)) <= DescsReserved(shape[s])
           /\ DescsUsed(Locals(s)) >= DataDescs(shape[s])
<1> DEFINE p == shape[s]
<1>1. p \in ShapeType
  BY TxAssumption DEF TypeOK
<1>2. p.lin \in Nat /\ p.frags \in Nat /\ p.mss \in Nat /\ p.tag \in Nat
  BY <1>1 DEF ShapeType
<1>3. p.lin + p.frags > 0
  BY <1>2 DEF Rejected
<1>4. /\ Half(p.lin) \in Nat /\ Half(p.frags) \in Nat /\ Half(p.frags) <= p.frags
      /\ Half(p.lin) > 0 \/ Half(p.frags) > 0
  BY <1>2, <1>3, HalfBounds
<1>5. Locals(s).s = s /\ Locals(s).vlan = NeedsVlanCtx(p) /\ Locals(s).tso = TsoEnabled(p)
  BY DEF Locals
<1>6. NeedsMssCtx(Locals(s)) => p.mss # 0
  BY <1>5 DEF NeedsMssCtx, TsoEnabled
<1> QED
  BY <1>2, <1>4, <1>5, <1>6 DEF DescsUsed, DescsReserved, DataDescs

-----------------------------------------------------------------------------
(* The inductive invariant.  Accounting alone is not inductive: while       *)
(* pre_transmit runs, cur_tx lags behind the counters by ToPass, which       *)
(* depends on the packet in hand; OwnedInFlight needs the descriptors        *)
(* pre_transmit has already passed (OwnedWritten) and where the ones it is   *)
(* about to hand over lie in the window (Preparing).                         *)

TxInv == TypeOK /\ Accounting /\ OwnedWritten /\ Preparing

LEMMA NoTypes == NoData \in DataType /\ NoBuf \in BufType /\ NoDesc \in DescType
BY DEF NoData, NoBuf, NoDesc, DataType, BufType, DescType

LEMMA TxInit == Init => TxInv
<1> SUFFICES ASSUME Init PROVE TxInv
  OBVIOUS
<1> USE TxAssumption
<1>1. TypeOK
  <2>1. 0 \in Slots
    BY DEF Slots
  <2>2. xm \in XmType
    BY <2>1 DEF Init, XmType
  <2>4. dma \in DmaType
    <3>1. <<>> \in Seq(DataType)
      OBVIOUS
    <3> QED
      BY <2>1, <3>1 DEF Init, DmaType
  <2>5. wire \in Seq(FrameType)
    BY DEF Init
  <2>3. desc \in [Slots -> DescType] /\ buf \in [Slots -> BufType]
    BY NoTypes DEF Init
  <2>6. /\ pc = "idle" /\ cur_tx \in Slots /\ dirty_tx \in Slots
        /\ free_desc_cnt \in 0 .. TX_DESC_CNT /\ tx_pkt_queued \in 0 .. TX_DESC_CNT
        /\ packet_count \in 0 .. TX_DESC_CNT
    BY <2>1 DEF Init
  <2>7. /\ queue_stopped \in BOOLEAN /\ vlan_tag_present \in BOOLEAN
        /\ default_mss \in Nat /\ dma_cr_mss \in Nat /\ vlan_tag_id \in Nat
        /\ shape \in [Skbs -> Shapes]
        /\ fate \in [Skbs -> {"stack", "held", "freed", "dropped"}]
    BY DEF Init
  <2> QED
    BY <2>2, <2>3, <2>4, <2>5, <2>6, <2>7 DEF TypeOK
<1>2. Accounting
  BY DEF Init, Accounting, ToPass, Advance
<1>3. OwnedWritten
  BY DEF Init, OwnedWritten, NoDesc
<1>4. Preparing
  BY DEF Init, Preparing
<1> QED
  BY <1>1, <1>2, <1>3, <1>4 DEF TxInv

\* What map_skb stores in a buffer has the type of a buffer.
LEMMA MappedType ==
    ASSUME TypeOK, NEW s \in Skbs, NEW k \in Nat \ {0}
    PROVE  Mapped(s, k) \in DataType
<1>1. shape[s].lin \in Nat /\ shape[s].frags \in Nat
  BY TxAssumption DEF TypeOK, ShapeType
<1>2. Half(shape[s].lin) \in Nat
  BY <1>1, HalfBounds
<1> QED
  BY <1>1, <1>2, TxAssumption DEF Mapped, PieceOf, DataType, Skbs

LEMMA LocalsType ==
    ASSUME TypeOK, NEW s \in Skbs
    PROVE  Locals(s) \in XmType /\ FirstSlot(Locals(s)) \in Slots
<1>1. Locals(s) \in XmType
  BY TxAssumption DEF Locals, XmType, NeedsVlanCtx, NewTag, TsoEnabled, TypeOK, ShapeType
<1>2. FirstSlot(Locals(s)) \in Slots
  BY AdvanceType, TxAssumption DEF FirstSlot, TypeOK
<1> QED
  BY <1>1, <1>2

LEMMA UndoMapType ==
    ASSUME TypeOK, NEW s \in Skbs, NEW k \in Nat \ {0}, NEW second \in BOOLEAN
    PROVE  UndoMap(s, k, second) \in [Slots -> BufType]
<1> SUFFICES ASSUME NEW i \in Slots PROVE UndoMap(s, k, second)[i] \in BufType
  BY DEF UndoMap
<1> DEFINE d == Dist(FirstSlot(Locals(s)), i)
<1>1. buf[i] \in BufType /\ buf[i].data \in DataType
  BY DEF TypeOK, BufType
<1>2. NoData \in DataType /\ [Mapped(s, k) EXCEPT !.dma2 = MapError] \in DataType
  BY NoTypes, MappedType DEF DataType, MapError
<1>3. [buf[i].data EXCEPT !.of = s, !.dma = MapError] \in DataType
  <2>1. ASSUME NEW b \in DataType
        PROVE  [b EXCEPT !.of = s, !.dma = MapError] \in DataType
    <3>1. s \in Nat /\ MapError \in Int
      BY TxAssumption DEF Skbs, MapError
    <3> QED
      BY <3>1 DEF DataType
  <2> QED
    BY <1>1, <2>1
<1> QED
  BY <1>1, <1>2, <1>3 DEF UndoMap, BufType

LEMMA DoMapType ==
    ASSUME TypeOK, NEW s \in Skbs
    PROVE  DoMap(s) \in [Slots -> BufType]
<1> SUFFICES ASSUME NEW i \in Slots PROVE DoMap(s)[i] \in BufType
  BY DEF DoMap
<1> DEFINE k == Dist(FirstSlot(Locals(s)), i) + 1
<1>1. k \in Nat \ {0}
  <2>1. Dist(FirstSlot(Locals(s)), i) \in Slots
    BY LocalsType, DistType
  <2> QED
    BY <2>1 DEF Slots
<1>2. Mapped(s, k) \in DataType
  BY <1>1, MappedType
<1>3. buf[i] \in BufType
  BY DEF TypeOK
<1> QED
  BY <1>2, <1>3 DEF DoMap, BufType

LEMMA Elements ==
    ASSUME TypeOK
    PROVE  /\ xm.at \in Slots /\ xm.tso \in BOOLEAN /\ xm.vlan \in BOOLEAN
           /\ dma.idx \in Slots /\ cur_tx \in Slots /\ dirty_tx \in Slots
           /\ desc \in [Slots -> DescType]
           /\ \A i \in Slots : desc[i] \in DescType /\ buf[i].data \in DataType
BY DEF TypeOK, XmType, DmaType, BufType

\* The edits pre_transmit and the DMA make to a descriptor keep its type.
LEMMA DescEdits ==
    ASSUME NEW d \in DescType, NEW n \in Nat, NEW b \in BOOLEAN, NEW c \in BOOLEAN,
           NEW x \in DataType
    PROVE  /\ [d EXCEPT !.own = b] \in DescType
           /\ [d EXCEPT !.tag = n, !.ctxt = TRUE, !.own = TRUE] \in DescType
           /\ [d EXCEPT !.mss = n, !.ctxt = TRUE, !.own = TRUE] \in DescType
           /\ [d EXCEPT !.data = x, !.fd = TRUE, !.ctxt = FALSE,
                         !.vtir = b, !.tse = c] \in DescType
           /\ [d EXCEPT !.data = x, !.ctxt = FALSE, !.own = TRUE, !.ld = b] \in DescType
           /\ [d EXCEPT !.ld = b] \in DescType
<1>1. [d EXCEPT !.own = b] \in DescType
  BY DEF DescType
<1>2. [d EXCEPT !.tag = n, !.ctxt = TRUE, !.own = TRUE] \in DescType
  BY DEF DescType
<1>3. [d EXCEPT !.mss = n, !.ctxt = TRUE, !.own = TRUE] \in DescType
  BY DEF DescType
<1>4. [d EXCEPT !.data = x, !.fd = TRUE, !.ctxt = FALSE, !.vtir = b, !.tse = c] \in DescType
  BY DEF DescType
<1>5. [d EXCEPT !.data = x, !.ctxt = FALSE, !.own = TRUE, !.ld = b] \in DescType
  BY DEF DescType
<1>6. [d EXCEPT !.ld = b] \in DescType
  BY DEF DescType
<1> QED
  BY <1>1, <1>2, <1>3, <1>4, <1>5, <1>6

\* TypeOK, action by action.
LEMMA TxTypeStep == TxInv /\ [Next]_vars => TypeOK'
<1> SUFFICES ASSUME TxInv, [Next]_vars PROVE TypeOK'
  OBVIOUS
<1> USE TxAssumption DEF TxInv
<1>0. ASSUME NEW s \in Skbs, CountDescs(shape[s])
      PROVE  /\ vlan_tag_id' \in Nat /\ vlan_tag_present' \in BOOLEAN
             /\ default_mss' \in Nat /\ dma_cr_mss' \in Nat
  BY <1>0 DEF CountDescs, NewTag, TypeOK, ShapeType
<1>1. ASSUME NEW s \in Skbs, XmitReject(s) PROVE TypeOK'
  BY <1>1 DEF XmitReject, Drop, ctl, ctx, TypeOK
<1>2. ASSUME NEW s \in Skbs, XmitBusy(s) PROVE TypeOK'
  BY <1>0, <1>2 DEF XmitBusy, ctl, TypeOK
<1>3. ASSUME NEW s \in Skbs, XmitTsoFails(s) PROVE TypeOK'
  BY <1>0, <1>3 DEF XmitTsoFails, Fits, Drop, ctl, TypeOK
<1>4. ASSUME NEW s \in Skbs, XmitMapFails(s) PROVE TypeOK'
  <2>1. DataDescs(shape[s]) \in Nat
    BY <1>4, ReservedCovers DEF XmitMapFails, Fits
  <2>2. buf' \in [Slots -> BufType]
    BY <1>4, <2>1, UndoMapType DEF XmitMapFails
  <2> QED
    BY <1>0, <1>4, <2>2 DEF XmitMapFails, Fits, Drop, ctl, TypeOK
<1>5. ASSUME NEW s \in Skbs, XmitMap(s) PROVE TypeOK'
  <2>1. /\ DataDescs(shape[s]) \in Nat /\ DescsUsed(Locals(s)) \in Nat
        /\ DescsUsed(Locals(s)) <= free_desc_cnt
        /\ DataDescs(shape[s]) <= free_desc_cnt
    BY <1>5, ReservedCovers DEF XmitMap, Fits, TypeOK
  <2>2. xm' \in XmType /\ buf' \in [Slots -> BufType]
    BY <1>5, LocalsType, DoMapType DEF XmitMap
  <2>3. /\ free_desc_cnt' \in 0 .. TX_DESC_CNT /\ tx_pkt_queued' \in 0 .. TX_DESC_CNT
        /\ packet_count' \in 0 .. TX_DESC_CNT
    BY <1>5, <2>1 DEF XmitMap, TypeOK, Accounting
  <2> QED
    BY <1>0, <1>5, <2>2, <2>3 DEF XmitMap, Fits, TypeOK
<1>6. CASE PreVlan
  <2>1. ASSUME xm.vlan PROVE desc' \in [Slots -> DescType] /\ cur_tx' \in Slots
    <3>1. xm.s \in Skbs
      BY <1>6 DEF PreVlan, PreTransmit, Preparing
    <3>2. shape[xm.s].tag \in Nat
      BY <3>1 DEF TypeOK, ShapeType
    <3>3. [desc[xm.at] EXCEPT !.tag = shape[xm.s].tag, !.ctxt = TRUE, !.own = TRUE] \in DescType
      BY <3>2, Elements, DescEdits
    <3> QED
      BY <1>6, <2>1, <3>3, AdvanceOne, Elements DEF PreVlan
  <2> QED
    BY <1>6, <2>1 DEF PreVlan, PreTransmit, TypeOK
<1>7. CASE PreMss
  <2>1. ASSUME NeedsMssCtx(xm)
        PROVE /\ desc' \in [Slots -> DescType] /\ cur_tx' \in Slots
              /\ default_mss' \in Nat /\ dma_cr_mss' \in Nat
    <3>1. xm.s \in Skbs
      BY <1>7 DEF PreMss, PreTransmit, Preparing
    <3>2. shape[xm.s].mss \in Nat
      BY <3>1 DEF TypeOK, ShapeType
    <3>3. [desc[xm.at] EXCEPT !.mss = shape[xm.s].mss, !.ctxt = TRUE, !.own = TRUE] \in DescType
      BY <3>2, Elements, DescEdits
    <3> QED
      BY <1>7, <2>1, <3>2, <3>3, AdvanceOne, Elements DEF PreMss
  <2> QED
    BY <1>7, <2>1 DEF PreMss, PreTransmit, TypeOK
<1>8. CASE PreFirst
  <2>1. [desc[cur_tx] EXCEPT !.data = buf[cur_tx].data, !.fd = TRUE, !.ctxt = FALSE,
                             !.vtir = vlan_tag_present /\ ~TagViaReg,
                             !.tse = xm.tso] \in DescType
    <3>1. /\ desc[cur_tx] \in DescType /\ buf[cur_tx].data \in DataType
          /\ xm.tso \in BOOLEAN
      BY Elements
    <3>2. (vlan_tag_present /\ ~TagViaReg) \in BOOLEAN
      OBVIOUS
    <3> QED
      BY <3>1, <3>2, DescEdits
  <2>2. [xm EXCEPT !.at = cur_tx] \in XmType
    BY DEF TypeOK, XmType
  <2> QED
    <3>1. desc' \in [Slots -> DescType] /\ cur_tx' \in Slots /\ xm' \in XmType
      BY <1>8, <2>1, <2>2, AdvanceOne, Elements DEF PreFirst
    <3> QED
      BY <1>8, <3>1 DEF PreFirst, PreTransmit, TypeOK
<1>9. CASE PreRest
  <2>1. packet_count - 1 \in 0 .. TX_DESC_CNT
    <3>1. packet_count \in 0 .. TX_DESC_CNT /\ packet_count >= 1
      BY <1>9 DEF PreRest, PreTransmit, Preparing, TypeOK
    <3> QED
      BY <3>1
  <2>2. ASSUME NEW i \in Slots PROVE desc'[i] \in DescType
    <3> DEFINE d == Dist(xm.at, i)
    <3>1. desc'[i] =
            IF d = 0 THEN [desc[i] EXCEPT !.ld = (packet_count = 1)]
            ELSE IF d < packet_count
            THEN [desc[i] EXCEPT !.data = buf[i].data, !.ctxt = FALSE, !.own = TRUE,
                                 !.ld = (d = packet_count - 1)]
            ELSE desc[i]
      BY <1>9 DEF PreRest
    <3> HIDE DEF d
    <3>2. [desc[i] EXCEPT !.ld = (packet_count = 1)] \in DescType
      BY Elements, DescEdits
    <3>3. [desc[i] EXCEPT !.data = buf[i].data, !.ctxt = FALSE, !.own = TRUE,
                          !.ld = (d = packet_count - 1)] \in DescType
      BY Elements, DescEdits
    <3> QED
      BY <3>1, <3>2, <3>3, Elements
  <2>3. desc' \in [Slots -> DescType]
    BY <1>9, <2>2 DEF PreRest
  <2> QED
    BY <1>9, <2>1, <2>3, AdvanceType DEF PreRest, PreTransmit, TypeOK
<1>10. CASE PreOwn
  <2>1. [desc[xm.at] EXCEPT !.own = TRUE] \in DescType
    BY Elements, DescEdits
  <2> QED
    BY <1>10, <2>1 DEF PreOwn, PreTransmit, TypeOK
<1>11. CASE PreTail
  <2>1. [dma EXCEPT !.run = TRUE] \in DmaType
    BY DEF TypeOK, DmaType
  <2> QED
    BY <1>11, <2>1 DEF PreTail, PreTransmit, TypeOK
<1>12. CASE CleanStart
  BY <1>12 DEF CleanStart, ctl, ctx, TypeOK
<1>13. CASE CleanOne
  <2>1. [data |-> IF buf[dirty_tx].data.dma # 0 THEN NoData ELSE buf[dirty_tx].data,
         skb |-> 0] \in BufType
    BY NoTypes DEF TypeOK, BufType
  <2>2. /\ free_desc_cnt' \in 0 .. TX_DESC_CNT /\ tx_pkt_queued' \in 0 .. TX_DESC_CNT
        /\ dirty_tx' \in Slots
    BY <1>13, AdvanceType DEF CleanOne, TypeOK, Accounting
  <2>3. desc' \in [Slots -> DescType] /\ buf' \in [Slots -> BufType]
    BY <1>13, <2>1, NoTypes DEF CleanOne, TypeOK
  <2>4. fate' \in [Skbs -> {"stack", "held", "freed", "dropped"}]
    BY <1>13 DEF CleanOne, TypeOK
  <2> QED
    BY <1>13, <2>2, <2>3, <2>4 DEF CleanOne, ctx, TypeOK
<1>14. CASE CleanEnd
  BY <1>14 DEF CleanEnd, ctl, ctx, TypeOK
<1>15. CASE DmaSuspend
  <2>1. [dma EXCEPT !.run = FALSE] \in DmaType
    BY DEF TypeOK, DmaType
  <2> QED
    BY <1>15, <2>1 DEF DmaSuspend, ctl, ctx, TypeOK
<1>16. ASSUME NEW c \in BOOLEAN, DmaOwns(c)
       PROVE  desc' \in [Slots -> DescType]
  <2>1. [desc[dma.idx] EXCEPT !.own = FALSE] \in DescType
    BY Elements, DescEdits
  <2> QED
    BY <1>16, <2>1 DEF DmaOwns, TypeOK
<1>17. CASE DmaContext
  <2>1. dma' \in DmaType
    <3>1. desc[dma.idx] \in DescType /\ Advance(dma.idx, 1) \in Slots
      BY AdvanceType DEF TypeOK, DmaType
    <3> QED
      BY <1>17, <3>1 DEF DmaContext, TypeOK, DmaType, DescType
  <2> QED
    BY <1>16, <1>17, <2>1 DEF DmaContext, DmaOwns, ctl, ctx, TypeOK
<1>18. CASE DmaData
  <2>1. desc[dma.idx] \in DescType /\ Advance(dma.idx, 1) \in Slots
    BY AdvanceType DEF TypeOK, DmaType
  <2> DEFINE d == desc[dma.idx]
             head == IF d.fd THEN FrameHead(d) ELSE dma.head
             mss == IF d.fd THEN 0 ELSE dma.mss
             body == Append(dma.body, d.data)
             frame == [skb |-> d.data.of, body |-> body, mss |-> head.mss,
                       tag |-> IF TagViaReg THEN vlan_tag_id ELSE head.tag]
  <2>2. d.data \in DataType /\ mss \in Nat /\ head \in [tag : Nat, mss : Nat]
    BY <2>1 DEF TypeOK, DmaType, DescType, FrameHead
  <2>3. body \in Seq(DataType) /\ <<>> \in Seq(DataType)
    BY <2>2 DEF TypeOK, DmaType
  <2>4. frame \in FrameType
    BY <2>2, <2>3 DEF FrameType, DataType, TypeOK, DmaType
  <2>5. wire' \in Seq(FrameType)
    <3> HIDE DEF frame
    <3>1. wire' = IF d.ld THEN Append(wire, frame) ELSE wire
      BY <1>18 DEF DmaData, frame
    <3> QED
      BY <2>4, <3>1 DEF TypeOK
  <2>6. dma' \in DmaType
    <3> HIDE DEF head, mss, body
    <3>1. dma' = [dma EXCEPT !.idx = Advance(@, 1), !.head = head, !.mss = mss,
                             !.body = IF d.ld THEN <<>> ELSE body]
      BY <1>18 DEF DmaData, head, mss, body
    <3> QED
      BY <2>1, <2>2, <2>3, <3>1 DEF TypeOK, DmaType
  <2> QED
    BY <1>16, <1>18, <2>5, <2>6 DEF DmaData, DmaOwns, ctl, ctx, TypeOK
<1>19. CASE UNCHANGED vars
  BY <1>19 DEF vars, ctl, ctx, TypeOK
<1> QED
  BY <1>1, <1>2, <1>3, <1>4, <1>5, <1>6, <1>7, <1>8, <1>9, <1>10, <1>11, <1>12,
     <1>13, <1>14, <1>15, <1>17, <1>18, <1>19
  DEF Next, Xmit, PreTransmitStep, Clean, Dma

\* Accounting, action by action.
LEMMA TxAccountingStep == TxInv /\ [Next]_vars => Accounting'
<1> SUFFICES ASSUME TxInv, [Next]_vars PROVE Accounting'
  OBVIOUS
<1> USE TxAssumption DEF TxInv
<1>0. /\ free_desc_cnt \in Nat /\ tx_pkt_queued \in 0 .. TX_DESC_CNT
      /\ cur_tx \in Slots /\ dirty_tx \in Slots /\ packet_count \in 0 .. TX_DESC_CNT
      /\ free_desc_cnt + tx_pkt_queued = TX_DESC_CNT
      /\ ToPass <= tx_pkt_queued
      /\ Advance(cur_tx, ToPass) = Advance(dirty_tx, tx_pkt_queued)
  BY DEF TypeOK, Accounting
<1>1. ASSUME NEW s \in Skbs,
             XmitReject(s) \/ XmitBusy(s) \/ XmitTsoFails(s) \/ XmitMapFails(s)
      PROVE  Accounting'
  <2>1. pc = "idle" /\ UNCHANGED <<pc, ctl>>
    BY <1>1 DEF XmitReject, XmitBusy, XmitTsoFails, XmitMapFails, Fits, Offered, Drop
  <2>2. ToPass = 0 /\ ToPass' = 0
    BY <2>1 DEF ToPass
  <2> QED
    BY <1>0, <2>1, <2>2 DEF Accounting, ctl, Advance
<1>2. ASSUME NEW s \in Skbs, XmitMap(s) PROVE Accounting'
  <2> DEFINE U == DescsUsed(Locals(s))
  <2>1. U \in Nat /\ U <= free_desc_cnt
    BY <1>0, <1>2, ReservedCovers DEF XmitMap, Fits
  <2>2. ToPass = 0 /\ ToPass' = U
    BY <1>2 DEF XmitMap, Fits, Offered, CountDescs, ToPass, DescsUsed, NeedsMssCtx
  <2>3. cur_tx = Advance(dirty_tx, tx_pkt_queued)
    BY <1>0, <2>2 DEF Advance, Slots
  <2>4. Advance(cur_tx, U) = Advance(dirty_tx, tx_pkt_queued + U)
    BY <1>0, <2>1, <2>3, AdvanceTwice
  <2>5. /\ free_desc_cnt' = free_desc_cnt - U /\ tx_pkt_queued' = tx_pkt_queued + U
        /\ UNCHANGED <<cur_tx, dirty_tx>>
    BY <1>2 DEF XmitMap
  <2> HIDE DEF U
  <2> QED
    BY <1>0, <2>1, <2>2, <2>4, <2>5 DEF Accounting, Advance
<1>3. ASSUME ToPass \in 1 .. TX_DESC_CNT, cur_tx' = Advance(cur_tx, 1), ToPass' = ToPass - 1,
             UNCHANGED <<dirty_tx, free_desc_cnt, tx_pkt_queued>>
      PROVE  Accounting'
  <2>1. Advance(Advance(cur_tx, 1), ToPass - 1) = Advance(cur_tx, ToPass)
    BY <1>0, <1>3, AdvanceTwice
  <2> QED
    BY <1>0, <1>3, <2>1 DEF Accounting, Advance
<1>4. ASSUME cur_tx' = cur_tx, ToPass' = ToPass,
             UNCHANGED <<dirty_tx, free_desc_cnt, tx_pkt_queued>>
      PROVE  Accounting'
  BY <1>0, <1>4 DEF Accounting, Advance
<1>5. CASE PreVlan
  <2>1. /\ pc = "vlan" /\ pc' = "mss" /\ UNCHANGED <<xm, shape, packet_count, default_mss>>
        /\ UNCHANGED <<dirty_tx, free_desc_cnt, tx_pkt_queued>>
        /\ packet_count = DataDescs(shape[xm.s]) /\ packet_count >= 1
    BY <1>5 DEF PreVlan, PreTransmit, Preparing
  <2>2. /\ ToPass = packet_count + (IF xm.vlan THEN 1 ELSE 0) + (IF NeedsMssCtx(xm) THEN 1 ELSE 0)
        /\ ToPass' = packet_count + (IF NeedsMssCtx(xm) THEN 1 ELSE 0)
    BY <2>1 DEF ToPass, DescsUsed, NeedsMssCtx
  <2>3. CASE xm.vlan
    <3>1. ToPass \in 1 .. TX_DESC_CNT /\ ToPass' = ToPass - 1
      BY <1>0, <2>1, <2>2, <2>3
    <3> QED
      BY <1>3, <1>5, <2>1, <2>3, <3>1 DEF PreVlan
  <2>4. CASE ~xm.vlan
    BY <1>0, <1>4, <1>5, <2>1, <2>2, <2>4 DEF PreVlan
  <2> QED
    BY <2>3, <2>4
<1>6. CASE PreMss
  <2>1. /\ pc = "mss" /\ pc' = "first" /\ UNCHANGED packet_count
        /\ UNCHANGED <<dirty_tx, free_desc_cnt, tx_pkt_queued>> /\ packet_count >= 1
    BY <1>6 DEF PreMss, PreTransmit, Preparing
  <2>2. /\ ToPass = packet_count + (IF NeedsMssCtx(xm) THEN 1 ELSE 0)
        /\ ToPass' = packet_count
    BY <2>1 DEF ToPass
  <2>3. CASE NeedsMssCtx(xm)
    <3>1. ToPass \in 1 .. TX_DESC_CNT /\ ToPass' = ToPass - 1
      BY <1>0, <2>1, <2>2, <2>3
    <3> QED
      BY <1>3, <1>6, <2>1, <2>3, <3>1 DEF PreMss
  <2>4. CASE ~NeedsMssCtx(xm)
    BY <1>0, <1>4, <1>6, <2>1, <2>2, <2>4 DEF PreMss
  <2> QED
    BY <2>3, <2>4
<1>7. CASE PreFirst
  <2>1. /\ pc = "first" /\ pc' = "rest" /\ UNCHANGED packet_count
        /\ UNCHANGED <<dirty_tx, free_desc_cnt, tx_pkt_queued>> /\ packet_count >= 1
    BY <1>7 DEF PreFirst, PreTransmit, Preparing
  <2>2. ToPass = packet_count /\ ToPass' = packet_count - 1
    BY <2>1 DEF ToPass
  <2>3. ToPass \in 1 .. TX_DESC_CNT /\ ToPass' = ToPass - 1
    BY <1>0, <2>1, <2>2
  <2> QED
    BY <1>3, <1>7, <2>1, <2>3 DEF PreFirst
<1>8. CASE PreRest
  <2>1. /\ pc = "rest" /\ pc' = "own" /\ packet_count >= 1
        /\ UNCHANGED <<dirty_tx, free_desc_cnt, tx_pkt_queued>>
        /\ cur_tx' = Advance(cur_tx, packet_count - 1)
    BY <1>8 DEF PreRest, PreTransmit, Preparing
  <2>2. ToPass = packet_count - 1 /\ ToPass' = 0
    BY <2>1 DEF ToPass
  <2>3. cur_tx' \in Slots
    BY <1>0, <2>1, AdvanceType
  <2>4. Advance(cur_tx', 0) = cur_tx'
    BY <2>3, AdvanceZero
  <2> QED
    BY <1>0, <2>1, <2>2, <2>4 DEF Accounting, Advance
<1>9. CASE PreOwn \/ PreTail \/ CleanStart \/ CleanEnd
  <2>1. ToPass = 0 /\ ToPass' = 0
    BY <1>9 DEF PreOwn, PreTail, CleanStart, CleanEnd, PreTransmit, ToPass
  <2>2. cur_tx' = cur_tx /\ UNCHANGED <<dirty_tx, free_desc_cnt, tx_pkt_queued>>
    BY <1>9 DEF PreOwn, PreTail, CleanStart, CleanEnd, PreTransmit, ctl
  <2> QED
    BY <1>4, <2>1, <2>2
<1>10. CASE CleanOne
  <2>1. ToPass = 0 /\ ToPass' = 0
    BY <1>10 DEF CleanOne, ToPass
  <2>2. /\ tx_pkt_queued > 0 /\ cur_tx' = cur_tx /\ dirty_tx' = Advance(dirty_tx, 1)
        /\ free_desc_cnt' = free_desc_cnt + 1 /\ tx_pkt_queued' = tx_pkt_queued - 1
    BY <1>10 DEF CleanOne
  <2>3. Advance(Advance(dirty_tx, 1), tx_pkt_queued - 1) = Advance(dirty_tx, tx_pkt_queued)
    BY <1>0, <2>2, AdvanceTwice
  <2> QED
    BY <1>0, <2>1, <2>2, <2>3 DEF Accounting, Advance
<1>11. CASE Dma \/ UNCHANGED vars
  <2>1. UNCHANGED <<pc, xm, ctl, ctx, shape>>
    BY <1>11 DEF Dma, DmaSuspend, DmaContext, DmaData, DmaOwns, vars
  <2>2. ToPass' = ToPass
    BY <2>1 DEF ToPass, ctl, ctx, DescsUsed, NeedsMssCtx
  <2> QED
    BY <1>4, <2>1, <2>2 DEF ctl
<1> QED
  BY <1>1, <1>2, <1>5, <1>6, <1>7, <1>8, <1>9, <1>10, <1>11
  DEF Next, Xmit, PreTransmitStep, Clean

\* While pre_transmit has k descriptors to pass, cur_tx is k before the end of
\* the window, so it lies inside.
LEMMA CurInWindow ==
    ASSUME TxInv, ToPass \in Nat \ {0}
    PROVE  Dist(dirty_tx, cur_tx) = tx_pkt_queued - ToPass
BY WindowEnd DEF TxInv, TypeOK, Accounting

\* The distance grows by one with each step of the index, short of a full turn.
LEMMA DistNext ==
    ASSUME NEW from \in Slots, NEW i \in Slots, Dist(from, i) + 1 < TX_DESC_CNT
    PROVE  Dist(from, Advance(i, 1)) = Dist(from, i) + 1
BY TxAssumption DEF Dist, Advance, Slots

\* Two distances from the same slot add up.
LEMMA DistSum ==
    ASSUME NEW from \in Slots, NEW i \in Slots, NEW j \in Slots,
           Dist(from, i) + Dist(i, j) < TX_DESC_CNT
    PROVE  Dist(from, j) = Dist(from, i) + Dist(i, j)
BY TxAssumption DEF Dist, Slots

LEMMA DistZero ==
    ASSUME NEW from \in Slots, NEW i \in Slots
    PROVE  Dist(from, i) = 0 <=> i = from
BY TxAssumption DEF Dist, Slots

\* Dropping the first slot of a window moves every other one closer by one.
LEMMA DistDrop ==
    ASSUME NEW from \in Slots, NEW i \in Slots, i # from
    PROVE  Dist(Advance(from, 1), i) = Dist(from, i) - 1
BY TxAssumption DEF Dist, Advance, Slots

\* Preparing, action by action.
LEMMA TxPreparingStep == TxInv /\ [Next]_vars => Preparing'
<1> SUFFICES ASSUME TxInv, [Next]_vars PROVE Preparing'
  OBVIOUS
<1> USE TxAssumption DEF TxInv
<1>0. /\ tx_pkt_queued \in 0 .. TX_DESC_CNT /\ packet_count \in 0 .. TX_DESC_CNT
      /\ cur_tx \in Slots /\ dirty_tx \in Slots
  BY DEF TypeOK
<1>1. ASSUME NEW s \in Skbs,
             XmitReject(s) \/ XmitBusy(s) \/ XmitTsoFails(s) \/ XmitMapFails(s)
      PROVE  Preparing'
  <2>1. pc' = "idle"
    BY <1>1 DEF XmitReject, XmitBusy, XmitTsoFails, XmitMapFails, Fits, Offered, Drop
  <2> QED
    BY <2>1 DEF Preparing
<1>2. ASSUME NEW s \in Skbs, XmitMap(s) PROVE Preparing'
  <2>1. /\ pc' = "vlan" /\ xm' = Locals(s) /\ packet_count' = DataDescs(shape[s])
        /\ UNCHANGED <<shape, cur_tx>>
    BY <1>2 DEF XmitMap
  <2>2. /\ Locals(s).s = s /\ Locals(s).at = cur_tx
        /\ Locals(s).vlan => shape[s].tag # 0 /\ ~TagViaReg
        /\ Locals(s).tso => shape[s].mss # 0
    BY DEF Locals, NeedsVlanCtx, NewTag, TsoEnabled
  <2>3. DataDescs(shape[s]) >= 1
    BY <1>2, ReservedCovers DEF XmitMap, Fits
  <2> QED
    BY <2>1, <2>2, <2>3 DEF Preparing
<1>3. ASSUME NEW here \in {"vlan", "mss", "first", "rest", "own"}, NEW next, PreTransmit(here, next)
      PROVE  /\ pc = here /\ pc' = next
             /\ xm.s \in Skbs /\ packet_count = DataDescs(shape[xm.s]) /\ packet_count >= 1
             /\ UNCHANGED <<shape, packet_count, dirty_tx, tx_pkt_queued>>
  BY <1>3 DEF PreTransmit, Preparing
<1>4. CASE PreVlan
  <2>1. pc = "vlan" /\ pc' = "mss" /\ xm' = xm
    BY <1>4 DEF PreVlan, PreTransmit
  <2>2. /\ ToPass = packet_count + (IF xm.vlan THEN 1 ELSE 0) + (IF NeedsMssCtx(xm) THEN 1 ELSE 0)
        /\ ToPass' = packet_count + (IF NeedsMssCtx(xm) THEN 1 ELSE 0)
    BY <1>3, <1>4, <2>1 DEF PreVlan, ToPass, DescsUsed, NeedsMssCtx
  <2>3. ToPass \in Nat \ {0} /\ ToPass' <= ToPass /\ ToPass' \in Nat
    BY <1>0, <1>3, <1>4, <2>2 DEF PreVlan
  <2>4. xm.at = cur_tx /\ Dist(dirty_tx, cur_tx) = tx_pkt_queued - ToPass
    BY <2>1, <2>3, CurInWindow DEF Preparing
  <2> DEFINE t == packet_count + (IF NeedsMssCtx(xm) THEN 1 ELSE 0)
  <2>7. t \in Nat /\ t <= ToPass
    BY <1>0, <2>2
  <2>8. Dist(dirty_tx, xm.at) <= tx_pkt_queued - t
    <3> HIDE DEF t
    <3> QED
      BY <1>0, <2>3, <2>4, <2>7
  <2>5. Dist(dirty_tx, xm.at) <= tx_pkt_queued - ToPass'
    BY <2>2, <2>8
  <2>6. ~xm.vlan => cur_tx' = cur_tx
    BY <1>4 DEF PreVlan
  <2> QED
    BY <1>3, <1>4, <2>1, <2>4, <2>5, <2>6 DEF PreVlan, Preparing, Dist
<1>5. CASE PreMss
  <2>1. pc' = "first" /\ xm' = xm
    BY <1>5 DEF PreMss, PreTransmit
  <2> QED
    BY <1>3, <1>5, <2>1 DEF PreMss, Preparing
<1>6. CASE PreFirst
  <2>1. pc = "first" /\ pc' = "rest" /\ xm' = [xm EXCEPT !.at = cur_tx]
    BY <1>6 DEF PreFirst, PreTransmit
  <2>2. ToPass = packet_count /\ packet_count \in Nat \ {0}
    BY <1>0, <1>3, <1>6, <2>1 DEF PreFirst, ToPass
  <2>3. Dist(dirty_tx, cur_tx) = tx_pkt_queued - packet_count
    BY <2>2, CurInWindow
  <2>4. xm'.s = xm.s /\ xm'.at = cur_tx
    BY <2>1 DEF TypeOK, XmType
  <2> QED
    BY <1>3, <1>6, <2>1, <2>3, <2>4 DEF PreFirst, Preparing, Dist
<1>7. CASE PreRest
  <2>1. pc = "rest" /\ pc' = "own" /\ xm' = xm
    BY <1>7 DEF PreRest, PreTransmit
  <2> QED
    BY <1>3, <1>7, <2>1 DEF PreRest, Preparing, Dist
<1>8. CASE PreOwn \/ PreTail \/ Clean
  <2>1. pc' \in {"tail", "idle", "clean"}
    BY <1>8 DEF PreOwn, PreTail, Clean, CleanStart, CleanOne, CleanEnd, PreTransmit
  <2> QED
    BY <2>1 DEF Preparing
<1>9. CASE Dma \/ UNCHANGED vars
  <2>1. UNCHANGED <<pc, xm, ctl, shape>>
    BY <1>9 DEF Dma, DmaSuspend, DmaContext, DmaData, DmaOwns, vars
  <2>2. ToPass' = ToPass
    BY <1>9, <2>1 DEF Dma, DmaSuspend, DmaContext, DmaData, DmaOwns, vars, ctl, ctx,
       ToPass, DescsUsed, NeedsMssCtx
  <2> QED
    BY <2>1, <2>2 DEF ctl, Preparing, Dist
<1> QED
  BY <1>1, <1>2, <1>4, <1>5, <1>6, <1>7, <1>8, <1>9 DEF Next, Xmit, PreTransmitStep

\* OwnedWritten, action by action.
LEMMA TxOwnedStep == TxInv /\ [Next]_vars => OwnedWritten'
<1> SUFFICES ASSUME TxInv, [Next]_vars, NEW i \in Slots, desc'[i].own
             PROVE  /\ (Dist(dirty_tx, i) < tx_pkt_queued - ToPass)'
                    /\ pc' \in {"rest", "own"} => i # xm'.at
  BY DEF OwnedWritten
<1> USE TxAssumption DEF TxInv
<1> DEFINE Goal == (Dist(dirty_tx, i) < tx_pkt_queued - ToPass)'
           AtGoal == pc' \in {"rest", "own"} => i # xm'.at
<1>0. /\ tx_pkt_queued \in 0 .. TX_DESC_CNT /\ packet_count \in 0 .. TX_DESC_CNT
      /\ cur_tx \in Slots /\ dirty_tx \in Slots /\ xm.at \in Slots /\ dma.idx \in Slots
      /\ desc \in [Slots -> DescType] /\ Dist(dirty_tx, i) \in Slots
  BY Elements, DistType DEF TypeOK
<1>1. desc[i].own => /\ Dist(dirty_tx, i) < tx_pkt_queued - ToPass
                     /\ pc \in {"rest", "own"} => i # xm.at
  BY DEF OwnedWritten
<1>2. ToPass \in Nat
  BY <1>0 DEF ToPass, DescsUsed, Preparing, NeedsMssCtx
<1>3. ASSUME NEW q \in Int, NEW t \in Int, Dist(dirty_tx, i) < q - t,
             dirty_tx' = dirty_tx, tx_pkt_queued' = q, ToPass' = t
      PROVE  Goal
  <2>1. Dist(dirty_tx, i)' = Dist(dirty_tx, i)
    BY <1>3 DEF Dist
  <2> QED
    BY <1>3, <2>1
<1>4. ASSUME NEW s \in Skbs, Xmit(s) PROVE Goal /\ AtGoal
  <2>1. pc = "idle" /\ desc' = desc /\ dirty_tx' = dirty_tx /\ ToPass = 0
    BY <1>4 DEF Xmit, XmitMap, XmitReject, XmitBusy, XmitTsoFails, XmitMapFails, Fits,
       Offered, Drop, ctl, ToPass
  <2>2. CASE XmitMap(s)
    <3>1. DescsUsed(Locals(s)) \in Nat
      BY <2>2, ReservedCovers DEF XmitMap, Fits
    <3>2. ToPass' = DescsUsed(Locals(s)) /\ pc' = "vlan"
          /\ tx_pkt_queued' = tx_pkt_queued + DescsUsed(Locals(s))
      BY <2>2 DEF XmitMap, Fits, CountDescs, ToPass, DescsUsed, NeedsMssCtx
    <3>3. Dist(dirty_tx, i) < tx_pkt_queued + DescsUsed(Locals(s)) - DescsUsed(Locals(s))
      BY <1>0, <1>1, <2>1, <3>1 DEF Slots
    <3> QED
      BY <1>0, <1>3, <2>1, <3>1, <3>2, <3>3
  <2>3. CASE XmitReject(s) \/ XmitBusy(s) \/ XmitTsoFails(s) \/ XmitMapFails(s)
    <3>1. pc' = "idle" /\ tx_pkt_queued' = tx_pkt_queued
      BY <2>1, <2>3 DEF XmitReject, XmitBusy, XmitTsoFails, XmitMapFails, Drop, ctl
    <3>2. ToPass' = 0
      BY <3>1 DEF ToPass
    <3> QED
      BY <1>0, <1>1, <1>3, <2>1, <3>1, <3>2
  <2> QED
    BY <1>4, <2>2, <2>3 DEF Xmit
<1>5. CASE PreVlan
  <2>1. /\ pc = "vlan" /\ pc' = "mss" /\ UNCHANGED <<xm, shape, packet_count, default_mss>>
        /\ UNCHANGED <<dirty_tx, tx_pkt_queued>> /\ xm.at = cur_tx
        /\ packet_count = DataDescs(shape[xm.s]) /\ packet_count >= 1
    BY <1>5 DEF PreVlan, PreTransmit, Preparing
  <2>2. /\ ToPass = packet_count + (IF xm.vlan THEN 1 ELSE 0) + (IF NeedsMssCtx(xm) THEN 1 ELSE 0)
        /\ ToPass' = packet_count + (IF NeedsMssCtx(xm) THEN 1 ELSE 0)
    BY <2>1 DEF ToPass, DescsUsed, NeedsMssCtx
  <2> DEFINE t == packet_count + (IF NeedsMssCtx(xm) THEN 1 ELSE 0)
  <2>3. t \in Nat /\ t <= ToPass /\ ToPass \in Nat \ {0} /\ (xm.vlan => t < ToPass)
    BY <1>0, <2>1, <2>2
  <2>4. Dist(dirty_tx, xm.at) = tx_pkt_queued - ToPass
    BY <2>1, <2>3, CurInWindow
  <2>5. desc[i].own \/ (i = xm.at /\ xm.vlan)
    BY <1>0, <1>5 DEF PreVlan
  <2>6. Dist(dirty_tx, i) < tx_pkt_queued - t
    <3> HIDE DEF t
    <3> QED
      BY <1>0, <1>1, <2>3, <2>4, <2>5 DEF Slots
  <2>7. ToPass' = t /\ tx_pkt_queued' = tx_pkt_queued /\ dirty_tx' = dirty_tx
    BY <2>1, <2>2
  <2>8. Goal
    <3> HIDE DEF t
    <3>1. Dist(dirty_tx, i)' = Dist(dirty_tx, i)
      BY <2>7 DEF Dist
    <3> QED
      BY <2>6, <2>7, <3>1
  <2> QED
    BY <2>1, <2>8
<1>6. CASE PreMss
  <2>1. /\ pc = "mss" /\ pc' = "first" /\ UNCHANGED <<dirty_tx, tx_pkt_queued, packet_count>>
        /\ Dist(dirty_tx, xm.at) <= tx_pkt_queued - ToPass
    BY <1>6 DEF PreMss, PreTransmit, Preparing
  <2>2. /\ ToPass = packet_count + (IF NeedsMssCtx(xm) THEN 1 ELSE 0)
        /\ ToPass' = packet_count
    BY <2>1 DEF ToPass
  <2>3. desc[i].own \/ (i = xm.at /\ NeedsMssCtx(xm))
    BY <1>0, <1>6 DEF PreMss
  <2>4. Dist(dirty_tx, i) < tx_pkt_queued - packet_count
    BY <1>0, <1>1, <2>1, <2>2, <2>3 DEF Slots
  <2> QED
    BY <1>0, <1>3, <2>1, <2>2, <2>4
<1>7. CASE PreFirst
  <2>1. /\ pc = "first" /\ pc' = "rest" /\ xm' = [xm EXCEPT !.at = cur_tx]
        /\ UNCHANGED <<dirty_tx, tx_pkt_queued, packet_count>> /\ packet_count >= 1
    BY <1>7 DEF PreFirst, PreTransmit, Preparing
  <2>2. ToPass = packet_count /\ ToPass' = packet_count - 1
    BY <2>1 DEF ToPass
  <2>3. desc[i].own
    BY <1>0, <1>7 DEF PreFirst, DescType
  <2>4. Dist(dirty_tx, cur_tx) = tx_pkt_queued - packet_count
    BY <1>0, <2>1, <2>2, CurInWindow
  <2>5. i # cur_tx
    BY <1>0, <1>1, <2>2, <2>3, <2>4
  <2>6. xm'.at = cur_tx
    BY <2>1 DEF TypeOK, XmType
  <2>7. Dist(dirty_tx, i) < tx_pkt_queued - (packet_count - 1)
    BY <1>0, <1>1, <2>1, <2>2, <2>3 DEF Slots
  <2> QED
    BY <1>0, <1>3, <2>1, <2>2, <2>5, <2>6, <2>7
<1>8. CASE PreRest
  <2>1. /\ pc = "rest" /\ pc' = "own" /\ xm' = xm /\ UNCHANGED <<dirty_tx, tx_pkt_queued>>
        /\ Dist(dirty_tx, xm.at) = tx_pkt_queued - packet_count /\ packet_count >= 1
    BY <1>8 DEF PreRest, PreTransmit, Preparing
  <2>2. ToPass' = 0
    BY <2>1 DEF ToPass
  <2>3. Dist(xm.at, i) \in Slots /\ Dist(dirty_tx, xm.at) \in Slots
    BY <1>0, DistType
  <2>4. CASE desc[i].own
    <3>1. Dist(dirty_tx, i) < tx_pkt_queued - 0
      BY <1>0, <1>1, <1>2, <2>4 DEF Slots
    <3> QED
      BY <1>0, <1>1, <1>3, <2>1, <2>2, <2>4, <3>1
  <2>5. CASE ~desc[i].own
    <3>1. Dist(xm.at, i) # 0 /\ Dist(xm.at, i) < packet_count
      BY <1>0, <1>8, <2>5 DEF PreRest, DescType
    <3>2. Dist(dirty_tx, xm.at) + Dist(xm.at, i) < tx_pkt_queued
      BY <1>0, <2>1, <2>3, <3>1 DEF Slots
    <3>3. Dist(dirty_tx, i) < tx_pkt_queued
      <4>1. Dist(dirty_tx, xm.at) + Dist(xm.at, i) < TX_DESC_CNT
        BY <1>0, <2>3, <3>2 DEF Slots
      <4>2. Dist(dirty_tx, i) = Dist(dirty_tx, xm.at) + Dist(xm.at, i)
        BY <1>0, <4>1, DistSum
      <4> QED
        BY <3>2, <4>2
    <3>4. i # xm.at
      BY <1>0, <3>1, DistZero
    <3> QED
      BY <1>0, <2>1, <2>2, <3>3, <3>4 DEF Dist
  <2> QED
    BY <2>4, <2>5
<1>9. CASE PreOwn
  <2>1. /\ pc' = "tail" /\ UNCHANGED <<dirty_tx, tx_pkt_queued>> /\ packet_count >= 1
        /\ Dist(dirty_tx, xm.at) = tx_pkt_queued - packet_count
    BY <1>9 DEF PreOwn, PreTransmit, Preparing
  <2>2. ToPass' = 0
    BY <2>1 DEF ToPass
  <2>3. CASE i = xm.at
    BY <1>0, <2>1, <2>2, <2>3 DEF Dist
  <2>4. CASE i # xm.at
    <3>1. desc[i].own
      BY <1>0, <1>9, <2>4 DEF PreOwn
    <3>2. Dist(dirty_tx, i) < tx_pkt_queued - 0
      BY <1>0, <1>1, <1>2, <3>1 DEF Slots
    <3> QED
      BY <1>0, <1>3, <2>1, <2>2, <3>2
  <2> QED
    BY <2>3, <2>4
<1>10. CASE PreTail \/ CleanStart \/ CleanEnd
  <2>1. pc' \in {"idle", "clean"} /\ UNCHANGED <<desc, dirty_tx, tx_pkt_queued>>
    BY <1>10 DEF PreTail, PreTransmit, CleanStart, CleanEnd, ctl
  <2>2. ToPass' = 0
    BY <2>1 DEF ToPass
  <2>3. Dist(dirty_tx, i) < tx_pkt_queued - 0
    BY <1>0, <1>1, <1>2, <2>1 DEF Slots
  <2> QED
    BY <1>0, <1>3, <2>1, <2>2, <2>3
<1>11. CASE CleanOne
  <2>1. /\ dirty_tx' = Advance(dirty_tx, 1) /\ tx_pkt_queued' = tx_pkt_queued - 1
        /\ desc' = [desc EXCEPT ![dirty_tx] = NoDesc] /\ pc = "clean" /\ pc' = "clean"
    BY <1>11 DEF CleanOne
  <2>2. ToPass = 0 /\ ToPass' = 0
    BY <2>1 DEF ToPass
  <2>3. i # dirty_tx /\ desc[i].own
    BY <1>0, <2>1 DEF NoDesc
  <2>4. Dist(Advance(dirty_tx, 1), i) = Dist(dirty_tx, i) - 1
    BY <1>0, <2>3, DistDrop
  <2> QED
    BY <1>0, <1>1, <2>1, <2>2, <2>3, <2>4 DEF Dist, Slots
<1>12. CASE Dma \/ UNCHANGED vars
  <2>1. /\ UNCHANGED <<pc, xm, ctl, ctx, shape>>
        /\ desc' = desc \/ desc' = [desc EXCEPT ![dma.idx].own = FALSE]
    BY <1>12 DEF Dma, DmaSuspend, DmaContext, DmaData, DmaOwns, vars
  <2>2. ToPass' = ToPass
    BY <2>1 DEF ToPass, ctl, ctx, DescsUsed, NeedsMssCtx
  <2>3. desc[i].own
    BY <1>0, <2>1 DEF DescType
  <2> QED
    BY <1>0, <1>1, <1>2, <1>3, <2>1, <2>2, <2>3 DEF ctl
<1> QED
  BY <1>4, <1>5, <1>6, <1>7, <1>8, <1>9, <1>10, <1>11, <1>12
  DEF Next, PreTransmitStep, Clean

-----------------------------------------------------------------------------
(* The theorems.                                                            *)

LEMMA TxInvariant == Spec => []TxInv
<1>1. TxInv /\ [Next]_vars => TxInv'
  BY TxTypeStep, TxAccountingStep, TxPreparingStep, TxOwnedStep DEF TxInv
<1> QED
  BY TxInit, <1>1, PTL DEF Spec

\* Every variable of the transmit ring keeps its type: indices inside the ring,
\* counters between 0 and TX_DESC_CNT, for every ring size and packet set.
THEOREM TxTypeCorrect == Spec => []TypeOK
<1>1. TxInv => TypeOK
  BY DEF TxInv
<1> QED
  BY TxInvariant, <1>1, PTL

\* The driver's books balance: free_desc_cnt, tx_pkt_queued, cur_tx and dirty_tx
\* agree in every state, the middle of pre_transmit included.
THEOREM TxAccountingCorrect == Spec => []Accounting
<1>1. TxInv => Accounting
  BY DEF TxInv
<1> QED
  BY TxInvariant, <1>1, PTL

\* The DMA owns descriptors of accepted packets only.
THEOREM TxOwnedCorrect == Spec => []OwnedInFlight
<1>1. TxInv => OwnedInFlight
  <2> SUFFICES ASSUME TxInv, NEW i \in Slots, desc[i].own PROVE InFlight(i)
    BY DEF OwnedInFlight
  <2>1. ToPass \in Nat /\ tx_pkt_queued \in Nat /\ Dist(dirty_tx, i) \in Nat
    <3>1. dirty_tx \in Slots /\ tx_pkt_queued \in Nat /\ packet_count \in Nat
      BY TxAssumption DEF TxInv, TypeOK
    <3>2. ToPass \in Nat
      BY <3>1 DEF TxInv, ToPass, DescsUsed, Preparing
    <3> QED
      BY <3>1, <3>2, DistType DEF Slots
  <2>2. Dist(dirty_tx, i) < tx_pkt_queued - ToPass
    BY DEF TxInv, OwnedWritten
  <2> QED
    BY <2>1, <2>2 DEF InFlight
<1> QED
  BY TxInvariant, <1>1, PTL

\* Counters, indices and OWN bits agree, whatever start_xmit, tx_interrupt and
\* the channel do, for every ring size.
THEOREM TxRingKept == Spec => []RingKept
  BY TxTypeCorrect, TxAccountingCorrect, TxOwnedCorrect, PTL DEF RingKept

-----------------------------------------------------------------------------
(* Where the skbs are.  HeldOnce needs nothing but the counters: the buffer  *)
(* map_skb stores an skb in lies behind the window, where no buffer refers   *)
(* to an skb.                                                                *)

\* The place of a slot, counted from dirty_tx.
Pos(i) == Dist(dirty_tx, i)

LEMMA DistAdvance ==
    ASSUME NEW i \in Slots, NEW k \in Slots
    PROVE  Dist(i, Advance(i, k)) = k /\ Advance(i, k) \in Slots
BY TxAssumption DEF Dist, Advance, Slots

LEMMA DistSame ==
    ASSUME NEW i \in Slots, NEW j \in Slots, NEW k \in Slots, Dist(k, i) = Dist(k, j)
    PROVE  i = j
BY TxAssumption DEF Dist, Slots

LEMMA DistBack ==
    ASSUME NEW i \in Slots, NEW j \in Slots
    PROVE  Advance(i, Dist(i, j)) = j
BY TxAssumption DEF Dist, Advance, Slots

LEMMA Places ==
    ASSUME TxInv
    PROVE  /\ dirty_tx \in Slots /\ tx_pkt_queued \in 0 .. TX_DESC_CNT
           /\ \A i \in Slots : Pos(i) \in Slots
           /\ \A i, j \in Slots : Pos(i) = Pos(j) => i = j
<1>1. dirty_tx \in Slots /\ tx_pkt_queued \in 0 .. TX_DESC_CNT
  BY DEF TxInv, TypeOK
<1> QED
  BY <1>1, DistType, DistSame DEF Pos

\* Where map_skb lays the data descriptors of a packet: behind the window and
\* the context descriptor it keeps space for.
LEMMA MapPlace ==
    ASSUME TxInv, NEW s \in Skbs, XmitMap(s)
    PROVE  \E e \in {0, 1} :
              /\ DataDescs(shape[s]) \in Nat \ {0}
              /\ DescsUsed(Locals(s)) \in Nat
              /\ e + DataDescs(shape[s]) <= DescsUsed(Locals(s))
              /\ tx_pkt_queued + DescsUsed(Locals(s)) <= TX_DESC_CNT
              /\ tx_pkt_queued' = tx_pkt_queued + DescsUsed(Locals(s))
              /\ FirstSlot(Locals(s)) = Advance(dirty_tx, tx_pkt_queued + e)
              /\ TagViaReg \/ shape[s].tag = 0 \/ ~TsoEnabled(shape[s]) =>
                    e + DataDescs(shape[s]) = DescsUsed(Locals(s))
<1> DEFINE x == Locals(s)
           vl == IF x.vlan THEN 1 ELSE 0
           ms == IF NeedsMssCtx(x) THEN 1 ELSE 0
           e  == IF x.vlan \/ NeedsMssCtx(x) THEN 1 ELSE 0
<1>1. /\ DataDescs(shape[s]) \in Nat \ {0} /\ DescsUsed(x) \in Nat
      /\ DescsUsed(x) <= DescsReserved(shape[s]) /\ DescsReserved(shape[s]) \in Nat
  BY ReservedCovers DEF TxInv, XmitMap, Fits
<1>2. DescsUsed(x) = DataDescs(shape[s]) + vl + ms
  BY DEF DescsUsed, Locals
<1>3. e \in {0, 1} /\ e <= vl + ms
  OBVIOUS
<1>4. /\ free_desc_cnt >= DescsReserved(shape[s]) /\ pc = "idle"
      /\ tx_pkt_queued' = tx_pkt_queued + DescsUsed(x)
  BY DEF XmitMap, Fits, Offered
<1>5. /\ free_desc_cnt \in Nat /\ tx_pkt_queued \in Nat /\ cur_tx \in Slots /\ dirty_tx \in Slots
      /\ free_desc_cnt + tx_pkt_queued = TX_DESC_CNT
      /\ Advance(cur_tx, 0) = Advance(dirty_tx, tx_pkt_queued)
  BY <1>4, TxAssumption DEF TxInv, TypeOK, Accounting, ToPass
<1>6. FirstSlot(x) = Advance(cur_tx, e) \/ (e = 0 /\ FirstSlot(x) = cur_tx)
  BY DEF FirstSlot
<1>7. tx_pkt_queued + DescsUsed(x) <= TX_DESC_CNT
  BY <1>1, <1>4, <1>5, TxAssumption
<1>8. cur_tx = Advance(dirty_tx, tx_pkt_queued)
  BY <1>5, AdvanceZero
<1>9. FirstSlot(x) = Advance(dirty_tx, tx_pkt_queued + e)
  <2>1. tx_pkt_queued + e <= TX_DESC_CNT
    BY <1>1, <1>2, <1>3, <1>5, <1>7, TxAssumption
  <2>2. e \in Nat
    BY <1>3
  <2> HIDE DEF e, x
  <2>3. e # 0 => FirstSlot(x) = Advance(Advance(dirty_tx, tx_pkt_queued), e)
    BY <1>6, <1>8
  <2> QED
    BY <1>5, <1>6, <1>8, <2>1, <2>2, <2>3, AdvanceTwice
<1>10. TagViaReg \/ shape[s].tag = 0 \/ ~TsoEnabled(shape[s]) => e = vl + ms
  <2>1. x.vlan => shape[s].tag # 0 /\ ~TagViaReg
    BY DEF Locals, NeedsVlanCtx, NewTag
  <2>2. NeedsMssCtx(x) => TsoEnabled(shape[s])
    BY DEF NeedsMssCtx, Locals
  <2> QED
    BY <2>1, <2>2
<1> HIDE DEF x, vl, ms, e
<1>11. vl \in Nat /\ ms \in Nat
  BY DEF vl, ms
<1>12. e + DataDescs(shape[s]) <= DescsUsed(x)
  BY <1>1, <1>2, <1>3, <1>11
<1>13. TagViaReg \/ shape[s].tag = 0 \/ ~TsoEnabled(shape[s]) => e + DataDescs(shape[s]) = DescsUsed(x)
  BY <1>1, <1>2, <1>3, <1>10, <1>11
<1> QED
  BY <1>1, <1>3, <1>4, <1>7, <1>9, <1>12, <1>13 DEF x

\* map_skb stores the skb in one buffer, behind the window.
LEMMA DoMapSkb ==
    ASSUME TxInv, NEW s \in Skbs, XmitMap(s)
    PROVE  \E l \in Slots :
              /\ tx_pkt_queued <= Pos(l) /\ Pos(l) < tx_pkt_queued'
              /\ buf'[l].skb = s
              /\ \A i \in Slots : i # l => buf'[i].skb = buf[i].skb
              /\ TagViaReg \/ shape[s].tag = 0 \/ ~TsoEnabled(shape[s]) => Pos(l) = tx_pkt_queued' - 1
<1> DEFINE n == DataDescs(shape[s])
           u == DescsUsed(Locals(s))
           f == FirstSlot(Locals(s))
           q == tx_pkt_queued
<1>1. PICK e \in {0, 1} :
         /\ n \in Nat \ {0} /\ u \in Nat /\ e + n <= u /\ q + u <= TX_DESC_CNT /\ q' = q + u
         /\ f = Advance(dirty_tx, q + e)
         /\ TagViaReg \/ shape[s].tag = 0 \/ ~TsoEnabled(shape[s]) => e + n = u
  BY MapPlace
<1>2. q \in 0 .. TX_DESC_CNT /\ dirty_tx \in Slots
  BY Places
<1>3. buf' = DoMap(s)
  BY DEF XmitMap
<1>4. f \in Slots
  BY LocalsType DEF TxInv
<1>5. ASSUME NEW i \in Slots
      PROVE  /\ Dist(f, i) + 1 = n => buf'[i].skb = s
             /\ Dist(f, i) + 1 # n => buf'[i].skb = buf[i].skb
  <2>1. Dist(f, i) \in Nat
    BY <1>4, DistType DEF Slots
  <2> QED
    BY <1>1, <1>3, <2>1 DEF DoMap
<1> DEFINE p == q + e + n - 1
           l == Advance(dirty_tx, p)
<1> HIDE DEF n, u, f, q
<1>6. p \in Slots /\ q <= p /\ p < q + u /\ n - 1 \in Slots /\ (e + n = u => p = q + u - 1)
  BY <1>1, <1>2, TxAssumption DEF Slots
<1>7. l \in Slots /\ Dist(dirty_tx, l) = p
  BY <1>2, <1>6, DistAdvance
<1>8. Advance(f, n - 1) = l
  <2>1. q + e \in Nat /\ n - 1 \in Nat /\ (q + e) + (n - 1) <= TX_DESC_CNT
        /\ (q + e) + (n - 1) = p
    BY <1>1, <1>2, TxAssumption
  <2> QED
    BY <1>1, <1>2, <2>1, AdvanceTwice
<1>9. Dist(f, l) = n - 1
  BY <1>4, <1>6, <1>8, DistAdvance
<1>10. \A i \in Slots : Dist(f, i) + 1 = n <=> i = l
  <2> SUFFICES ASSUME NEW i \in Slots, Dist(f, i) + 1 = n PROVE i = l
    BY <1>1, <1>7, <1>9
  <2>1. Dist(f, i) = n - 1
    <3>1. Dist(f, i) \in Slots
      BY <1>4, DistType
    <3> QED
      BY <1>1, <3>1, TxAssumption DEF Slots
  <2> QED
    BY <1>4, <1>7, <1>9, <2>1, DistSame
<1> HIDE DEF l, p
<1>11. buf'[l].skb = s /\ \A i \in Slots : i # l => buf'[i].skb = buf[i].skb
  BY <1>5, <1>7, <1>10
<1>12. q <= Pos(l) /\ Pos(l) < q' /\ (e + n = u => Pos(l) = q' - 1)
  BY <1>1, <1>2, <1>6, <1>7, TxAssumption DEF Pos, Slots
<1> QED
  BY <1>1, <1>7, <1>11, <1>12 DEF q

\* The steps of start_xmit that give the packet up touch no buffer's skb.
LEMMA DropSkb ==
    ASSUME TxInv, NEW s \in Skbs, XmitReject(s) \/ XmitTsoFails(s) \/ XmitMapFails(s)
    PROVE  /\ fate[s] = "stack" /\ fate' = [fate EXCEPT ![s] = "dropped"]
           /\ UNCHANGED <<dirty_tx, tx_pkt_queued>>
           /\ \A i \in Slots : buf'[i].skb = buf[i].skb
<1>1. /\ fate[s] = "stack" /\ fate' = [fate EXCEPT ![s] = "dropped"]
      /\ UNCHANGED <<dirty_tx, tx_pkt_queued>>
  BY DEF XmitReject, XmitTsoFails, XmitMapFails, Fits, Offered, Drop, ctl
<1>2. CASE XmitReject(s) \/ XmitTsoFails(s)
  BY <1>1, <1>2 DEF XmitReject, XmitTsoFails
<1>3. CASE XmitMapFails(s)
  <2>1. PICK k \in 1 .. DataDescs(shape[s]), second \in BOOLEAN : buf' = UndoMap(s, k, second)
    BY <1>3 DEF XmitMapFails
  <2>2. ASSUME NEW i \in Slots PROVE buf'[i].skb = buf[i].skb
    <3>1. buf[i] \in BufType
      BY DEF TxInv, TypeOK
    <3>2. \A x : [buf[i] EXCEPT !.data = x].skb = buf[i].skb
      BY <3>1 DEF BufType
    <3> QED
      BY <2>1, <3>2 DEF UndoMap
  <2> QED
    BY <1>1, <2>2
<1> QED
  BY <1>2, <1>3

\* HeldOnce, action by action.
LEMMA TxHeldStep == TxInv /\ HeldOnce /\ [Next]_vars => HeldOnce'
<1> SUFFICES ASSUME TxInv, HeldOnce, [Next]_vars PROVE HeldOnce'
  OBVIOUS
<1>0. /\ dirty_tx \in Slots /\ tx_pkt_queued \in 0 .. TX_DESC_CNT
      /\ \A i \in Slots : Pos(i) \in Slots
      /\ \A i \in Slots : buf[i].skb \in Skbs \cup {0}
      /\ fate \in [Skbs -> {"stack", "held", "freed", "dropped"}]
      /\ \A t \in Skbs : t # 0
      /\ Slots \subseteq Nat
  BY Places, TxAssumption DEF TxInv, TypeOK, BufType, Skbs, Slots
<1>1. /\ \A i \in Slots : buf[i].skb # 0 =>
            Pos(i) < tx_pkt_queued /\ fate[buf[i].skb] = "held"
      /\ \A t \in Skbs : fate[t] = "held" =>
            \E i \in Slots : \A j \in Slots : buf[j].skb = t <=> j = i
  BY DEF HeldOnce, InFlight, Pos
<1>2. ASSUME NEW s \in Skbs, XmitMap(s) PROVE HeldOnce'
  <2>1. PICK l \in Slots :
              /\ tx_pkt_queued <= Pos(l) /\ Pos(l) < tx_pkt_queued'
              /\ buf'[l].skb = s
              /\ \A i \in Slots : i # l => buf'[i].skb = buf[i].skb
    BY <1>2, DoMapSkb
  <2>2. /\ fate[s] = "stack" /\ fate' = [fate EXCEPT ![s] = "held"] /\ dirty_tx' = dirty_tx
    BY <1>2 DEF XmitMap, Fits, Offered
  <2>3. tx_pkt_queued <= tx_pkt_queued' /\ tx_pkt_queued' \in Nat
    <3>1. DescsUsed(Locals(s)) \in Nat /\ tx_pkt_queued' = tx_pkt_queued + DescsUsed(Locals(s))
      BY <1>2, MapPlace
    <3> QED
      BY <1>0, <3>1
  <2>4. \A i \in Slots : buf[i].skb # s
    BY <1>0, <1>1, <2>2
  <2>5. ASSUME NEW i \in Slots, buf'[i].skb # 0
        PROVE  Pos(i) < tx_pkt_queued' /\ fate'[buf'[i].skb] = "held"
    <3>1. CASE i = l
      BY <1>0, <2>1, <2>2, <3>1
    <3>2. CASE i # l
      <4>1. buf'[i].skb = buf[i].skb /\ buf[i].skb # 0
        BY <2>1, <2>5, <3>2
      <4>2. Pos(i) < tx_pkt_queued /\ fate[buf[i].skb] = "held" /\ buf[i].skb \in Skbs
        BY <1>0, <1>1, <4>1
      <4>3. fate'[buf[i].skb] = "held"
        BY <1>0, <2>2, <2>4, <4>2
      <4>4. Pos(i) \in Nat
        BY <1>0
      <4> QED
        BY <1>0, <2>3, <4>1, <4>2, <4>3, <4>4
    <3> QED
      BY <3>1, <3>2
  <2>6. ASSUME NEW t \in Skbs, fate'[t] = "held"
        PROVE  \E i \in Slots : \A j \in Slots : buf'[j].skb = t <=> j = i
    <3>1. CASE t = s
      BY <2>1, <2>4, <3>1
    <3>2. CASE t # s
      <4>1. PICK i \in Slots : \A j \in Slots : buf[j].skb = t <=> j = i
        BY <1>0, <1>1, <2>2, <2>6, <3>2
      <4>2. i # l
        <5>1. buf[i].skb = t /\ t # 0
          BY <1>0, <4>1
        <5>2. Pos(i) < tx_pkt_queued /\ Pos(i) \in Nat
          BY <1>0, <1>1, <5>1
        <5> QED
          BY <1>0, <2>1, <5>2
      <4> QED
        BY <2>1, <3>2, <4>1, <4>2
    <3> QED
      BY <3>1, <3>2
  <2> QED
    BY <2>2, <2>5, <2>6 DEF HeldOnce, InFlight, Pos, Dist
<1>3. ASSUME NEW s \in Skbs, XmitReject(s) \/ XmitTsoFails(s) \/ XmitMapFails(s)
      PROVE  HeldOnce'
  <2>1. /\ fate[s] = "stack" /\ fate' = [fate EXCEPT ![s] = "dropped"]
        /\ UNCHANGED <<dirty_tx, tx_pkt_queued>>
        /\ \A i \in Slots : buf'[i].skb = buf[i].skb
    BY <1>3, DropSkb
  <2>2. \A t \in Skbs : fate'[t] = "held" <=> fate[t] = "held"
    BY <1>0, <2>1
  <2>3. \A i \in Slots : InFlight(i)' <=> InFlight(i)
    BY <2>1 DEF InFlight, Dist
  <2> QED
    BY <1>0, <2>1, <2>2, <2>3 DEF HeldOnce
<1>4. CASE CleanOne
  <2>1. /\ dirty_tx' = Advance(dirty_tx, 1) /\ tx_pkt_queued' = tx_pkt_queued - 1
        /\ fate' = [t \in Skbs |-> IF t = buf[dirty_tx].skb THEN "freed" ELSE fate[t]]
        /\ buf'[dirty_tx].skb = 0
        /\ \A i \in Slots : i # dirty_tx => buf'[i] = buf[i]
    BY <1>0, <1>4 DEF CleanOne, TxInv, TypeOK
  <2>2. ASSUME NEW i \in Slots, buf'[i].skb # 0
        PROVE  InFlight(i)' /\ fate'[buf'[i].skb] = "held"
    <3>1. i # dirty_tx /\ buf'[i] = buf[i]
      BY <2>1, <2>2
    <3>2. Dist(dirty_tx, i)' = Pos(i) - 1
      BY <1>0, <2>1, <3>1, DistDrop DEF Dist, Pos
    <3>3. InFlight(i)'
      <4>1. Pos(i) < tx_pkt_queued /\ Pos(i) \in Nat
        BY <1>0, <1>1, <2>2, <3>1
      <4>2. Pos(i) - 1 < tx_pkt_queued - 1
        BY <1>0, <4>1
      <4> QED
        BY <2>1, <3>2, <4>2 DEF InFlight
    <3>4. buf[i].skb # buf[dirty_tx].skb
      BY <1>0, <1>1, <2>2, <3>1
    <3> QED
      BY <1>0, <1>1, <2>1, <2>2, <3>1, <3>3, <3>4
  <2>3. ASSUME NEW t \in Skbs, fate'[t] = "held"
        PROVE  \E i \in Slots : \A j \in Slots : buf'[j].skb = t <=> j = i
    <3>1. t # buf[dirty_tx].skb /\ fate[t] = "held"
      BY <2>1, <2>3
    <3>2. PICK i \in Slots : \A j \in Slots : buf[j].skb = t <=> j = i
      BY <1>1, <3>1
    <3> QED
      BY <1>0, <2>1, <3>1, <3>2
  <2> QED
    BY <2>2, <2>3 DEF HeldOnce
<1>5. CASE (\E s \in Skbs : XmitBusy(s)) \/ PreTransmitStep \/ CleanStart \/ CleanEnd \/ Dma
           \/ UNCHANGED vars
  <2>1. UNCHANGED <<buf, fate, dirty_tx, tx_pkt_queued>>
    BY <1>5 DEF XmitBusy, PreTransmitStep, PreVlan, PreMss, PreFirst, PreRest, PreOwn, PreTail,
       PreTransmit, CleanStart, CleanEnd, Dma, DmaSuspend, DmaContext, DmaData, DmaOwns,
       ctl, vars
  <2> QED
    BY <2>1 DEF HeldOnce, InFlight, Dist
<1> QED
  BY <1>2, <1>3, <1>4, <1>5 DEF Next, Xmit, Clean

\* An skb the driver holds sits in exactly one buffer of the window, and no
\* buffer refers to one that was freed or dropped, for every ring size and every
\* packet, those with two context descriptors included.
THEOREM TxHeldOnce == Spec => []HeldOnce
<1>1. Init => HeldOnce
  BY DEF Init, HeldOnce, NoBuf
<1> QED
  BY TxInvariant, TxHeldStep, <1>1, PTL DEF Spec

-----------------------------------------------------------------------------
(* What the window holds, when no packet needs two context descriptors.     *)

\* No packet needs two context descriptors: the tag goes to the register of the
\* MAC, or no packet has both a tag and a segment size.
OneContext == TagViaReg \/ \A p \in Shapes : p.tag = 0 \/ p.mss = 0 \/ p.cloned

\* Slots pre_transmit has passed, counted from dirty_tx.
Passed == tx_pkt_queued - ToPass

\* The first data descriptor of the packet in hand is not handed over yet.
InHand(i) == pc \in {"rest", "own"} /\ i = xm.at

\* Descriptors that say all they will say.
Written(i) == Pos(i) < Passed /\ ~(pc = "rest" /\ i = xm.at)

\* Descriptor i is the k-th data descriptor of packet s.
IsPart(i, s, k) ==
    /\ ~desc[i].ctxt /\ desc[i].data = Mapped(s, k)
    /\ desc[i].fd <=> k = 1
    /\ desc[i].ld <=> k = DataDescs(shape[s])
    /\ k = 1 => desc[i].tse = TsoEnabled(shape[s])

Starts(i) == desc[i].ctxt \/ desc[i].fd

Parts(s, n) == [k \in 1 .. n |-> Mapped(s, k)]

\* The channel has passed the first at slots of the window, and owns the others
\* pre_transmit has handed over.
Owned(at) ==
    /\ dma.idx = Advance(dirty_tx, at)
    /\ \A i \in Slots : desc[i].own <=> at <= Pos(i) /\ Pos(i) < Passed /\ ~InHand(i)
    /\ \A i \in Slots : InHand(i) => at <= Pos(i)

\* A slot pre_transmit has not passed is as tx_desc_reset left it.
Fresh == \A i \in Slots : Pos(i) >= Passed => desc[i] = NoDesc

\* A written descriptor is a context descriptor or some part of a packet; the
\* buffer of the last part holds the skb.
Laid ==
    \A i \in Slots : Written(i) =>
        \/ desc[i].ctxt /\ buf[i].skb = 0
        \/ \E s \in Skbs : \E k \in 1 .. DataDescs(shape[s]) :
              IsPart(i, s, k) /\ buf[i].skb = IF k = DataDescs(shape[s]) THEN s ELSE 0

\* The parts of a packet follow each other, and after the last one, or after a
\* context descriptor, comes the start of a packet.
Chain ==
    /\ \A i \in Slots, s \in Skbs : \A k \in 1 .. DataDescs(shape[s]) - 1 :
          Written(i) /\ IsPart(i, s, k) =>
              Pos(i) + 1 < Passed /\ IsPart(Advance(i, 1), s, k + 1)
    /\ \A i \in Slots : Written(i) /\ (desc[i].ctxt \/ desc[i].ld) /\ Pos(i) + 1 < Passed =>
          Starts(Advance(i, 1))

\* What the channel has read of a frame are the parts before the one it comes to.
Body(at) ==
    \/ dma.body = <<>> /\ (at < Passed => Starts(dma.idx))
    \/ \E s \in Skbs : \E k \in 2 .. DataDescs(shape[s]) :
          /\ at < Passed /\ IsPart(dma.idx, s, k)
          /\ dma.body = Parts(s, k - 1)

FirstPos == tx_pkt_queued - packet_count

\* The packet in hand: its buffers at the end of the window, and its first
\* descriptor.
InWork ==
    /\ pc \in {"vlan", "mss", "first", "rest"} =>
          /\ xm.tso = TsoEnabled(shape[xm.s])
          /\ \A i \in Slots : FirstPos <= Pos(i) /\ Pos(i) < tx_pkt_queued =>
                /\ buf[i].data = Mapped(xm.s, Pos(i) - FirstPos + 1)
                /\ buf[i].skb = IF Pos(i) = tx_pkt_queued - 1 THEN xm.s ELSE 0
          /\ \A i \in Slots : Passed <= Pos(i) /\ Pos(i) < FirstPos => buf[i].skb = 0
    /\ pc = "rest" => \A i \in Slots : i = xm.at =>
          /\ ~desc[i].ctxt /\ desc[i].data = Mapped(xm.s, 1)
          /\ desc[i].fd /\ ~desc[i].ld /\ desc[i].tse = xm.tso

\* The descriptor that is handed over last opens the frame.
Opened == \A i \in Slots : InHand(i) => desc[i].fd

\* Packets whose segment size, if they need one, is in DMA_CR or on its way there.
Settled(s) == Accepted(s) /\ ~(pc \in {"vlan", "mss"} /\ s = xm.s)

\* The register holds the cached size, and that fits every settled TSO packet;
\* the packet in hand is the latest the driver accepted.
Register ==
    /\ dma_cr_mss = default_mss
    /\ pc \in {"vlan", "mss", "first", "rest"} =>
          Accepted(xm.s) /\ \A s \in Skbs : Accepted(s) => s <= xm.s
    /\ \A s \in Skbs : Settled(s) /\ TsoEnabled(shape[s]) => MssFits(s, dma_cr_mss)

\* A descriptor points to the buffers of a settled packet.
PartsSettled == \A i \in Slots, s \in Skbs : desc[i].data.of = s => Settled(s)

\* Descriptor i opens a TSO frame with segment size m.
HasMss(i, m) ==
    /\ ~desc[i].ctxt /\ desc[i].fd
    /\ \E s \in Skbs : /\ desc[i].data.of = s
                       /\ TsoEnabled(shape[s]) /\ shape[s].mss = m

\* At place p such a frame comes, or will come.
MssNext(p, m) ==
    IF p < Passed THEN \A i \in Slots : Pos(i) = p => HasMss(i, m)
    ELSE pc = "first" /\ xm.tso /\ shape[xm.s].mss = m

SaysMss(i) == desc[i].ctxt /\ desc[i].mss # 0

\* A segment size in a context descriptor is that of the frame after it.
MssSaid == \A i \in Slots : SaysMss(i) => MssNext(Pos(i) + 1, desc[i].mss)

\* One the channel has latched is that of the frame it comes to.
Latched(at) == dma.mss # 0 => MssNext(at, dma.mss)

\* The frame the channel is reading has a segment size that fits it.
HeadRight ==
    dma.body # <<>> =>
        \A s \in Skbs : dma.body[1].of = s => MssFits(s, dma.head.mss)

\* Packets lie in the window in the order the stack offered them.
Ordered ==
    /\ \A i, j \in Slots : buf[i].skb # 0 /\ buf[j].skb # 0 /\ Pos(i) < Pos(j) =>
          buf[i].skb < buf[j].skb
    /\ \A s, t \in Skbs : fate[s] # "stack" /\ fate[t] = "stack" => s < t

\* The packets of the slots the channel has passed are on the wire.
SentRight(at) ==
    /\ \A s \in Skbs : Sent(s) => fate[s] \in {"held", "freed"}
    /\ \A s \in Skbs : fate[s] = "freed" => Sent(s)
    /\ \A i \in Slots : buf[i].skb # 0 => (Sent(buf[i].skb) <=> Pos(i) < at)

RingAt(at) == Owned(at) /\ Body(at) /\ Latched(at) /\ SentRight(at)

TxFrames == /\ TxInv /\ HeldOnce /\ Ordered
            /\ Fresh /\ Laid /\ Chain /\ InWork /\ Opened /\ WireIntact /\ WireMss
            /\ Register /\ PartsSettled /\ MssSaid /\ HeadRight
            /\ \E at \in 0 .. Passed : RingAt(at)

-----------------------------------------------------------------------------
(* What the steps do to the window.                                         *)

Fields(i) == <<desc[i].ctxt, desc[i].fd, desc[i].ld, desc[i].tse, desc[i].mss, desc[i].data>>

LEMMA Counts ==
    ASSUME TxInv
    PROVE  /\ ToPass \in Nat /\ Passed \in 0 .. TX_DESC_CNT /\ Passed <= tx_pkt_queued
           /\ tx_pkt_queued \in 0 .. TX_DESC_CNT /\ packet_count \in 0 .. TX_DESC_CNT
           /\ pc \in {"idle", "own", "tail", "clean"} => Passed = tx_pkt_queued
           /\ pc \in {"mss", "first", "rest", "own"} => FirstPos \in 0 .. TX_DESC_CNT
           /\ pc = "first" => Passed = FirstPos
           /\ pc = "rest" => Passed = FirstPos + 1
           /\ pc = "mss" => Passed = FirstPos - (IF NeedsMssCtx(xm) THEN 1 ELSE 0)
           /\ pc = "vlan" => Passed = FirstPos - (IF xm.vlan THEN 1 ELSE 0)
                                               - (IF NeedsMssCtx(xm) THEN 1 ELSE 0)
<1>1. /\ tx_pkt_queued \in 0 .. TX_DESC_CNT /\ packet_count \in 0 .. TX_DESC_CNT
      /\ pc \in {"vlan", "mss", "first", "rest", "own"} =>
            packet_count = DataDescs(shape[xm.s]) /\ packet_count >= 1
      /\ ToPass <= tx_pkt_queued
  BY DEF TxInv, TypeOK, Preparing, Accounting
<1>2. ToPass \in Nat
  BY <1>1, TxAssumption DEF ToPass, DescsUsed
<1>3. /\ pc \in {"idle", "own", "tail", "clean"} => ToPass = 0
      /\ pc = "first" => ToPass = packet_count
      /\ pc = "rest" => ToPass = packet_count - 1
      /\ pc = "mss" => ToPass = packet_count + (IF NeedsMssCtx(xm) THEN 1 ELSE 0)
      /\ pc = "vlan" => ToPass = packet_count + (IF xm.vlan THEN 1 ELSE 0)
                                              + (IF NeedsMssCtx(xm) THEN 1 ELSE 0)
  BY <1>1 DEF ToPass, DescsUsed
<1>4. pc \in {"rest", "own"} => FirstPos \in 0 .. TX_DESC_CNT
  <2> SUFFICES ASSUME pc \in {"rest", "own"} PROVE FirstPos \in 0 .. TX_DESC_CNT
    OBVIOUS
  <2>1. xm.at \in Slots /\ Dist(dirty_tx, xm.at) = FirstPos
    BY Elements DEF TxInv, Preparing, FirstPos
  <2>2. FirstPos \in Slots
    BY <2>1, Places DEF Pos
  <2> QED
    BY <2>2, TxAssumption DEF Slots
<1>5. pc \in {"mss", "first"} => FirstPos \in 0 .. TX_DESC_CNT
  BY <1>1, <1>3, TxAssumption DEF FirstPos
<1>6. Passed \in 0 .. TX_DESC_CNT /\ Passed <= tx_pkt_queued
  BY <1>1, <1>2, TxAssumption DEF Passed
<1>7. /\ pc \in {"idle", "own", "tail", "clean"} => Passed = tx_pkt_queued
      /\ pc = "first" => Passed = FirstPos
      /\ pc = "rest" => Passed = FirstPos + 1
  BY <1>1, <1>3, TxAssumption DEF Passed, FirstPos
<1>8. /\ pc = "mss" => Passed = FirstPos - (IF NeedsMssCtx(xm) THEN 1 ELSE 0)
      /\ pc = "vlan" => Passed = FirstPos - (IF xm.vlan THEN 1 ELSE 0)
                                          - (IF NeedsMssCtx(xm) THEN 1 ELSE 0)
  BY <1>1, <1>3, TxAssumption DEF Passed, FirstPos
<1> QED
  BY <1>1, <1>2, <1>4, <1>5, <1>6, <1>7, <1>8

LEMMA PosAt ==
    ASSUME TxInv, NEW p \in 0 .. TX_DESC_CNT - 1
    PROVE  Advance(dirty_tx, p) \in Slots /\ Pos(Advance(dirty_tx, p)) = p
BY Places, DistAdvance DEF Pos, Slots

LEMMA PosNext ==
    ASSUME TxInv, NEW i \in Slots, Pos(i) + 1 < TX_DESC_CNT
    PROVE  Advance(i, 1) \in Slots /\ Pos(Advance(i, 1)) = Pos(i) + 1
BY Places, DistNext, AdvanceOne DEF Pos

\* What a step that only hands descriptors over leaves alone.
LEMMA PartKeeps ==
    ASSUME shape' = shape, NEW i \in Slots, Fields(i)' = Fields(i)
    PROVE  /\ Starts(i)' <=> Starts(i)
           /\ \A s \in Skbs, k \in Nat : IsPart(i, s, k)' <=> IsPart(i, s, k)
BY DEF Fields, Starts, IsPart, Mapped

\* Nothing the channel or tx_interrupt can see.
Keep ==
    /\ UNCHANGED <<desc, dirty_tx, wire>>
    /\ dma'.idx = dma.idx /\ dma'.mss = dma.mss /\ dma'.head = dma.head /\ dma'.body = dma.body
    /\ Passed' = Passed
    /\ pc' \in {"rest", "own"} <=> pc \in {"rest", "own"}
    /\ pc' = "rest" <=> pc = "rest"
    /\ pc \in {"rest", "own"} => xm' = xm
    /\ pc = "first" => pc' = "first" /\ xm' = xm
    /\ \A i \in Slots : Pos(i) < Passed => buf'[i].skb = buf[i].skb

\* pre_transmit fills the descriptor d at slot c, the first it has not passed.
Push(c, d) ==
    /\ Pos(c) = Passed /\ Passed' = Passed + 1
    /\ desc' = [desc EXCEPT ![c] = d]
    /\ UNCHANGED <<dirty_tx, wire, buf, dma, tx_pkt_queued, packet_count, fate>>
    /\ pc \notin {"rest", "own"}

PushContext(c, d) ==
    /\ Push(c, d) /\ d.ctxt /\ d.own /\ d.data = NoData
    /\ pc \in {"vlan", "mss"} /\ pc' \in {"mss", "first"} /\ xm' = xm
    /\ buf[c].skb = 0
    /\ d.mss # 0 => pc' = "first" /\ xm.tso /\ shape[xm.s].mss = d.mss

PushFirst(c, d) ==
    /\ Push(c, d) /\ ~d.ctxt /\ ~d.own /\ d.fd /\ ~d.ld /\ d.mss = 0
    /\ d.data = Mapped(xm.s, 1) /\ d.tse = xm.tso
    /\ pc = "first" /\ pc' = "rest" /\ xm'.at = c /\ xm'.s = xm.s /\ xm'.tso = xm.tso

\* The descriptors after the first one.
Complete ==
    /\ pc = "rest" /\ pc' = "own" /\ xm' = xm /\ Pos(xm.at) = FirstPos
    /\ packet_count = DataDescs(shape[xm.s]) /\ packet_count >= 1
    /\ Passed = FirstPos + 1 /\ Passed' = tx_pkt_queued
    /\ UNCHANGED <<dirty_tx, wire, buf, dma, tx_pkt_queued, packet_count, fate>>
    /\ desc' \in [Slots -> DescType]
    /\ desc'[xm.at] = [desc[xm.at] EXCEPT !.ld = (packet_count = 1)]
    /\ \A i \in Slots : Pos(i) < FirstPos \/ Pos(i) >= tx_pkt_queued => desc'[i] = desc[i]
    /\ \A i \in Slots : Passed <= Pos(i) /\ Pos(i) < tx_pkt_queued =>
          desc'[i] = [NoDesc EXCEPT !.data = Mapped(xm.s, Pos(i) - FirstPos + 1),
                                    !.ctxt = FALSE, !.own = TRUE, !.ld = (Pos(i) = tx_pkt_queued - 1)]

\* OWN of the first descriptor.
HandOver ==
    /\ pc = "own" /\ pc' = "tail"
    /\ Pos(xm.at) = FirstPos /\ FirstPos < Passed /\ Passed' = Passed
    /\ UNCHANGED <<dirty_tx, wire, buf, dma, fate>>
    /\ desc' = [desc EXCEPT ![xm.at].own = TRUE]

\* tx_interrupt takes the first descriptor of the window back.
Free ==
    /\ pc = "clean" /\ pc' = "clean" /\ Passed = tx_pkt_queued /\ Passed > 0
    /\ Passed' = Passed - 1 /\ tx_pkt_queued' = tx_pkt_queued - 1
    /\ ~desc[dirty_tx].own /\ Pos(dirty_tx) = 0
    /\ desc' = [desc EXCEPT ![dirty_tx] = NoDesc] /\ dirty_tx' = Advance(dirty_tx, 1)
    /\ \A i \in Slots : i # dirty_tx => Pos(i) > 0 /\ Pos(i)' = Pos(i) - 1 /\ buf'[i] = buf[i]
    /\ \A i \in Slots : i = dirty_tx => Pos(i)' = TX_DESC_CNT - 1 /\ buf'[i].skb = 0
    /\ fate' = [s \in Skbs |-> IF s = buf[dirty_tx].skb THEN "freed" ELSE fate[s]]
    /\ UNCHANGED <<wire, dma>>

\* The channel reads a descriptor it owns.
Read ==
    /\ desc[dma.idx].own /\ desc' = [desc EXCEPT ![dma.idx].own = FALSE]
    /\ dma'.idx = Advance(dma.idx, 1) /\ Passed' = Passed
    /\ UNCHANGED <<pc, xm, dirty_tx, tx_pkt_queued, packet_count, buf, fate>>

LEMMA StepShape == [Next]_vars => shape' = shape
BY DEF Next, Xmit, XmitReject, XmitBusy, XmitTsoFails, XmitMapFails, XmitMap, Drop,
   PreTransmitStep, PreVlan, PreMss, PreFirst, PreRest, PreOwn, PreTail, PreTransmit,
   Clean, CleanStart, CleanOne, CleanEnd, Dma, DmaSuspend, DmaContext, DmaData, DmaOwns, vars

LEMMA StepKeep ==
    ASSUME TxInv,
           \/ \E s \in Skbs : Xmit(s)
           \/ PreVlan /\ ~xm.vlan
           \/ PreMss /\ ~NeedsMssCtx(xm)
           \/ PreTail \/ CleanStart \/ CleanEnd \/ DmaSuspend \/ UNCHANGED vars
    PROVE  Keep
<1>1. ASSUME NEW s \in Skbs, XmitMap(s) PROVE Keep
  <2>1. PICK e \in {0, 1} : /\ DescsUsed(Locals(s)) \in Nat
                            /\ tx_pkt_queued' = tx_pkt_queued + DescsUsed(Locals(s))
    BY <1>1, MapPlace
  <2>2. pc = "idle" /\ pc' = "vlan" /\ UNCHANGED <<desc, dirty_tx, wire, default_mss, dma>>
    BY <1>1 DEF XmitMap, Fits, Offered, CountDescs
  <2>3. ToPass' = DescsUsed(Locals(s)) /\ ToPass = 0
    BY <1>1, <2>2 DEF XmitMap, Fits, CountDescs, ToPass, DescsUsed, NeedsMssCtx
  <2>4. Passed' = Passed
    BY <2>1, <2>3, Places DEF Passed
  <2>5. \A i \in Slots : Pos(i) < Passed => buf'[i].skb = buf[i].skb
    BY <1>1, <2>1, <2>3, DoMapSkb, Places, TxAssumption DEF Passed, Slots
  <2> QED
    BY <2>2, <2>4, <2>5 DEF Keep
<1>2. ASSUME NEW s \in Skbs, XmitReject(s) \/ XmitBusy(s) \/ XmitTsoFails(s) \/ XmitMapFails(s)
      PROVE  Keep
  <2>1. /\ pc = "idle" /\ pc' = "idle"
        /\ UNCHANGED <<desc, dirty_tx, wire, default_mss, dma, tx_pkt_queued>>
    BY <1>2 DEF XmitReject, XmitBusy, XmitTsoFails, XmitMapFails, Fits, Offered, CountDescs,
       Drop, ctl, ctx
  <2>2. Passed' = Passed
    BY <2>1 DEF Passed, ToPass
  <2>3. \A i \in Slots : buf'[i].skb = buf[i].skb
    BY <1>2, DropSkb DEF XmitBusy
  <2> QED
    BY <2>1, <2>2, <2>3 DEF Keep
<1>3. ASSUME (PreVlan /\ ~xm.vlan) \/ (PreMss /\ ~NeedsMssCtx(xm)) PROVE Keep
  <2>1. /\ UNCHANGED <<desc, dirty_tx, wire, default_mss, dma, tx_pkt_queued, buf, shape, xm>>
        /\ UNCHANGED packet_count
        /\ \/ pc = "vlan" /\ pc' = "mss" /\ ~xm.vlan
           \/ pc = "mss" /\ pc' = "first" /\ ~NeedsMssCtx(xm)
    BY <1>3 DEF PreVlan, PreMss, PreTransmit
  <2>2. ToPass' = ToPass
    <3>1. packet_count \in Nat
      BY Counts, TxAssumption
    <3>2. CASE pc = "vlan" /\ pc' = "mss" /\ ~xm.vlan
      <4>1. packet_count = DataDescs(shape[xm.s])
        BY <3>2 DEF TxInv, Preparing
      <4>2. ToPass = packet_count + (IF NeedsMssCtx(xm) THEN 1 ELSE 0)
        BY <3>1, <3>2, <4>1 DEF ToPass, DescsUsed
      <4>3. ToPass' = packet_count + (IF NeedsMssCtx(xm) THEN 1 ELSE 0)
        BY <2>1, <3>2 DEF ToPass, NeedsMssCtx
      <4> QED
        BY <4>2, <4>3
    <3>3. CASE pc = "mss" /\ pc' = "first" /\ ~NeedsMssCtx(xm)
      BY <2>1, <3>1, <3>3 DEF ToPass
    <3> QED
      BY <2>1, <3>2, <3>3
  <2>3. Passed' = Passed
    BY <2>1, <2>2 DEF Passed
  <2> QED
    BY <2>1, <2>3 DEF Keep
<1>4. CASE PreTail \/ CleanStart \/ CleanEnd
  <2>1. /\ UNCHANGED <<desc, dirty_tx, wire, default_mss, tx_pkt_queued, buf>>
        /\ pc \in {"tail", "idle", "clean"} /\ pc' \in {"idle", "clean"}
    BY <1>4 DEF PreTail, PreTransmit, CleanStart, CleanEnd, ctl, ctx
  <2>2. Passed' = Passed
    BY <2>1 DEF Passed, ToPass
  <2>3. dma'.idx = dma.idx /\ dma'.mss = dma.mss /\ dma'.head = dma.head /\ dma'.body = dma.body
    BY <1>4 DEF PreTail, CleanStart, CleanEnd, TxInv, TypeOK, DmaType
  <2> QED
    BY <2>1, <2>2, <2>3 DEF Keep
<1>5. CASE DmaSuspend \/ UNCHANGED vars
  <2>1. UNCHANGED <<pc, xm, desc, buf, ctl, ctx, wire, shape>>
    BY <1>5 DEF DmaSuspend, vars
  <2>2. Passed' = Passed
    BY <2>1 DEF Passed, ToPass, DescsUsed, NeedsMssCtx, ctl, ctx
  <2>3. dma'.idx = dma.idx /\ dma'.mss = dma.mss /\ dma'.head = dma.head /\ dma'.body = dma.body
    BY <1>5 DEF DmaSuspend, vars, TxInv, TypeOK, DmaType
  <2> QED
    BY <2>1, <2>2, <2>3 DEF Keep, ctl, ctx
<1> QED
  BY <1>1, <1>2, <1>3, <1>4, <1>5 DEF Xmit

\* Under OneContext the MSS context descriptor is written at cur_tx: a packet
\* with a tag is no TSO packet.
LEMMA OneContextAt ==
    ASSUME TxInv, InWork, OneContext, pc \in {"vlan", "mss"}
    PROVE  /\ xm.s \in Skbs /\ shape[xm.s] \in ShapeType
           /\ ~(xm.vlan /\ NeedsMssCtx(xm))
           /\ NeedsMssCtx(xm) \/ pc = "vlan" => xm.at = cur_tx
<1>1. xm.s \in Skbs /\ shape[xm.s] \in Shapes /\ shape[xm.s] \in ShapeType
  BY TxAssumption DEF TxInv, TypeOK, Preparing
<1>2. (xm.vlan => shape[xm.s].tag # 0 /\ ~TagViaReg) /\ xm.tso = TsoEnabled(shape[xm.s])
  BY DEF TxInv, Preparing, InWork
<1>3. ~(xm.vlan /\ NeedsMssCtx(xm))
  BY <1>1, <1>2 DEF OneContext, TsoEnabled, NeedsMssCtx
<1>4. NeedsMssCtx(xm) \/ pc = "vlan" => xm.at = cur_tx
  BY <1>3 DEF TxInv, Preparing
<1> QED
  BY <1>1, <1>3, <1>4

LEMMA StepContext ==
    ASSUME TxInv, Fresh, InWork, OneContext,
           (PreVlan /\ xm.vlan) \/ (PreMss /\ NeedsMssCtx(xm))
    PROVE  \E c \in Slots, d \in DescType : PushContext(c, d)
<1> DEFINE c == cur_tx
           dv == [NoDesc EXCEPT !.tag = shape[xm.s].tag, !.ctxt = TRUE, !.own = TRUE]
           dm == [NoDesc EXCEPT !.mss = shape[xm.s].mss, !.ctxt = TRUE, !.own = TRUE]
<1>1. /\ pc \in {"vlan", "mss"} /\ pc' \in {"mss", "first"} /\ xm' = xm
      /\ UNCHANGED <<dirty_tx, wire, buf, dma, tx_pkt_queued, packet_count, fate, shape>>
      /\ cur_tx \in Slots /\ desc \in [Slots -> DescType]
      /\ packet_count \in Nat /\ packet_count = DataDescs(shape[xm.s]) /\ packet_count >= 1
  BY Elements, Counts, TxAssumption DEF PreVlan, PreMss, PreTransmit, TxInv, Preparing
<1>2. /\ xm.s \in Skbs /\ shape[xm.s].tag \in Nat /\ shape[xm.s].mss \in Nat
      /\ xm.at = cur_tx /\ ~(xm.vlan /\ NeedsMssCtx(xm))
      /\ PreVlan => pc = "vlan"
      /\ PreMss => pc = "mss"
  BY <1>1, OneContextAt DEF ShapeType, PreVlan, PreTransmit, PreMss
<1>3. Passed' = Passed + 1 /\ ToPass \in Nat \ {0} /\ Passed < FirstPos
  <2>1. ToPass = packet_count + 1 /\ ToPass' = packet_count
    BY <1>1, <1>2 DEF ToPass, DescsUsed, PreVlan, PreMss, PreTransmit, NeedsMssCtx
  <2> QED
    BY <1>1, <2>1, Places, TxAssumption DEF Passed, FirstPos
<1>4. Pos(c) = Passed
  BY <1>3, CurInWindow DEF Pos, Passed
<1>5. desc[c] = NoDesc
  BY <1>1, <1>3, <1>4, Counts, TxAssumption DEF Fresh
<1>6. buf[c].skb = 0
  BY <1>1, <1>3, <1>4, Counts, TxAssumption DEF InWork
<1>7. dv \in DescType /\ dm \in DescType
  <2>1. ASSUME NEW n \in Nat
        PROVE  /\ [NoDesc EXCEPT !.tag = n, !.ctxt = TRUE, !.own = TRUE] \in DescType
               /\ [NoDesc EXCEPT !.mss = n, !.ctxt = TRUE, !.own = TRUE] \in DescType
    BY NoTypes DEF DescType
  <2> QED
    BY <1>2, <2>1
<1>8. CASE PreVlan /\ xm.vlan
  <2>1. desc' = [desc EXCEPT ![c] = dv] /\ pc' = "mss"
    BY <1>2, <1>5, <1>8 DEF PreVlan, PreTransmit
  <2>2. dv.ctxt /\ dv.own /\ dv.mss = 0 /\ dv.data = NoData
    BY DEF NoDesc
  <2> HIDE DEF dv, c
  <2>3. PushContext(c, dv)
    BY <1>1, <1>3, <1>4, <1>6, <2>1, <2>2 DEF PushContext, Push
  <2> QED
    BY <1>1, <1>7, <2>3 DEF c
<1>9. CASE PreMss /\ NeedsMssCtx(xm)
  <2>1. desc' = [desc EXCEPT ![c] = dm] /\ pc' = "first"
    BY <1>2, <1>5, <1>9 DEF PreMss, PreTransmit
  <2>2. dm.ctxt /\ dm.own /\ dm.mss = shape[xm.s].mss /\ dm.data = NoData
    BY DEF NoDesc
  <2>3. xm.tso
    BY <1>9 DEF NeedsMssCtx
  <2> HIDE DEF dm, c
  <2>4. PushContext(c, dm)
    BY <1>1, <1>3, <1>4, <1>6, <2>1, <2>2, <2>3 DEF PushContext, Push
  <2> QED
    BY <1>1, <1>7, <2>4 DEF c
<1> QED
  BY <1>8, <1>9

LEMMA StepFirst ==
    ASSUME TxInv, Fresh, InWork, PreFirst
    PROVE  \E c \in Slots, d \in DescType : PushFirst(c, d)
<1> DEFINE c == cur_tx
           d == [NoDesc EXCEPT !.data = buf[c].data, !.fd = TRUE, !.ctxt = FALSE,
                               !.vtir = vlan_tag_present /\ ~TagViaReg, !.tse = xm.tso]
<1>1. /\ pc = "first" /\ pc' = "rest" /\ xm' = [xm EXCEPT !.at = cur_tx]
      /\ UNCHANGED <<dirty_tx, wire, buf, dma, tx_pkt_queued, packet_count, fate, shape>>
      /\ cur_tx \in Slots /\ desc \in [Slots -> DescType] /\ xm \in XmType
      /\ packet_count \in Nat /\ packet_count >= 1
      /\ buf[c].data \in DataType /\ xm.tso \in BOOLEAN /\ (vlan_tag_present /\ ~TagViaReg) \in BOOLEAN
  BY Elements, Counts, TxAssumption DEF PreFirst, PreTransmit, TxInv, Preparing, TypeOK
<1>2. Passed' = Passed + 1 /\ ToPass \in Nat \ {0} /\ Passed = FirstPos /\ FirstPos < tx_pkt_queued
  <2>1. ToPass = packet_count /\ ToPass' = packet_count - 1
    BY <1>1 DEF ToPass
  <2> QED
    BY <1>1, <2>1, Places, TxAssumption DEF Passed, FirstPos
<1>3. Pos(c) = Passed
  BY <1>2, CurInWindow DEF Pos, Passed
<1>4. desc[c] = NoDesc
  BY <1>1, <1>3, Counts, TxAssumption DEF Fresh
<1>5. buf[c].data = Mapped(xm.s, 1)
  <2>1. Pos(c) - FirstPos + 1 = 1 /\ FirstPos <= Pos(c) /\ Pos(c) < tx_pkt_queued
    BY <1>1, <1>2, <1>3, Counts, TxAssumption
  <2> QED
    BY <1>1, <2>1 DEF InWork
<1>6. d \in DescType
  BY <1>1, NoTypes, DescEdits
<1>7. desc' = [desc EXCEPT ![c] = d]
  BY <1>4 DEF PreFirst
<1>8. ~d.ctxt /\ ~d.own /\ d.fd /\ ~d.ld /\ d.mss = 0 /\ d.data = buf[c].data /\ d.tse = xm.tso
  BY DEF NoDesc
<1>9. xm'.at = c /\ xm'.s = xm.s /\ xm'.tso = xm.tso
  BY <1>1 DEF XmType
<1> HIDE DEF d, c
<1>10. PushFirst(c, d)
  BY <1>1, <1>2, <1>3, <1>5, <1>7, <1>8, <1>9 DEF PushFirst, Push
<1> QED
  BY <1>1, <1>6, <1>10 DEF c

\* Distance from the first data descriptor, and place in the window.
LEMMA DistWithin ==
    ASSUME NEW from \in Slots, NEW a \in Slots, NEW i \in Slots, NEW q \in 0 .. TX_DESC_CNT,
           Dist(from, a) < q
    PROVE  /\ Dist(a, i) < q - Dist(from, a) <=> (Dist(from, a) <= Dist(from, i) /\ Dist(from, i) < q)
           /\ Dist(from, a) <= Dist(from, i) => Dist(a, i) = Dist(from, i) - Dist(from, a)
BY TxAssumption DEF Dist, Slots

LEMMA StepComplete ==
    ASSUME TxInv, Fresh, InWork, PreRest
    PROVE  Complete
<1>1. /\ pc = "rest" /\ pc' = "own" /\ xm' = xm
      /\ UNCHANGED <<dirty_tx, wire, buf, dma, tx_pkt_queued, packet_count, fate>>
      /\ packet_count \in Nat /\ packet_count = DataDescs(shape[xm.s]) /\ packet_count >= 1
      /\ xm.at \in Slots /\ Pos(xm.at) = FirstPos
  <2>1. packet_count \in Nat
    BY Counts, TxAssumption
  <2>2. xm.at \in Slots
    BY Elements DEF TxInv
  <2> QED
    BY <2>1, <2>2 DEF PreRest, PreTransmit, TxInv, Preparing, Pos, FirstPos
<1>2. Passed = FirstPos + 1 /\ Passed' = tx_pkt_queued /\ FirstPos \in Nat
  BY <1>1, Counts, TxAssumption DEF Passed, ToPass
<1>3. desc' \in [Slots -> DescType]
  BY TxTypeStep DEF Next, PreTransmitStep, TypeOK
<1>4. tx_pkt_queued \in 0 .. TX_DESC_CNT /\ FirstPos < tx_pkt_queued
      /\ packet_count = tx_pkt_queued - FirstPos
  BY <1>1, Counts, TxAssumption DEF FirstPos
<1>5. ASSUME NEW i \in Slots
      PROVE  /\ Dist(xm.at, i) < packet_count <=> (FirstPos <= Pos(i) /\ Pos(i) < tx_pkt_queued)
             /\ FirstPos <= Pos(i) => Dist(xm.at, i) = Pos(i) - FirstPos
             /\ Pos(i) \in Nat
  <2>1. dirty_tx \in Slots /\ Dist(dirty_tx, xm.at) = FirstPos
    BY <1>1, Places DEF Pos
  <2>2. Dist(dirty_tx, i) \in Slots
    BY <2>1, DistType
  <2>3. Pos(i) \in Nat
    BY <2>2, TxAssumption DEF Pos, Slots
  <2>4. /\ Dist(xm.at, i) < tx_pkt_queued - FirstPos
              <=> (FirstPos <= Dist(dirty_tx, i) /\ Dist(dirty_tx, i) < tx_pkt_queued)
        /\ FirstPos <= Dist(dirty_tx, i) => Dist(xm.at, i) = Dist(dirty_tx, i) - FirstPos
    BY <1>1, <1>4, <2>1, DistWithin
  <2> QED
    BY <1>4, <2>3, <2>4 DEF Pos
<1>6. ASSUME NEW i \in Slots
      PROVE  desc'[i] =
          LET d == Dist(xm.at, i) IN
          IF d = 0 THEN [desc[i] EXCEPT !.ld = (packet_count = 1)]
          ELSE IF d < packet_count
          THEN [desc[i] EXCEPT !.data = buf[i].data, !.ctxt = FALSE, !.own = TRUE,
                               !.ld = (d = packet_count - 1)]
          ELSE desc[i]
  BY DEF PreRest
<1>7. desc'[xm.at] = [desc[xm.at] EXCEPT !.ld = (packet_count = 1)]
  <2>1. Dist(xm.at, xm.at) = 0
    BY <1>1, DistZero
  <2> QED
    BY <1>1, <1>6, <2>1
<1>8. ASSUME NEW i \in Slots, Pos(i) < FirstPos \/ Pos(i) >= tx_pkt_queued
      PROVE  desc'[i] = desc[i]
  <2>1. ~(Dist(xm.at, i) < packet_count) /\ Dist(xm.at, i) # 0
    BY <1>1, <1>2, <1>4, <1>5, <1>8
  <2> QED
    BY <1>6, <2>1
<1>9. ASSUME NEW i \in Slots, Passed <= Pos(i) /\ Pos(i) < tx_pkt_queued
      PROVE  desc'[i] = [NoDesc EXCEPT !.data = Mapped(xm.s, Pos(i) - FirstPos + 1),
                                    !.ctxt = FALSE, !.own = TRUE, !.ld = (Pos(i) = tx_pkt_queued - 1)]
  <2>1. FirstPos <= Pos(i) /\ Pos(i) \in Nat /\ tx_pkt_queued \in Nat
    BY <1>2, <1>4, <1>5, <1>9
  <2>2. Dist(xm.at, i) < packet_count /\ Dist(xm.at, i) # 0
        /\ (Dist(xm.at, i) = packet_count - 1 <=> Pos(i) = tx_pkt_queued - 1)
    BY <1>2, <1>4, <1>5, <1>9, <2>1
  <2>3. desc[i] = NoDesc
    BY <1>9 DEF Fresh
  <2>4. buf[i].data = Mapped(xm.s, Pos(i) - FirstPos + 1)
    BY <1>1, <1>9, <2>1 DEF InWork
  <2>5. desc'[i] = [NoDesc EXCEPT !.data = buf[i].data, !.ctxt = FALSE, !.own = TRUE,
                               !.ld = (Dist(xm.at, i) = packet_count - 1)]
    BY <1>6, <2>2, <2>3
  <2>6. (Dist(xm.at, i) = packet_count - 1) = (Pos(i) = tx_pkt_queued - 1)
    BY <2>2
  <2> QED
    BY <2>4, <2>5, <2>6
<1> QED
  BY <1>1, <1>2, <1>3, <1>7, <1>8, <1>9 DEF Complete

LEMMA StepHandOver ==
    ASSUME TxInv, PreOwn
    PROVE  HandOver
<1>1. /\ pc = "own" /\ pc' = "tail" /\ Pos(xm.at) = FirstPos
      /\ UNCHANGED <<dirty_tx, wire, buf, dma, fate, default_mss, tx_pkt_queued>>
      /\ desc' = [desc EXCEPT ![xm.at].own = TRUE]
      /\ packet_count >= 1
  BY DEF PreOwn, PreTransmit, TxInv, Preparing, FirstPos, Pos
<1>2. Passed = tx_pkt_queued /\ Passed' = Passed /\ FirstPos < Passed
  BY <1>1, Counts, TxAssumption DEF Passed, ToPass, FirstPos
<1> QED
  BY <1>1, <1>2 DEF HandOver

LEMMA StepFree ==
    ASSUME TxInv, CleanOne
    PROVE  Free
<1>1. /\ pc = "clean" /\ pc' = "clean" /\ tx_pkt_queued > 0 /\ tx_pkt_queued' = tx_pkt_queued - 1
      /\ ~desc[dirty_tx].own
      /\ desc' = [desc EXCEPT ![dirty_tx] = NoDesc] /\ dirty_tx' = Advance(dirty_tx, 1)
      /\ buf' = [buf EXCEPT ![dirty_tx] =
            [data |-> IF @.data.dma # 0 THEN NoData ELSE @.data, skb |-> 0]]
      /\ fate' = [s \in Skbs |-> IF s = buf[dirty_tx].skb THEN "freed" ELSE fate[s]]
      /\ UNCHANGED <<wire, dma>>
  BY DEF CleanOne, ctx
<1>2. dirty_tx \in Slots /\ buf \in [Slots -> BufType] /\ tx_pkt_queued \in Nat
  BY Places DEF TxInv, TypeOK
<1>3. Passed = tx_pkt_queued /\ Passed' = Passed - 1
  BY <1>1, Counts DEF Passed, ToPass
<1>4. Pos(dirty_tx) = 0
  BY <1>2, DistZero DEF Pos
<1>5. ASSUME NEW i \in Slots, i # dirty_tx
      PROVE  Pos(i) > 0 /\ Pos(i)' = Pos(i) - 1 /\ buf'[i] = buf[i]
  <2>1. Pos(i) \in Nat /\ Pos(i) # 0
    BY <1>2, <1>5, Places, DistZero DEF Pos, Slots
  <2>2. Pos(i)' = Pos(i) - 1
    BY <1>1, <1>2, <1>5, DistDrop DEF Pos, Dist
  <2> QED
    BY <1>1, <1>2, <1>5, <2>1, <2>2
<1>6. ASSUME NEW i \in Slots, i = dirty_tx
      PROVE  Pos(i)' = TX_DESC_CNT - 1 /\ buf'[i].skb = 0
  <2>1. Dist(Advance(dirty_tx, 1), dirty_tx) = TX_DESC_CNT - 1
    BY <1>2, TxAssumption DEF Dist, Advance, Slots
  <2>2. Pos(i)' = Dist(dirty_tx', i)
    BY DEF Pos, Dist
  <2> QED
    BY <1>1, <1>2, <1>6, <2>1, <2>2
<1> QED
  BY <1>1, <1>2, <1>3, <1>4, <1>5, <1>6 DEF Free

LEMMA StepRead ==
    ASSUME TxInv, DmaContext \/ DmaData
    PROVE  Read
<1>1. /\ desc[dma.idx].own /\ desc' = [desc EXCEPT ![dma.idx].own = FALSE]
      /\ UNCHANGED <<pc, xm, ctl, ctx, buf, fate, shape>>
  BY DEF DmaContext, DmaData, DmaOwns
<1>2. Passed' = Passed
  BY <1>1 DEF Passed, ToPass, DescsUsed, NeedsMssCtx, ctl, ctx
<1>3. dma'.idx = Advance(dma.idx, 1)
  BY DEF DmaContext, DmaData, TxInv, TypeOK, DmaType
<1> QED
  BY <1>1, <1>2, <1>3 DEF Read, ctl, ctx

LEMMA StepKinds ==
    ASSUME TxInv, Fresh, InWork, OneContext, [Next]_vars
    PROVE  \/ Keep \/ Complete \/ HandOver \/ Free \/ Read
           \/ \E c \in Slots, d \in DescType : PushContext(c, d) \/ PushFirst(c, d)
<1>1. CASE \/ \E s \in Skbs : Xmit(s)
           \/ PreVlan /\ ~xm.vlan
           \/ PreMss /\ ~NeedsMssCtx(xm)
           \/ PreTail \/ CleanStart \/ CleanEnd \/ DmaSuspend \/ UNCHANGED vars
  BY <1>1, StepKeep
<1>2. CASE (PreVlan /\ xm.vlan) \/ (PreMss /\ NeedsMssCtx(xm))
  BY <1>2, StepContext
<1>3. CASE PreFirst
  BY <1>3, StepFirst
<1>4. CASE PreRest \/ PreOwn \/ CleanOne \/ DmaContext \/ DmaData
  BY <1>4, StepComplete, StepHandOver, StepFree, StepRead
<1> QED
  BY <1>1, <1>2, <1>3, <1>4 DEF Next, PreTransmitStep, Clean, Dma

\* What every argument about the window starts from.
LEMMA Ground ==
    ASSUME TxInv
    PROVE  /\ desc \in [Slots -> DescType] /\ dma.idx \in Slots /\ dirty_tx \in Slots
           /\ Slots \subseteq Nat /\ TX_DESC_CNT \in Nat \ {0, 1}
           /\ Passed \in Nat /\ tx_pkt_queued \in Nat
           /\ Passed <= tx_pkt_queued /\ tx_pkt_queued <= TX_DESC_CNT
           /\ \A i \in Slots : Pos(i) \in Nat /\ Pos(i) < TX_DESC_CNT
           /\ \A i, j \in Slots : Pos(i) = Pos(j) => i = j
<1>1. /\ dma.idx \in Slots /\ dirty_tx \in Slots /\ desc \in [Slots -> DescType]
  BY Elements DEF TxInv
<1>2. /\ tx_pkt_queued \in 0 .. TX_DESC_CNT /\ Passed \in 0 .. TX_DESC_CNT
      /\ Passed <= tx_pkt_queued
  BY Counts
<1>3. \A i, j \in Slots : Pos(i) = Pos(j) => i = j
  BY Places
<1>4. \A i \in Slots : Pos(i) \in Slots
  BY Places
<1> QED
  BY <1>1, <1>2, <1>3, <1>4, TxAssumption DEF Slots

LEMMA SamePos ==
    ASSUME dirty_tx' = dirty_tx
    PROVE  \A i \in Slots : Pos(i)' = Pos(i)
BY DEF Pos, Dist

\* The slot the channel comes to, if it has not passed the whole window.
LEMMA Index ==
    ASSUME TxInv, NEW at \in 0 .. Passed, Owned(at), at < TX_DESC_CNT
    PROVE  Pos(dma.idx) = at
<1>1. dma.idx = Advance(dirty_tx, at)
  BY DEF Owned
<1>2. at \in 0 .. TX_DESC_CNT - 1
  BY Ground
<1> QED
  BY <1>1, <1>2, PosAt

\* A descriptor the channel owns is the one it comes to, or one after it.
LEMMA ReadPlace ==
    ASSUME TxInv, NEW at \in 0 .. Passed, Owned(at), desc[dma.idx].own
    PROVE  Pos(dma.idx) = at /\ at < Passed /\ ~InHand(dma.idx)
<1>1. at <= Pos(dma.idx) /\ Pos(dma.idx) < Passed /\ ~InHand(dma.idx)
  BY Ground DEF Owned
<1>2. Pos(dma.idx) = at
  BY <1>1, Index, Ground
<1> QED
  BY <1>1, <1>2

LEMMA OwnedKeep ==
    ASSUME TxInv, NEW at \in 0 .. Passed, Owned(at), Keep
    PROVE  Owned(at)'
<1>1. \A i \in Slots : Pos(i)' = Pos(i) /\ (InHand(i)' <=> InHand(i))
  BY SamePos DEF Keep, InHand
<1>2. dma'.idx = Advance(dirty_tx', at)
  BY DEF Keep, Owned
<1> QED
  BY <1>1, <1>2 DEF Keep, Owned

LEMMA OwnedPush ==
    ASSUME TxInv, NEW at \in 0 .. Passed, Owned(at), NEW c \in Slots, NEW d \in DescType,
           PushContext(c, d) \/ PushFirst(c, d)
    PROVE  Owned(at)'
<1>1. /\ \A i \in Slots : Pos(i)' = Pos(i)
      /\ Pos(c) = Passed /\ Passed' = Passed + 1 /\ desc' = [desc EXCEPT ![c] = d]
      /\ dma' = dma /\ dirty_tx' = dirty_tx /\ pc \notin {"rest", "own"}
  BY SamePos DEF PushContext, PushFirst, Push
<1>2. \A i \in Slots : ~InHand(i)
  BY <1>1 DEF InHand
<1>3. \A i \in Slots : InHand(i)' <=> (i = c /\ ~d.own)
  BY DEF PushContext, PushFirst, InHand
<1>4. d.own \in BOOLEAN /\ \A i \in Slots : desc[i].own \in BOOLEAN
  BY Ground DEF DescType
<1>5. ASSUME NEW i \in Slots
      PROVE  desc'[i].own <=> at <= Pos(i) /\ Pos(i) < Passed + 1 /\ ~InHand(i)'
  <2>1. CASE i = c
    <3>1. desc'[i] = d /\ Pos(i) = Passed /\ at <= Passed
      BY <1>1, <2>1, Ground
    <3> QED
      BY <1>3, <1>4, <2>1, <3>1, Ground
  <2>2. CASE i # c
    <3>1. desc'[i] = desc[i] /\ Pos(i) # Passed
      BY <1>1, <2>2, Ground
    <3>2. desc[i].own <=> at <= Pos(i) /\ Pos(i) < Passed
      BY <1>2 DEF Owned
    <3>3. Pos(i) < Passed <=> Pos(i) < Passed + 1
      BY <3>1, Ground
    <3> QED
      BY <1>3, <2>2, <3>1, <3>2, <3>3
  <2> QED
    BY <2>1, <2>2
<1>6. \A i \in Slots : InHand(i)' => at <= Pos(i)
  BY <1>1, <1>3, Ground
<1> QED
  BY <1>1, <1>5, <1>6 DEF Owned

LEMMA OwnedComplete ==
    ASSUME TxInv, NEW at \in 0 .. Passed, Owned(at), Complete
    PROVE  Owned(at)'
<1>1. /\ \A i \in Slots : Pos(i)' = Pos(i)
      /\ \A i \in Slots : InHand(i)' <=> i = xm.at
      /\ \A i \in Slots : InHand(i) <=> i = xm.at
      /\ dma' = dma /\ dirty_tx' = dirty_tx /\ Passed' = tx_pkt_queued
      /\ xm.at \in Slots /\ Pos(xm.at) = FirstPos /\ Passed = FirstPos + 1
  BY SamePos, Elements DEF Complete, InHand, TxInv
<1>2. FirstPos \in Nat
  BY <1>1, Ground
<1>3. ASSUME NEW i \in Slots
      PROVE  desc'[i].own <=> at <= Pos(i) /\ Pos(i) < tx_pkt_queued /\ ~InHand(i)'
  <2>1. CASE i = xm.at
    <3>1. ~desc[i].own
      BY <1>1, <2>1 DEF Owned
    <3>2. desc'[i].own = desc[i].own
      <4>1. desc'[i] = [desc[i] EXCEPT !.ld = (packet_count = 1)] /\ desc[i] \in DescType
        BY <2>1, Ground DEF Complete
      <4> QED
        BY <4>1 DEF DescType
    <3> QED
      BY <1>1, <2>1, <3>1, <3>2
  <2>2. CASE Pos(i) < FirstPos
    <3>1. i # xm.at /\ Pos(i) < Passed /\ Pos(i) < tx_pkt_queued
      BY <1>1, <1>2, <2>2, Ground
    <3>2. desc'[i] = desc[i]
      BY <2>2 DEF Complete
    <3> QED
      BY <1>1, <3>1, <3>2 DEF Owned
  <2>3. CASE Pos(i) >= tx_pkt_queued
    <3>1. ~(Pos(i) < Passed) /\ ~(Pos(i) < tx_pkt_queued)
      BY <2>3, Ground
    <3>2. desc'[i] = desc[i]
      BY <2>3 DEF Complete
    <3> QED
      BY <3>1, <3>2 DEF Owned
  <2>4. CASE Passed <= Pos(i) /\ Pos(i) < tx_pkt_queued
    <3>1. desc'[i].own
      BY <2>4 DEF Complete, NoDesc
    <3>2. i # xm.at /\ at <= Pos(i)
      BY <1>1, <1>2, <2>4, Ground
    <3> QED
      BY <1>1, <2>4, <3>1, <3>2
  <2>5. Pos(i) = FirstPos => i = xm.at
    BY <1>1, Ground
  <2> QED
    BY <1>1, <1>2, <2>1, <2>2, <2>3, <2>4, <2>5, Ground
<1> QED
  BY <1>1, <1>3 DEF Owned

LEMMA OwnedHandOver ==
    ASSUME TxInv, NEW at \in 0 .. Passed, Owned(at), HandOver
    PROVE  Owned(at)'
<1>1. /\ \A i \in Slots : Pos(i)' = Pos(i)
      /\ \A i \in Slots : ~InHand(i)'
      /\ \A i \in Slots : InHand(i) <=> i = xm.at
      /\ dma' = dma /\ dirty_tx' = dirty_tx /\ Passed' = Passed
      /\ xm.at \in Slots /\ Pos(xm.at) < Passed
  BY SamePos, Elements DEF HandOver, InHand, TxInv
<1>2. ASSUME NEW i \in Slots
      PROVE  desc'[i].own <=> at <= Pos(i) /\ Pos(i) < Passed
  <2>1. desc'[i].own = (desc[i].own \/ i = xm.at)
    BY Ground DEF HandOver, DescType
  <2> QED
    BY <1>1, <2>1 DEF Owned
<1> QED
  BY <1>1, <1>2 DEF Owned

LEMMA OwnedFree ==
    ASSUME TxInv, NEW at \in 0 .. Passed, Owned(at), Free
    PROVE  at > 0 /\ at - 1 \in 0 .. Passed' /\ Owned(at - 1)'
<1>1. \A i \in Slots : ~InHand(i) /\ ~InHand(i)'
  BY DEF Free, InHand
<1>2. at > 0
  <2>1. dirty_tx \in Slots /\ ~desc[dirty_tx].own /\ Pos(dirty_tx) = 0 /\ 0 < Passed
    BY Ground DEF Free
  <2>2. ~(at <= 0)
    BY <1>1, <2>1 DEF Owned
  <2> QED
    BY <2>2, Ground
<1>3. at - 1 \in 0 .. Passed'
  BY <1>2, Ground DEF Free
<1>4. dma'.idx = Advance(dirty_tx', at - 1)
  <2>1. Advance(Advance(dirty_tx, 1), at - 1) = Advance(dirty_tx, 1 + (at - 1))
    BY <1>2, Ground, AdvanceTwice
  <2>2. 1 + (at - 1) = at
    BY Ground
  <2>3. dma.idx = Advance(dirty_tx, at)
    BY DEF Owned
  <2> QED
    BY <2>1, <2>2, <2>3 DEF Free
<1>5. ASSUME NEW i \in Slots
      PROVE  (desc'[i].own <=> (at - 1 <= Pos(i) /\ Pos(i) < Passed)')
  <2>1. CASE i = dirty_tx
    <3>1. Pos(i)' = TX_DESC_CNT - 1 /\ ~desc'[i].own /\ Passed' = Passed - 1
      BY <2>1, Ground DEF Free, NoDesc
    <3> QED
      BY <3>1, Ground
  <2>2. CASE i # dirty_tx
    <3>1. Pos(i)' = Pos(i) - 1 /\ desc'[i] = desc[i] /\ Passed' = Passed - 1
      BY <2>2, Ground DEF Free
    <3>2. desc[i].own <=> at <= Pos(i) /\ Pos(i) < Passed
      BY <1>1 DEF Owned
    <3> QED
      BY <3>1, <3>2, Ground
  <2> QED
    BY <2>1, <2>2
<1> QED
  BY <1>1, <1>2, <1>3, <1>4, <1>5 DEF Owned

LEMMA OwnedRead ==
    ASSUME TxInv, NEW at \in 0 .. Passed, Owned(at), Read
    PROVE  at + 1 \in 0 .. Passed' /\ Owned(at + 1)'
<1>1. Pos(dma.idx) = at /\ at < Passed /\ ~InHand(dma.idx)
  BY ReadPlace DEF Read
<1>2. at + 1 \in 0 .. Passed'
  BY <1>1, Ground DEF Read
<1>3. dma'.idx = Advance(dirty_tx', at + 1)
  BY <1>1, Ground, AdvanceTwice DEF Read, Owned
<1>4. \A i \in Slots : Pos(i)' = Pos(i) /\ (InHand(i)' <=> InHand(i))
  BY SamePos DEF Read, InHand
<1>5. \A i \in Slots : Pos(i) = at <=> i = dma.idx
  BY <1>1, Ground
<1>6. ASSUME NEW i \in Slots
      PROVE  desc'[i].own <=> at + 1 <= Pos(i) /\ Pos(i) < Passed /\ ~InHand(i)
  <2>1. desc'[i].own = (desc[i].own /\ i # dma.idx)
    BY Ground DEF Read, DescType
  <2>2. desc[i].own <=> at <= Pos(i) /\ Pos(i) < Passed /\ ~InHand(i)
    BY DEF Owned
  <2>3. at + 1 <= Pos(i) <=> at <= Pos(i) /\ Pos(i) # at
    BY Ground
  <2> QED
    BY <1>5, <2>1, <2>2, <2>3
<1>7. ASSUME NEW i \in Slots, InHand(i) PROVE at + 1 <= Pos(i)
  <2>1. at <= Pos(i) /\ Pos(i) # at
    BY <1>1, <1>5, <1>7 DEF Owned
  <2> QED
    BY <2>1, Ground
<1> QED
  BY <1>2, <1>3, <1>4, <1>6, <1>7 DEF Owned, Read

\* A step that moves no slot and changes no field but OWN.
Still ==
    /\ dirty_tx' = dirty_tx /\ Passed' = Passed
    /\ \A i \in Slots :
          /\ Fields(i)' = Fields(i) /\ Pos(i)' = Pos(i)
          /\ Written(i)' <=> Written(i)
          /\ Pos(i) >= Passed => desc'[i] = desc[i]
          /\ Pos(i) < Passed => buf'[i].skb = buf[i].skb

LEMMA StillSteps ==
    ASSUME TxInv, NEW at \in 0 .. Passed, Owned(at), Keep \/ HandOver \/ Read
    PROVE  Still
<1>1. CASE Keep
  <2>1. \A i \in Slots : Pos(i)' = Pos(i)
    BY <1>1, SamePos DEF Keep
  <2> QED
    BY <1>1, <2>1 DEF Keep, Still, Fields, Written
<1>2. ASSUME NEW j \in Slots, NEW b \in BOOLEAN, desc' = [desc EXCEPT ![j].own = b]
      PROVE  \A i \in Slots : Fields(i)' = Fields(i) /\ (i # j => desc'[i] = desc[i])
  BY <1>2, Ground DEF Fields, DescType
<1>3. CASE HandOver
  <2>1. \A i \in Slots : Pos(i)' = Pos(i)
    BY <1>3, SamePos DEF HandOver
  <2>2. xm.at \in Slots /\ Pos(xm.at) < Passed
    BY <1>3, Elements DEF HandOver, TxInv
  <2>3. \A i \in Slots : Fields(i)' = Fields(i) /\ (i # xm.at => desc'[i] = desc[i])
    BY <1>2, <1>3, <2>2 DEF HandOver
  <2>4. \A i \in Slots : Pos(i) >= Passed => i # xm.at
    BY <2>2, Ground
  <2>5. \A i \in Slots : Written(i)' <=> Written(i)
    BY <1>3, <2>1 DEF HandOver, Written
  <2> QED
    BY <1>3, <2>1, <2>3, <2>4, <2>5 DEF HandOver, Still
<1>4. CASE Read
  <2>1. \A i \in Slots : Pos(i)' = Pos(i)
    BY <1>4, SamePos DEF Read
  <2>2. dma.idx \in Slots /\ Pos(dma.idx) < Passed
    BY <1>4, ReadPlace, Ground DEF Read
  <2>3. \A i \in Slots : Fields(i)' = Fields(i) /\ (i # dma.idx => desc'[i] = desc[i])
    BY <1>2, <1>4, <2>2 DEF Read
  <2>4. \A i \in Slots : Pos(i) >= Passed => i # dma.idx
    BY <2>2, Ground
  <2>5. \A i \in Slots : Written(i)' <=> Written(i)
    BY <1>4, <2>1 DEF Read, Written
  <2> QED
    BY <1>4, <2>1, <2>3, <2>4, <2>5 DEF Read, Still
<1> QED
  BY <1>1, <1>3, <1>4

\* A written descriptor is a context descriptor or a part, never both; its kind
\* does not change when its fields do not.
LEMMA StillParts ==
    ASSUME shape' = shape, Still
    PROVE  \A i \in Slots :
              /\ Starts(i)' <=> Starts(i)
              /\ \A s \in Skbs, k \in Nat : IsPart(i, s, k)' <=> IsPart(i, s, k)
              /\ desc'[i].ctxt = desc[i].ctxt /\ desc'[i].ld = desc[i].ld
              /\ desc'[i].mss = desc[i].mss
BY PartKeeps DEF Still, Fields

LEMMA Sizes ==
    ASSUME TxInv, NEW s \in Skbs
    PROVE  /\ DataDescs(shape[s]) \in Nat
           /\ \A k \in 1 .. DataDescs(shape[s]) : k \in Nat
           /\ \A k \in 1 .. DataDescs(shape[s]) - 1 : k \in Nat /\ k + 1 \in Nat
<1>1. shape[s].lin \in Nat /\ shape[s].frags \in Nat
  BY TxAssumption DEF TxInv, TypeOK, ShapeType
<1>2. DataDescs(shape[s]) \in Nat
  BY <1>1, HalfBounds DEF DataDescs
<1> QED
  BY <1>2

LEMMA LaidStill ==
    ASSUME TxInv, Laid, shape' = shape, Still
    PROVE  Laid'
<1> SUFFICES ASSUME NEW i \in Slots, Written(i)'
             PROVE \/ desc'[i].ctxt /\ buf'[i].skb = 0
                   \/ \E s \in Skbs : \E k \in 1 .. DataDescs(shape'[s]) :
                        IsPart(i, s, k)' /\ buf'[i].skb = IF k = DataDescs(shape'[s]) THEN s ELSE 0
  BY DEF Laid
<1>1. Written(i) /\ Pos(i) < Passed /\ buf'[i].skb = buf[i].skb
  BY DEF Still, Written
<1>2. CASE desc[i].ctxt /\ buf[i].skb = 0
  BY <1>1, <1>2, StillParts
<1>3. ASSUME NEW s \in Skbs, NEW k \in 1 .. DataDescs(shape[s]), IsPart(i, s, k),
             buf[i].skb = IF k = DataDescs(shape[s]) THEN s ELSE 0
      PROVE  IsPart(i, s, k)' /\ buf'[i].skb = IF k = DataDescs(shape'[s]) THEN s ELSE 0
  BY <1>1, <1>3, StillParts, Sizes
<1> QED
  BY <1>1, <1>2, <1>3 DEF Laid

LEMMA FreshStill ==
    ASSUME Fresh, Still
    PROVE  Fresh'
BY DEF Fresh, Still

LEMMA ChainStill ==
    ASSUME TxInv, Chain, shape' = shape, Still
    PROVE  Chain'
<1>1. ASSUME NEW i \in Slots, NEW s \in Skbs, NEW k \in 1 .. DataDescs(shape[s]) - 1,
             Written(i)', IsPart(i, s, k)'
      PROVE  (Pos(i) + 1 < Passed)' /\ IsPart(Advance(i, 1), s, k + 1)'
  <2>1. Written(i) /\ IsPart(i, s, k) /\ k + 1 \in Nat
    BY <1>1, StillParts, Sizes DEF Still
  <2>2. Pos(i) + 1 < Passed /\ IsPart(Advance(i, 1), s, k + 1) /\ Advance(i, 1) \in Slots
    BY <2>1, AdvanceOne DEF Chain
  <2> QED
    BY <2>1, <2>2, StillParts DEF Still
<1>2. ASSUME NEW i \in Slots, Written(i)', desc'[i].ctxt \/ desc'[i].ld, (Pos(i) + 1 < Passed)'
      PROVE  Starts(Advance(i, 1))'
  <2>1. Written(i) /\ (desc[i].ctxt \/ desc[i].ld) /\ Pos(i) + 1 < Passed
    BY <1>2, StillParts DEF Still
  <2>2. Starts(Advance(i, 1)) /\ Advance(i, 1) \in Slots
    BY <2>1, AdvanceOne DEF Chain
  <2> QED
    BY <2>2, StillParts
<1> QED
  BY <1>1, <1>2 DEF Chain

\* What Push leaves of the window.
LEMMA PushFacts ==
    ASSUME TxInv, shape' = shape, NEW c \in Slots, NEW d \in DescType,
           PushContext(c, d) \/ PushFirst(c, d)
    PROVE  /\ Pos(c) = Passed /\ Passed' = Passed + 1 /\ dirty_tx' = dirty_tx
           /\ desc'[c] = d /\ (d.ctxt \/ d.fd)
           /\ \A i \in Slots : Pos(i)' = Pos(i) /\ buf'[i] = buf[i]
           /\ \A i \in Slots : i # c =>
                 /\ desc'[i] = desc[i] /\ (Starts(i)' <=> Starts(i))
                 /\ \A s \in Skbs, k \in Nat : IsPart(i, s, k)' <=> IsPart(i, s, k)
                 /\ Written(i)' <=> Written(i)
                 /\ Written(i) <=> Pos(i) < Passed
           /\ \A i \in Slots : i = c =>
                 /\ Starts(i)' /\ (Written(i)' <=> PushContext(c, d))
                 /\ Written(i)' => desc'[i].ctxt
<1>1. /\ Pos(c) = Passed /\ Passed' = Passed + 1 /\ dirty_tx' = dirty_tx /\ buf' = buf
      /\ desc' = [desc EXCEPT ![c] = d] /\ (d.ctxt \/ d.fd) /\ pc \notin {"rest", "own"}
      /\ \A i \in Slots : Pos(i)' = Pos(i)
  BY SamePos DEF PushContext, PushFirst, Push
<1>2. desc'[c] = d /\ \A i \in Slots : i # c => desc'[i] = desc[i]
  BY <1>1, Ground
<1>3. ASSUME NEW i \in Slots, i # c
      PROVE  /\ Starts(i)' <=> Starts(i)
             /\ \A s \in Skbs, k \in Nat : IsPart(i, s, k)' <=> IsPart(i, s, k)
             /\ Written(i)' <=> Written(i)
             /\ Written(i) <=> Pos(i) < Passed
  <2>1. Fields(i)' = Fields(i)
    BY <1>2, <1>3 DEF Fields
  <2>2. Written(i) <=> Pos(i) < Passed
    BY <1>1 DEF Written
  <2>3. Pos(i) < Passed + 1 <=> Pos(i) < Passed
    BY <1>1, <1>3, Ground
  <2>4. pc' = "rest" => xm'.at = c
    BY DEF PushContext, PushFirst
  <2>5. Written(i)' <=> Pos(i) < Passed + 1
    BY <1>1, <1>3, <2>4 DEF Written
  <2> QED
    BY <2>1, <2>2, <2>3, <2>5, PartKeeps
<1>4. ASSUME NEW i \in Slots, i = c
      PROVE  /\ Starts(i)' /\ (Written(i)' <=> PushContext(c, d))
             /\ Written(i)' => desc'[i].ctxt
  <2>1. Pos(i)' < Passed'
    BY <1>1, <1>4, Ground
  <2>2. Starts(i)'
    BY <1>1, <1>2, <1>4 DEF Starts
  <2>3. CASE PushContext(c, d)
    BY <1>2, <1>4, <2>1, <2>2, <2>3 DEF Written, PushContext
  <2>4. CASE PushFirst(c, d)
    BY <1>4, <2>2, <2>4 DEF Written, PushFirst, PushContext
  <2> QED
    BY <2>3, <2>4
<1> QED
  BY <1>1, <1>2, <1>3, <1>4

LEMMA FreshPush ==
    ASSUME TxInv, Fresh, shape' = shape, NEW c \in Slots, NEW d \in DescType,
           PushContext(c, d) \/ PushFirst(c, d)
    PROVE  Fresh'
<1> SUFFICES ASSUME NEW i \in Slots, Pos(i)' >= Passed' PROVE desc'[i] = NoDesc
  BY DEF Fresh
<1>1. Pos(i) >= Passed + 1 /\ i # c
  BY PushFacts, Ground
<1>2. desc[i] = NoDesc
  BY <1>1, Ground DEF Fresh
<1> QED
  BY <1>1, <1>2, PushFacts

LEMMA LaidPush ==
    ASSUME TxInv, Laid, shape' = shape, NEW c \in Slots, NEW d \in DescType,
           PushContext(c, d) \/ PushFirst(c, d)
    PROVE  Laid'
<1> SUFFICES ASSUME NEW i \in Slots, Written(i)'
             PROVE \/ desc'[i].ctxt /\ buf'[i].skb = 0
                   \/ \E s \in Skbs : \E k \in 1 .. DataDescs(shape'[s]) :
                        IsPart(i, s, k)' /\ buf'[i].skb = IF k = DataDescs(shape'[s]) THEN s ELSE 0
  BY DEF Laid
<1>1. CASE i = c
  <2>1. PushContext(c, d) /\ desc'[i].ctxt /\ buf'[i] = buf[i]
    BY <1>1, PushFacts
  <2> QED
    BY <1>1, <2>1 DEF PushContext
<1>2. CASE i # c
  <2>1. Written(i) /\ buf'[i] = buf[i] /\ desc'[i] = desc[i]
    BY <1>2, PushFacts
  <2>2. ASSUME NEW s \in Skbs, NEW k \in 1 .. DataDescs(shape[s]), IsPart(i, s, k)
        PROVE  IsPart(i, s, k)'
    BY <1>2, <2>2, PushFacts, Sizes
  <2> QED
    BY <2>1, <2>2 DEF Laid
<1> QED
  BY <1>1, <1>2

LEMMA ChainPush ==
    ASSUME TxInv, Chain, shape' = shape, NEW c \in Slots, NEW d \in DescType,
           PushContext(c, d) \/ PushFirst(c, d)
    PROVE  Chain'
<1>1. ASSUME NEW i \in Slots, NEW s \in Skbs, NEW k \in 1 .. DataDescs(shape[s]) - 1,
             Written(i)', IsPart(i, s, k)'
      PROVE  (Pos(i) + 1 < Passed)' /\ IsPart(Advance(i, 1), s, k + 1)'
  <2>1. i # c
    BY <1>1, PushFacts DEF IsPart
  <2>2. Written(i) /\ IsPart(i, s, k) /\ k + 1 \in Nat
    BY <1>1, <2>1, PushFacts, Sizes
  <2>3. Pos(i) + 1 < Passed /\ IsPart(Advance(i, 1), s, k + 1)
    BY <2>2 DEF Chain
  <2>4. Advance(i, 1) \in Slots /\ Pos(Advance(i, 1)) = Pos(i) + 1
    BY <2>3, Ground, PosNext
  <2>5. Advance(i, 1) # c
    BY <2>3, <2>4, PushFacts, Ground
  <2>6. Pos(i)' + 1 < Passed'
    BY <2>3, PushFacts, Ground
  <2> QED
    BY <2>2, <2>3, <2>4, <2>5, <2>6, PushFacts
<1>2. ASSUME NEW i \in Slots, Written(i)', desc'[i].ctxt \/ desc'[i].ld, (Pos(i) + 1 < Passed)'
      PROVE  Starts(Advance(i, 1))'
  <2>1. Pos(i) + 1 < Passed + 1 /\ i # c /\ Pos(i) + 1 < TX_DESC_CNT
    BY <1>2, PushFacts, Ground
  <2>2. Written(i) /\ (desc[i].ctxt \/ desc[i].ld)
    BY <1>2, <2>1, PushFacts
  <2>3. Advance(i, 1) \in Slots /\ Pos(Advance(i, 1)) = Pos(i) + 1
    BY <2>1, PosNext
  <2>4. CASE Pos(i) + 1 < Passed
    <3>1. Starts(Advance(i, 1))
      BY <2>2, <2>4 DEF Chain
    <3> QED
      BY <2>3, <3>1, PushFacts
  <2>5. CASE ~(Pos(i) + 1 < Passed)
    <3>1. Pos(Advance(i, 1)) = Passed
      BY <2>1, <2>3, <2>5, Ground
    <3>2. Advance(i, 1) = c
      BY <2>3, <3>1, PushFacts, Ground
    <3> QED
      BY <2>3, <3>2, PushFacts
  <2> QED
    BY <2>4, <2>5
<1> QED
  BY <1>1, <1>2 DEF Chain

\* The buffers of a packet are all different: the descriptor says which part of
\* which packet it is.
LEMMA MappedOnce ==
    ASSUME TxInv, NEW s \in Skbs, NEW t \in Skbs, NEW k \in Nat \ {0}, NEW n \in Nat \ {0},
           Mapped(s, k) = Mapped(t, n)
    PROVE  s = t /\ k = n
<1> DEFINE p == shape[s]
           h == Half(p.lin)
<1>1. p.lin \in Nat /\ p.frags \in Nat
  BY TxAssumption DEF TxInv, TypeOK, ShapeType
<1>2. h \in Nat /\ 2 * h - 1 <= p.lin /\ p.lin <= 2 * h
  BY <1>1 DEF Half
<1>3. s = t
  <2>1. Mapped(s, k).of = s /\ Mapped(t, n).of = t
    BY DEF Mapped
  <2> QED
    BY <2>1
<1>4. PieceOf(p, k).first = PieceOf(p, n).first
  <2>1. Mapped(s, k).dma = PieceOf(p, k).first /\ Mapped(t, n).dma = PieceOf(p, n).first
    BY <1>3 DEF Mapped
  <2> QED
    BY <2>1
<1>5. ASSUME NEW m \in Nat \ {0}
      PROVE  PieceOf(p, m).first = IF m <= h THEN 2 * m - 1 ELSE p.lin + 2 * (m - h) - 1
  BY <1>1, <1>2 DEF PieceOf
<1> HIDE DEF h
<1>6. k = n
  BY <1>1, <1>2, <1>4, <1>5
<1> QED
  BY <1>3, <1>6

\* What Complete leaves of the window: the packet in hand lies in the places
\* from FirstPos on, all of it.
LEMMA CompleteFacts ==
    ASSUME TxInv, Fresh, InWork, Complete, shape' = shape
    PROVE  /\ xm.at \in Slots /\ Pos(xm.at) = FirstPos /\ FirstPos \in Nat /\ FirstPos < tx_pkt_queued
           /\ Passed = FirstPos + 1 /\ Passed' = tx_pkt_queued /\ dirty_tx' = dirty_tx
           /\ DataDescs(shape[xm.s]) = tx_pkt_queued - FirstPos /\ xm.s \in Skbs
           /\ desc[xm.at].fd /\ desc'[xm.at].fd
           /\ \A i \in Slots : Pos(i)' = Pos(i) /\ (Written(i)' <=> Pos(i) < tx_pkt_queued)
           /\ \A i \in Slots : Pos(i) < FirstPos \/ Pos(i) >= tx_pkt_queued =>
                 /\ desc'[i] = desc[i] /\ (Starts(i)' <=> Starts(i)) /\ i # xm.at
                 /\ \A s \in Skbs, k \in Nat : IsPart(i, s, k)' <=> IsPart(i, s, k)
           /\ \A i \in Slots : Pos(i) < FirstPos => Written(i)
           /\ \A i \in Slots, s \in Skbs, k \in Nat :
                 /\ FirstPos <= Pos(i) /\ Pos(i) < tx_pkt_queued
                 /\ s = xm.s /\ k = Pos(i) - FirstPos + 1
                 => IsPart(i, s, k)'
<1>1. /\ xm.at \in Slots /\ Pos(xm.at) = FirstPos
      /\ Passed = FirstPos + 1 /\ Passed' = tx_pkt_queued /\ dirty_tx' = dirty_tx
      /\ packet_count = DataDescs(shape[xm.s]) /\ packet_count >= 1
      /\ pc = "rest" /\ pc' = "own"
      /\ desc'[xm.at] = [desc[xm.at] EXCEPT !.ld = (packet_count = 1)]
      /\ \A i \in Slots : Pos(i)' = Pos(i)
  BY Elements, SamePos DEF Complete, TxInv
<1>2. /\ FirstPos \in Nat /\ FirstPos < tx_pkt_queued
      /\ packet_count = tx_pkt_queued - FirstPos /\ packet_count \in Nat
  BY <1>1, Ground, Counts DEF FirstPos
<1>3. xm.s \in Skbs
  BY <1>1 DEF TxInv, Preparing
<1>4. desc[xm.at] \in DescType
  BY <1>1, Ground
<1>5. /\ ~desc[xm.at].ctxt /\ desc[xm.at].data = Mapped(xm.s, 1)
      /\ desc[xm.at].fd /\ desc[xm.at].tse = TsoEnabled(shape[xm.s])
  BY <1>1 DEF InWork
<1>6. /\ ~desc'[xm.at].ctxt /\ desc'[xm.at].data = Mapped(xm.s, 1)
      /\ desc'[xm.at].fd /\ desc'[xm.at].tse = TsoEnabled(shape[xm.s])
      /\ desc'[xm.at].ld = (packet_count = 1)
  BY <1>1, <1>4, <1>5 DEF DescType
<1>8. ASSUME NEW i \in Slots
      PROVE  Written(i)' <=> Pos(i) < tx_pkt_queued
  BY <1>1 DEF Written
<1>9. ASSUME NEW i \in Slots, Pos(i) < FirstPos \/ Pos(i) >= tx_pkt_queued
      PROVE  /\ desc'[i] = desc[i] /\ (Starts(i)' <=> Starts(i)) /\ i # xm.at
             /\ \A s \in Skbs, k \in Nat : IsPart(i, s, k)' <=> IsPart(i, s, k)
  <2>1. desc'[i] = desc[i]
    BY <1>9 DEF Complete
  <2>2. i # xm.at
    BY <1>1, <1>2, <1>9, Ground
  <2> QED
    BY <2>1, <2>2, PartKeeps DEF Fields
<1>10. ASSUME NEW i \in Slots, Pos(i) < FirstPos PROVE Written(i)
  <2>1. i # xm.at /\ Pos(i) < Passed
    BY <1>1, <1>2, <1>10, Ground
  <2> QED
    BY <2>1 DEF Written
<1>11. ASSUME NEW i \in Slots, NEW s \in Skbs, NEW k \in Nat,
              FirstPos <= Pos(i), Pos(i) < tx_pkt_queued, s = xm.s, k = Pos(i) - FirstPos + 1
       PROVE  IsPart(i, s, k)'
  <2>1. Mapped(s, k)' = Mapped(s, k)
    BY DEF Mapped
  <2>2. CASE i = xm.at
    <3>1. k = 1
      BY <1>1, <1>2, <1>11, <2>2
    <3> QED
      BY <1>1, <1>6, <1>11, <2>1, <2>2, <3>1 DEF IsPart, TsoEnabled
  <2>3. CASE i # xm.at
    <3>1. Passed <= Pos(i) /\ k # 1 /\ (Pos(i) = tx_pkt_queued - 1 <=> k = packet_count)
      BY <1>1, <1>2, <1>11, <2>3, Ground
    <3>2. desc'[i] = [NoDesc EXCEPT !.data = Mapped(s, k),
                          !.ctxt = FALSE, !.own = TRUE, !.ld = (Pos(i) = tx_pkt_queued - 1)]
      BY <1>11, <3>1 DEF Complete
    <3>3. ~desc'[i].ctxt /\ desc'[i].data = Mapped(s, k) /\ ~desc'[i].fd
          /\ desc'[i].ld = (Pos(i) = tx_pkt_queued - 1)
      BY <3>2 DEF NoDesc
    <3> QED
      BY <1>1, <1>11, <2>1, <3>1, <3>3 DEF IsPart
  <2> QED
    BY <2>2, <2>3
<1> QED
  BY <1>1, <1>2, <1>3, <1>5, <1>6, <1>8, <1>9, <1>10, <1>11

LEMMA FreshComplete ==
    ASSUME TxInv, Fresh, InWork, Complete, shape' = shape
    PROVE  Fresh'
<1> SUFFICES ASSUME NEW i \in Slots, Pos(i)' >= Passed' PROVE desc'[i] = NoDesc
  BY DEF Fresh
<1>1. Pos(i) >= tx_pkt_queued /\ Pos(i) >= Passed
  BY CompleteFacts, Ground
<1> QED
  BY <1>1, CompleteFacts DEF Fresh

LEMMA LaidComplete ==
    ASSUME TxInv, Fresh, InWork, Laid, Complete, shape' = shape
    PROVE  Laid'
<1> SUFFICES ASSUME NEW i \in Slots, Written(i)'
             PROVE \/ desc'[i].ctxt /\ buf'[i].skb = 0
                   \/ \E s \in Skbs : \E k \in 1 .. DataDescs(shape'[s]) :
                        IsPart(i, s, k)' /\ buf'[i].skb = IF k = DataDescs(shape'[s]) THEN s ELSE 0
  BY DEF Laid
<1>0. buf' = buf /\ Pos(i) < tx_pkt_queued /\ Pos(i) \in Nat
  BY CompleteFacts, Ground DEF Complete
<1>1. CASE Pos(i) < FirstPos
  <2>1. Written(i) /\ desc'[i] = desc[i]
    BY <1>1, CompleteFacts
  <2>2. ASSUME NEW s \in Skbs, NEW k \in 1 .. DataDescs(shape[s]), IsPart(i, s, k)
        PROVE  IsPart(i, s, k)'
    BY <1>1, <2>2, CompleteFacts, Sizes
  <2> QED
    BY <1>0, <2>1, <2>2 DEF Laid
<1>2. CASE FirstPos <= Pos(i)
  <2> DEFINE k == Pos(i) - FirstPos + 1
             n == DataDescs(shape[xm.s])
  <2>1. k \in 1 .. n /\ (k = n <=> Pos(i) = tx_pkt_queued - 1)
    BY <1>0, <1>2, CompleteFacts, Ground
  <2>2. buf[i].skb = IF Pos(i) = tx_pkt_queued - 1 THEN xm.s ELSE 0
    BY <1>0, <1>2 DEF InWork, Complete
  <2>3. PICK s \in Skbs : s = xm.s
    BY CompleteFacts
  <2>4. \A m \in Nat : m = k => IsPart(i, s, m)'
    BY <1>0, <1>2, <2>3, CompleteFacts
  <2> HIDE DEF k
  <2>5. k \in Nat /\ n \in Nat
    BY <2>1, CompleteFacts, Ground
  <2>6. PICK m \in 1 .. n : m = k
    BY <2>1
  <2>7. IsPart(i, s, m)'
    BY <2>4, <2>5, <2>6
  <2>8. buf'[i].skb = IF m = n THEN s ELSE 0
    BY <1>0, <2>1, <2>2, <2>3, <2>6
  <2> QED
    BY <2>3, <2>6, <2>7, <2>8
<1> QED
  BY <1>0, <1>1, <1>2, CompleteFacts

LEMMA ChainComplete ==
    ASSUME TxInv, Fresh, InWork, Chain, Complete, shape' = shape
    PROVE  Chain'
<1>0. ASSUME NEW i \in Slots
      PROVE  Pos(i) \in Nat /\ Pos(i)' = Pos(i) /\ (Written(i)' => Pos(i) < tx_pkt_queued)
  BY CompleteFacts, Ground
<1>1. ASSUME NEW i \in Slots, NEW s \in Skbs, NEW k \in 1 .. DataDescs(shape[s]) - 1,
             Written(i)', IsPart(i, s, k)'
      PROVE  (Pos(i) + 1 < Passed)' /\ IsPart(Advance(i, 1), s, k + 1)'
  <2>0. k \in Nat \ {0} /\ k + 1 \in Nat /\ k + 1 # 1 /\ DataDescs(shape[s]) \in Nat
    BY Sizes
  <2>1. CASE Pos(i) < FirstPos
    <3>1. Written(i) /\ IsPart(i, s, k)
      BY <1>1, <2>0, <2>1, CompleteFacts
    <3>2. Pos(i) + 1 < Passed /\ IsPart(Advance(i, 1), s, k + 1)
      BY <3>1 DEF Chain
    <3>3. Advance(i, 1) \in Slots /\ Pos(Advance(i, 1)) = Pos(i) + 1
      BY <3>2, Ground, PosNext
    <3>4. Advance(i, 1) # xm.at
      BY <2>0, <3>2, CompleteFacts DEF IsPart
    <3>5. Pos(Advance(i, 1)) # FirstPos
      BY <3>3, <3>4, CompleteFacts, Ground
    <3>6. Pos(Advance(i, 1)) < FirstPos /\ Pos(i) + 1 < tx_pkt_queued
      BY <1>0, <3>2, <3>3, <3>5, CompleteFacts, Ground
    <3>7. IsPart(Advance(i, 1), s, k + 1)'
      BY <2>0, <3>2, <3>3, <3>6, CompleteFacts
    <3> QED
      BY <1>0, <3>6, <3>7, CompleteFacts
  <2>2. CASE FirstPos <= Pos(i)
    <3>1. PICK t \in Skbs : t = xm.s
      BY CompleteFacts
    <3>2. Pos(i) < tx_pkt_queued /\ Pos(i) \in Nat
      BY <1>0, <1>1
    <3>3. PICK n \in Nat \ {0} : n = Pos(i) - FirstPos + 1
      BY <2>2, <3>2, CompleteFacts
    <3>4. IsPart(i, t, n)'
      BY <2>2, <3>1, <3>2, <3>3, CompleteFacts
    <3>5. Mapped(s, k) = Mapped(t, n)
      <4>1. Mapped(s, k)' = Mapped(t, n)'
        BY <1>1, <3>4 DEF IsPart
      <4> QED
        BY <4>1 DEF Mapped
    <3>6. s = t /\ k = n
      BY <2>0, <3>5, MappedOnce
    <3>7. Pos(i) + 1 < tx_pkt_queued
      BY <2>0, <3>1, <3>2, <3>3, <3>6, CompleteFacts, Ground
    <3>8. Advance(i, 1) \in Slots /\ Pos(Advance(i, 1)) = Pos(i) + 1
      BY <3>7, PosNext, Ground
    <3>9. IsPart(Advance(i, 1), s, k + 1)'
      <4>1. FirstPos <= Pos(Advance(i, 1)) /\ k + 1 = Pos(Advance(i, 1)) - FirstPos + 1
        BY <2>2, <3>2, <3>3, <3>6, <3>8, CompleteFacts
      <4> QED
        BY <2>0, <3>1, <3>6, <3>7, <3>8, <4>1, CompleteFacts
    <3> QED
      BY <1>0, <3>7, <3>9, CompleteFacts
  <2> QED
    BY <1>0, <2>1, <2>2, CompleteFacts
<1>2. ASSUME NEW i \in Slots, Written(i)', desc'[i].ctxt \/ desc'[i].ld, (Pos(i) + 1 < Passed)'
      PROVE  Starts(Advance(i, 1))'
  <2>0. Pos(i) + 1 < tx_pkt_queued /\ Pos(i) \in Nat
    BY <1>0, <1>2, CompleteFacts
  <2>1. Advance(i, 1) \in Slots /\ Pos(Advance(i, 1)) = Pos(i) + 1
    BY <2>0, PosNext, Ground
  <2>2. CASE Pos(i) < FirstPos
    <3>1. Written(i) /\ desc'[i] = desc[i] /\ Pos(i) + 1 < Passed
      BY <2>0, <2>2, CompleteFacts, Ground
    <3>2. Starts(Advance(i, 1))
      BY <1>2, <3>1 DEF Chain
    <3>3. CASE Advance(i, 1) = xm.at
      BY <2>1, <3>3, CompleteFacts DEF Starts
    <3>4. CASE Advance(i, 1) # xm.at
      <4>1. Pos(Advance(i, 1)) # FirstPos
        BY <2>1, <3>4, CompleteFacts, Ground
      <4>2. Pos(Advance(i, 1)) < FirstPos
        BY <2>0, <2>1, <2>2, <4>1, CompleteFacts
      <4> QED
        BY <2>1, <3>2, <4>2, CompleteFacts
    <3> QED
      BY <3>3, <3>4
  <2>3. CASE FirstPos <= Pos(i)
    <3>1. PICK t \in Skbs : t = xm.s
      BY CompleteFacts
    <3>2. PICK n \in Nat \ {0} : n = Pos(i) - FirstPos + 1
      BY <2>0, <2>3, CompleteFacts
    <3>3. IsPart(i, t, n)'
      BY <2>0, <2>3, <3>1, <3>2, CompleteFacts, Ground
    <3>4. desc'[i].ld /\ ~desc'[i].ctxt
      BY <1>2, <3>3 DEF IsPart
    <3>5. n = DataDescs(shape[t])
      BY <3>3, <3>4 DEF IsPart
    <3>6. Pos(i) + 1 = tx_pkt_queued
      BY <2>0, <3>1, <3>2, <3>5, CompleteFacts, Ground
    <3> QED
      BY <2>0, <3>6, Ground
  <2> QED
    BY <2>0, <2>2, <2>3, CompleteFacts
<1> QED
  BY <1>1, <1>2 DEF Chain

LEMMA FreeFacts ==
    ASSUME TxInv, Free, shape' = shape
    PROVE  /\ Passed' = Passed - 1 /\ Passed > 0
           /\ \A i \in Slots : i # dirty_tx =>
                 /\ desc'[i] = desc[i] /\ buf'[i] = buf[i] /\ Pos(i) > 0 /\ Pos(i)' = Pos(i) - 1
                 /\ Starts(i)' <=> Starts(i)
                 /\ Written(i)' <=> Written(i)
                 /\ \A s \in Skbs, k \in Nat : IsPart(i, s, k)' <=> IsPart(i, s, k)
           /\ \A i \in Slots : Pos(i)' < Passed' => i # dirty_tx
           /\ \A i \in Slots : i = dirty_tx => desc'[i] = NoDesc /\ ~Written(i)' /\ Pos(i) = 0
           /\ \A i \in Slots : Written(i) <=> Pos(i) < Passed
<1>1. /\ Passed' = Passed - 1 /\ Passed > 0 /\ pc = "clean" /\ pc' = "clean"
      /\ desc' = [desc EXCEPT ![dirty_tx] = NoDesc] /\ Pos(dirty_tx) = 0
      /\ \A i \in Slots : i # dirty_tx => Pos(i) > 0 /\ Pos(i)' = Pos(i) - 1 /\ buf'[i] = buf[i]
      /\ \A i \in Slots : i = dirty_tx => Pos(i)' = TX_DESC_CNT - 1
  BY DEF Free
<1>2. ASSUME NEW i \in Slots, i # dirty_tx
      PROVE  /\ desc'[i] = desc[i]
             /\ Starts(i)' <=> Starts(i)
             /\ \A s \in Skbs, k \in Nat : IsPart(i, s, k)' <=> IsPart(i, s, k)
  <2>1. desc'[i] = desc[i]
    BY <1>1, <1>2, Ground
  <2> QED
    BY <2>1, PartKeeps DEF Fields
<1>3. \A i \in Slots : Written(i) <=> Pos(i) < Passed
  BY <1>1 DEF Written
<1>4. \A i \in Slots : Written(i)' <=> Pos(i)' < Passed - 1
  BY <1>1 DEF Written
<1>5. ASSUME NEW i \in Slots, i = dirty_tx PROVE ~(Pos(i)' < Passed - 1) /\ desc'[i] = NoDesc
  <2>1. Pos(i)' = TX_DESC_CNT - 1
    BY <1>1, <1>5
  <2> QED
    BY <1>1, <1>5, <2>1, Ground
<1>6. ASSUME NEW i \in Slots, i # dirty_tx PROVE Pos(i)' < Passed - 1 <=> Pos(i) < Passed
  BY <1>1, <1>6, Ground
<1> QED
  BY <1>1, <1>2, <1>3, <1>4, <1>5, <1>6

LEMMA FreshFree ==
    ASSUME TxInv, Fresh, Free, shape' = shape
    PROVE  Fresh'
<1> SUFFICES ASSUME NEW i \in Slots, Pos(i)' >= Passed' PROVE desc'[i] = NoDesc
  BY DEF Fresh
<1>1. CASE i = dirty_tx
  BY <1>1, FreeFacts
<1>2. CASE i # dirty_tx
  <2>1. Pos(i) >= Passed /\ desc'[i] = desc[i]
    BY <1>2, FreeFacts, Ground
  <2> QED
    BY <2>1 DEF Fresh
<1> QED
  BY <1>1, <1>2

LEMMA LaidFree ==
    ASSUME TxInv, Laid, Free, shape' = shape
    PROVE  Laid'
<1> SUFFICES ASSUME NEW i \in Slots, Written(i)'
             PROVE \/ desc'[i].ctxt /\ buf'[i].skb = 0
                   \/ \E s \in Skbs : \E k \in 1 .. DataDescs(shape'[s]) :
                        IsPart(i, s, k)' /\ buf'[i].skb = IF k = DataDescs(shape'[s]) THEN s ELSE 0
  BY DEF Laid
<1>1. i # dirty_tx /\ Written(i) /\ desc'[i] = desc[i] /\ buf'[i] = buf[i]
  BY FreeFacts
<1>2. ASSUME NEW s \in Skbs, NEW k \in 1 .. DataDescs(shape[s]), IsPart(i, s, k)
      PROVE  IsPart(i, s, k)'
  BY <1>1, <1>2, FreeFacts, Sizes
<1> QED
  BY <1>1, <1>2 DEF Laid

LEMMA ChainFree ==
    ASSUME TxInv, Chain, Free, shape' = shape
    PROVE  Chain'
<1>0. ASSUME NEW i \in Slots, i # dirty_tx, Pos(i) + 1 < Passed
      PROVE  Advance(i, 1) \in Slots /\ Advance(i, 1) # dirty_tx /\ (Pos(i) + 1 < Passed)'
  <2>1. Advance(i, 1) \in Slots /\ Pos(Advance(i, 1)) = Pos(i) + 1
    BY <1>0, Ground, PosNext
  <2>2. Pos(dirty_tx) = 0
    BY FreeFacts, Ground
  <2>3. Advance(i, 1) # dirty_tx
    BY <2>1, <2>2, Ground
  <2>4. Pos(i)' + 1 < Passed'
    BY <1>0, FreeFacts, Ground
  <2> QED
    BY <2>1, <2>3, <2>4
<1>1. ASSUME NEW i \in Slots, NEW s \in Skbs, NEW k \in 1 .. DataDescs(shape[s]) - 1,
             Written(i)', IsPart(i, s, k)'
      PROVE  (Pos(i) + 1 < Passed)' /\ IsPart(Advance(i, 1), s, k + 1)'
  <2>1. i # dirty_tx /\ Written(i) /\ IsPart(i, s, k) /\ k + 1 \in Nat
    BY <1>1, FreeFacts, Sizes
  <2>2. Pos(i) + 1 < Passed /\ IsPart(Advance(i, 1), s, k + 1)
    BY <2>1 DEF Chain
  <2> QED
    BY <1>0, <2>1, <2>2, FreeFacts
<1>2. ASSUME NEW i \in Slots, Written(i)', desc'[i].ctxt \/ desc'[i].ld, (Pos(i) + 1 < Passed)'
      PROVE  Starts(Advance(i, 1))'
  <2>1. i # dirty_tx /\ Written(i) /\ desc'[i] = desc[i]
    BY <1>2, FreeFacts
  <2>2. Pos(i) + 1 < Passed
    <3>1. Pos(i)' + 1 < Passed'
      BY <1>2
    <3> QED
      BY <2>1, <3>1, FreeFacts, Ground
  <2>3. Starts(Advance(i, 1))
    BY <1>2, <2>1, <2>2 DEF Chain
  <2> QED
    BY <1>0, <2>1, <2>2, <2>3, FreeFacts
<1> QED
  BY <1>1, <1>2 DEF Chain

-----------------------------------------------------------------------------
(* What the channel has read.                                               *)

LEMMA PartsSame ==
    ASSUME shape' = shape, NEW s \in Skbs, NEW n \in Int
    PROVE  Parts(s, n)' = Parts(s, n)
BY DEF Parts, Mapped

LEMMA OwnedIdx ==
    ASSUME TxInv, NEW at \in 0 .. Passed, Owned(at)
    PROVE  /\ at \in Nat /\ (at < Passed => Pos(dma.idx) = at /\ dma.idx \in Slots)
           /\ at = Passed /\ at < TX_DESC_CNT => Pos(dma.idx) = at
BY Index, Ground

LEMMA BodyKeep ==
    ASSUME TxInv, NEW at \in 0 .. Passed, Owned(at), Body(at), Keep \/ HandOver, shape' = shape
    PROVE  Body(at)'
<1>1. /\ dma'.idx = dma.idx /\ dma'.body = dma.body
      /\ Still /\ Passed' = Passed /\ dma.idx \in Slots
  BY StillSteps, Ground DEF Keep, HandOver
<1>2. /\ Starts(dma.idx)' <=> Starts(dma.idx)
      /\ \A s \in Skbs, k \in Nat : IsPart(dma.idx, s, k)' <=> IsPart(dma.idx, s, k)
  <2>1. PICK x \in Slots : x = dma.idx
    BY <1>1
  <2>2. (Starts(x)' <=> Starts(x)) /\ \A s \in Skbs, k \in Nat : IsPart(x, s, k)' <=> IsPart(x, s, k)
    BY <1>1, StillParts
  <2> QED
    BY <1>1, <2>1, <2>2 DEF Starts, IsPart
<1>3. CASE dma.body = <<>> /\ (at < Passed => Starts(dma.idx))
  BY <1>1, <1>2, <1>3 DEF Body
<1>4. ASSUME NEW s \in Skbs, NEW k \in 2 .. DataDescs(shape[s]),
             at < Passed, IsPart(dma.idx, s, k),
             dma.body = Parts(s, k - 1)
      PROVE  Body(at)'
  <2>1. k \in Nat /\ k - 1 \in Int
    BY Sizes
  <2>2. (IsPart(dma.idx, s, k) /\ dma.body = Parts(s, k - 1))'
    BY <1>1, <1>2, <1>4, <2>1, PartsSame
  <2> QED
    BY <1>1, <1>4, <2>2 DEF Body
<1> QED
  BY <1>3, <1>4 DEF Body

LEMMA BodyPush ==
    ASSUME TxInv, NEW at \in 0 .. Passed, Owned(at), Body(at), shape' = shape,
           NEW c \in Slots, NEW d \in DescType, PushContext(c, d) \/ PushFirst(c, d)
    PROVE  Body(at)'
<1>1. dma' = dma /\ dma.idx \in Slots /\ Passed' = Passed + 1
  BY Ground DEF PushContext, PushFirst, Push
<1>2. PICK x \in Slots : x = dma.idx
  BY <1>1
<1>3. at < Passed => x # c
  BY <1>2, OwnedIdx, PushFacts, Ground
<1>4. x # c => /\ Starts(x)' <=> Starts(x)
               /\ \A s \in Skbs, k \in Nat : IsPart(x, s, k)' <=> IsPart(x, s, k)
  BY <1>2, PushFacts
<1>5. CASE dma.body = <<>> /\ (at < Passed => Starts(dma.idx))
  <2>1. (at < Passed)' => Starts(x)'
    <3>1. CASE x = c
      BY <3>1, PushFacts
    <3>2. CASE x # c
      <4>1. (at < Passed)' => at < Passed
        <5> SUFFICES ASSUME at = Passed, Passed < TX_DESC_CNT PROVE FALSE
          BY <1>1, OwnedIdx, PushFacts, Ground
        <5>1. Pos(x) = Pos(c)
          BY <1>2, OwnedIdx, PushFacts
        <5> QED
          BY <3>2, <5>1, Ground
      <4> QED
        BY <1>2, <1>4, <1>5, <3>2, <4>1
    <3> QED
      BY <3>1, <3>2
  <2>2. Starts(x)' => Starts(dma.idx)'
    BY <1>1, <1>2 DEF Starts
  <2> QED
    BY <1>1, <1>5, <2>1, <2>2 DEF Body
<1>6. ASSUME NEW s \in Skbs, NEW k \in 2 .. DataDescs(shape[s]),
             at < Passed, IsPart(dma.idx, s, k),
             dma.body = Parts(s, k - 1)
      PROVE  Body(at)'
  <2>1. k \in Nat /\ k - 1 \in Int
    BY Sizes
  <2>2. IsPart(x, s, k)'
    BY <1>2, <1>3, <1>4, <1>6, <2>1
  <2>3. IsPart(dma.idx, s, k)'
    BY <1>1, <1>2, <2>2 DEF IsPart
  <2>4. (dma.body = Parts(s, k - 1))' /\ (at < Passed)'
    BY <1>1, <1>6, <2>1, PartsSame, Ground
  <2> QED
    BY <1>1, <1>6, <2>3, <2>4 DEF Body
<1> QED
  BY <1>5, <1>6 DEF Body

LEMMA BodyComplete ==
    ASSUME TxInv, Fresh, InWork, NEW at \in 0 .. Passed, Owned(at), Body(at), shape' = shape, Complete
    PROVE  Body(at)'
<1>1. dma' = dma /\ dma.idx \in Slots /\ Passed' = tx_pkt_queued
  BY Ground DEF Complete
<1>2. PICK x \in Slots : x = dma.idx
  BY <1>1
<1>3. at <= FirstPos /\ at < Passed /\ Pos(x) = at /\ Pos(x) <= FirstPos
  <2>1. InHand(xm.at) /\ xm.at \in Slots
    BY CompleteFacts DEF InHand, Complete
  <2>2. at <= Pos(xm.at)
    BY <2>1 DEF Owned
  <2>3. at <= FirstPos /\ at < Passed
    BY <2>2, CompleteFacts, OwnedIdx, Ground
  <2> QED
    BY <1>2, <2>3, OwnedIdx
<1>4. at < tx_pkt_queued
  BY <1>3, Ground
<1>5. x # xm.at => /\ Starts(x)' <=> Starts(x)
                   /\ \A s \in Skbs, k \in Nat : IsPart(x, s, k)' <=> IsPart(x, s, k)
  <2> SUFFICES ASSUME x # xm.at PROVE Pos(x) < FirstPos
    BY CompleteFacts
  <2>1. Pos(x) # FirstPos
    BY CompleteFacts, Ground
  <2> QED
    BY <1>3, <2>1, CompleteFacts, Ground
<1>6. CASE dma.body = <<>> /\ (at < Passed => Starts(dma.idx))
  <2>1. Starts(x)'
    <3>1. CASE x = xm.at
      BY <3>1, CompleteFacts DEF Starts
    <3>2. CASE x # xm.at
      BY <1>2, <1>3, <1>5, <1>6, <3>2
    <3> QED
      BY <3>1, <3>2
  <2>2. Starts(dma.idx)'
    BY <1>1, <1>2, <2>1 DEF Starts
  <2> QED
    BY <1>1, <1>6, <2>2 DEF Body
<1>7. ASSUME NEW s \in Skbs, NEW k \in 2 .. DataDescs(shape[s]),
             at < Passed, IsPart(dma.idx, s, k),
             dma.body = Parts(s, k - 1)
      PROVE  Body(at)'
  <2>1. k \in Nat /\ k - 1 \in Int /\ k # 1
    BY Sizes
  <2>2. x # xm.at
    BY <1>2, <1>7, <2>1, CompleteFacts DEF IsPart
  <2>3. IsPart(x, s, k)'
    BY <1>2, <1>5, <1>7, <2>1, <2>2
  <2>4. IsPart(dma.idx, s, k)'
    BY <1>1, <1>2, <2>3 DEF IsPart
  <2>5. (dma.body = Parts(s, k - 1))' /\ (at < Passed)'
    BY <1>1, <1>4, <1>7, <2>1, PartsSame
  <2> QED
    BY <1>1, <1>7, <2>4, <2>5 DEF Body
<1> QED
  BY <1>6, <1>7 DEF Body

LEMMA BodyFree ==
    ASSUME TxInv, NEW at \in 0 .. Passed, Owned(at), Body(at), shape' = shape, Free
    PROVE  Body(at - 1)'
<1>1. dma' = dma /\ dma.idx \in Slots /\ Passed' = Passed - 1 /\ at > 0 /\ at \in Nat
  BY Ground, OwnedFree DEF Free
<1>2. PICK x \in Slots : x = dma.idx
  BY <1>1
<1>3. at < Passed => x # dirty_tx
  BY <1>1, <1>2, OwnedIdx, FreeFacts
<1>4. (at - 1 < Passed)' <=> at < Passed
  BY <1>1, Ground
<1>5. x # dirty_tx => /\ Starts(x)' <=> Starts(x)
                      /\ \A s \in Skbs, k \in Nat : IsPart(x, s, k)' <=> IsPart(x, s, k)
  BY FreeFacts
<1>6. CASE dma.body = <<>> /\ (at < Passed => Starts(dma.idx))
  <2>1. at < Passed => Starts(x)'
    BY <1>2, <1>3, <1>5, <1>6
  <2>2. Starts(x)' => Starts(dma.idx)'
    BY <1>1, <1>2 DEF Starts
  <2> QED
    BY <1>1, <1>4, <1>6, <2>1, <2>2 DEF Body
<1>7. ASSUME NEW s \in Skbs, NEW k \in 2 .. DataDescs(shape[s]),
             at < Passed, IsPart(dma.idx, s, k),
             dma.body = Parts(s, k - 1)
      PROVE  Body(at - 1)'
  <2>1. k \in Nat /\ k - 1 \in Int
    BY Sizes
  <2>2. IsPart(x, s, k)'
    BY <1>2, <1>3, <1>5, <1>7, <2>1
  <2>3. IsPart(dma.idx, s, k)'
    BY <1>1, <1>2, <2>2 DEF IsPart
  <2>4. (dma.body = Parts(s, k - 1))'
    BY <1>1, <1>7, <2>1, PartsSame
  <2> QED
    BY <1>1, <1>4, <1>7, <2>3, <2>4 DEF Body
<1> QED
  BY <1>6, <1>7 DEF Body

LEMMA AppendParts ==
    ASSUME TxInv, NEW s \in Skbs, NEW k \in Nat \ {0}
    PROVE  /\ Append(Parts(s, k - 1), Mapped(s, k)) = Parts(s, k)
           /\ Parts(s, 0) = <<>>
<1>1. \A n \in Nat : Parts(s, n) \in Seq(DataType) /\ Len(Parts(s, n)) = n
  <2> SUFFICES ASSUME NEW n \in Nat PROVE Parts(s, n) \in Seq(DataType) /\ Len(Parts(s, n)) = n
    OBVIOUS
  <2>1. \A j \in 1 .. n : Mapped(s, j) \in DataType
    BY MappedType DEF TxInv
  <2>2. Parts(s, n) \in [1 .. n -> DataType]
    BY <2>1 DEF Parts
  <2> QED
    BY <2>2
<1>2. k - 1 \in Nat /\ Mapped(s, k) \in DataType
  BY MappedType DEF TxInv
<1> DEFINE a == Append(Parts(s, k - 1), Mapped(s, k))
<1>3. a \in Seq(DataType) /\ Len(a) = k
  BY <1>1, <1>2
<1>4. ASSUME NEW j \in 1 .. k PROVE a[j] = Parts(s, k)[j]
  <2>1. Parts(s, k)[j] = Mapped(s, j)
    BY DEF Parts
  <2>2. CASE j = k
    BY <1>1, <1>2, <2>1, <2>2
  <2>3. CASE j # k
    <3>1. j \in 1 .. k - 1
      BY <2>3
    <3>2. Parts(s, k - 1)[j] = Mapped(s, j)
      BY <3>1 DEF Parts
    <3>3. a[j] = Parts(s, k - 1)[j]
      BY <1>1, <1>2, <3>1
    <3> QED
      BY <2>1, <3>2, <3>3
  <2> QED
    BY <2>2, <2>3
<1>5. a = Parts(s, k)
  <2>1. a \in [1 .. k -> DataType] /\ Parts(s, k) \in [1 .. k -> DataType]
    <3>1. \A q \in Seq(DataType) : q \in [1 .. Len(q) -> DataType]
      OBVIOUS
    <3> HIDE DEF a
    <3>2. a \in [1 .. k -> DataType]
      BY <1>3, <3>1
    <3>3. Parts(s, k) \in Seq(DataType) /\ Len(Parts(s, k)) = k
      BY <1>1
    <3> QED
      BY <3>1, <3>2, <3>3
  <2> HIDE DEF a
  <2> QED
    BY <1>4, <2>1
<1>6. Parts(s, 0) = <<>>
  BY <1>1
<1> QED
  BY <1>5, <1>6

\* The part the channel reads next, and what it has read of this packet.
LEMMA ReadPart ==
    ASSUME TxInv, Laid, NEW at \in 0 .. Passed, Owned(at), Body(at),
           desc[dma.idx].own, ~desc[dma.idx].ctxt
    PROVE  \E s \in Skbs : \E k \in 1 .. DataDescs(shape[s]) :
              /\ IsPart(dma.idx, s, k) /\ dma.body = Parts(s, k - 1)
              /\ buf[dma.idx].skb = IF k = DataDescs(shape[s]) THEN s ELSE 0
<1>1. dma.idx \in Slots /\ Pos(dma.idx) = at /\ at < Passed /\ Written(dma.idx)
  BY ReadPlace, Ground DEF Written, InHand
<1>2. PICK s \in Skbs : \E k \in 1 .. DataDescs(shape[s]) :
         /\ IsPart(dma.idx, s, k)
         /\ buf[dma.idx].skb = IF k = DataDescs(shape[s]) THEN s ELSE 0
  BY <1>1 DEF Laid
<1>3. PICK k \in 1 .. DataDescs(shape[s]) :
         /\ IsPart(dma.idx, s, k)
         /\ buf[dma.idx].skb = IF k = DataDescs(shape[s]) THEN s ELSE 0
  BY <1>2
<1>4. k \in Nat \ {0}
  BY Sizes
<1>5. CASE dma.body = <<>> /\ (at < Passed => Starts(dma.idx))
  <2>1. k = 1
    BY <1>1, <1>3, <1>5 DEF Starts, IsPart
  <2>2. Parts(s, 0) = <<>>
    BY <1>4, AppendParts
  <2>3. Parts(s, k - 1) = Parts(s, 0)
    BY <2>1
  <2> QED
    BY <1>3, <1>5, <2>2, <2>3
<1>6. ASSUME NEW t \in Skbs, NEW n \in 2 .. DataDescs(shape[t]),
             IsPart(dma.idx, t, n),
             dma.body = Parts(t, n - 1)
      PROVE  /\ IsPart(dma.idx, s, k) /\ dma.body = Parts(s, k - 1)
  <2>1. n \in Nat \ {0}
    BY Sizes
  <2>2. Mapped(s, k) = Mapped(t, n)
    BY <1>3, <1>6 DEF IsPart
  <2>3. s = t /\ k = n
    BY <1>4, <2>1, <2>2, MappedOnce
  <2> QED
    BY <1>3, <1>6, <2>3
<1> QED
  BY <1>3, <1>5, <1>6 DEF Body

\* What DmaData does with it.
LEMMA ReadData ==
    ASSUME TxInv, Laid, NEW at \in 0 .. Passed, Owned(at), Body(at), DmaData
    PROVE  \E s \in Skbs : \E k \in 1 .. DataDescs(shape[s]) :
              /\ IsPart(dma.idx, s, k) /\ (desc[dma.idx].ld <=> k = DataDescs(shape[s]))
              /\ buf[dma.idx].skb = IF k = DataDescs(shape[s]) THEN s ELSE 0
              /\ dma.body = Parts(s, k - 1)
              /\ dma'.head = IF k = 1 THEN FrameHead(desc[dma.idx]) ELSE dma.head
              /\ dma'.mss = IF k = 1 THEN 0 ELSE dma.mss
              /\ k # DataDescs(shape[s]) => dma'.body = Parts(s, k) /\ wire' = wire
              /\ k = DataDescs(shape[s]) => dma'.body = <<>> /\
                   \E f : /\ wire' = Append(wire, f)
                          /\ f.skb = s /\ f.body = Parts(s, k)
                          /\ f.mss = dma'.head.mss
<1>1. desc[dma.idx].own /\ ~desc[dma.idx].ctxt
  BY DEF DmaData, DmaOwns
<1>2. PICK s \in Skbs : \E k \in 1 .. DataDescs(shape[s]) :
              /\ IsPart(dma.idx, s, k) /\ dma.body = Parts(s, k - 1)
              /\ buf[dma.idx].skb = IF k = DataDescs(shape[s]) THEN s ELSE 0
  BY <1>1, ReadPart
<1>3. PICK k \in 1 .. DataDescs(shape[s]) :
              /\ IsPart(dma.idx, s, k) /\ dma.body = Parts(s, k - 1)
              /\ buf[dma.idx].skb = IF k = DataDescs(shape[s]) THEN s ELSE 0
  BY <1>2
<1>4. k \in Nat \ {0}
  BY Sizes
<1> DEFINE d == desc[dma.idx]
           head == IF d.fd THEN FrameHead(d) ELSE dma.head
           mss == IF d.fd THEN 0 ELSE dma.mss
           body == Append(dma.body, d.data)
           frame == [skb |-> d.data.of, body |-> body, mss |-> head.mss,
                     tag |-> IF TagViaReg THEN vlan_tag_id ELSE head.tag]
<1>5. /\ dma' = [dma EXCEPT !.idx = Advance(@, 1), !.head = head, !.mss = mss,
                            !.body = IF d.ld THEN <<>> ELSE body]
      /\ wire' = IF d.ld THEN Append(wire, frame) ELSE wire
  BY DEF DmaData
<1>6. d.data = Mapped(s, k) /\ (d.fd <=> k = 1) /\ (d.ld <=> k = DataDescs(shape[s]))
  BY <1>3 DEF IsPart
<1>7. body = Parts(s, k)
  BY <1>3, <1>4, <1>6, AppendParts
<1>8. d.data.of = s
  BY <1>6 DEF Mapped
<1>9. frame.skb = s /\ frame.body = Parts(s, k) /\ frame.mss = head.mss
  BY <1>7, <1>8
<1>10. /\ head = IF k = 1 THEN FrameHead(d) ELSE dma.head
       /\ mss = IF k = 1 THEN 0 ELSE dma.mss
  BY <1>6
<1> HIDE DEF head, mss, body, frame, d
<1>11. dma'.mss = mss /\ dma'.head = head /\ dma'.body = IF d.ld THEN <<>> ELSE body
  BY <1>5 DEF TxInv, TypeOK, DmaType
<1>12. frame.mss = dma'.head.mss
  BY <1>9, <1>11
<1> QED
  BY <1>3, <1>5, <1>6, <1>7, <1>9, <1>10, <1>11, <1>12 DEF d

LEMMA BodyRead ==
    ASSUME TxInv, Laid, Chain, NEW at \in 0 .. Passed, Owned(at), Body(at), shape' = shape,
           DmaContext \/ DmaData
    PROVE  Body(at + 1)'
<1>1. Read /\ Still
  BY StepRead, StillSteps
<1>2. dma.idx \in Slots /\ Pos(dma.idx) = at /\ at < Passed /\ Written(dma.idx) /\ at \in Nat
  BY <1>1, ReadPlace, Ground DEF Written, InHand, Read
<1>3. PICK x \in Slots : x = Advance(dma.idx, 1)
  BY <1>2, AdvanceOne
<1>4. dma'.idx = x /\ Passed' = Passed
  BY <1>1, <1>3 DEF Read
<1>5. /\ Starts(x)' <=> Starts(x)
      /\ \A s \in Skbs, k \in Nat : IsPart(x, s, k)' <=> IsPart(x, s, k)
  BY <1>1, StillParts
<1>6. ASSUME dma'.body = <<>>, at + 1 < Passed => Starts(x)
      PROVE  Body(at + 1)'
  <2>1. Starts(x)' => Starts(dma.idx)'
    BY <1>4 DEF Starts
  <2> QED
    BY <1>4, <1>5, <1>6, <2>1 DEF Body
<1>7. CASE DmaContext
  <2>1. desc[dma.idx].ctxt /\ dma'.body = dma.body
    BY <1>7 DEF DmaContext, DmaOwns, TxInv, TypeOK, DmaType
  <2>2. dma.body = <<>>
    BY <2>1 DEF Body, IsPart
  <2>3. at + 1 < Passed => Starts(x)
    BY <1>2, <1>3, <2>1 DEF Chain
  <2> QED
    BY <1>6, <2>1, <2>2, <2>3
<1>8. CASE DmaData
  <2>1. PICK s \in Skbs : \E k \in 1 .. DataDescs(shape[s]) :
              /\ IsPart(dma.idx, s, k) /\ (desc[dma.idx].ld <=> k = DataDescs(shape[s]))
              /\ k # DataDescs(shape[s]) => dma'.body = Parts(s, k)
              /\ k = DataDescs(shape[s]) => dma'.body = <<>>
    BY <1>8, ReadData
  <2>2. PICK k \in 1 .. DataDescs(shape[s]) :
              /\ IsPart(dma.idx, s, k) /\ (desc[dma.idx].ld <=> k = DataDescs(shape[s]))
              /\ k # DataDescs(shape[s]) => dma'.body = Parts(s, k)
              /\ k = DataDescs(shape[s]) => dma'.body = <<>>
    BY <2>1
  <2>3. CASE k = DataDescs(shape[s])
    <3>1. at + 1 < Passed => Starts(x)
      BY <1>2, <1>3, <2>2, <2>3 DEF Chain
    <3> QED
      BY <1>6, <2>2, <2>3, <3>1
  <2>4. CASE k # DataDescs(shape[s])
    <3>1. k \in 1 .. DataDescs(shape[s]) - 1
      BY <2>4, Sizes
    <3>2. at + 1 < Passed /\ IsPart(x, s, k + 1)
      BY <1>2, <1>3, <2>2, <3>1 DEF Chain
    <3>3. PICK n \in 2 .. DataDescs(shape[s]) : n = k + 1
      BY <3>1, Sizes
    <3>4. n \in Nat /\ n - 1 = k /\ k \in Int
      BY <3>1, <3>3, Sizes
    <3>5. IsPart(x, s, n)'
      BY <1>5, <3>2, <3>3, <3>4
    <3>6. IsPart(dma.idx, s, n)'
      BY <1>4, <3>5 DEF IsPart
    <3>7. (dma.body = Parts(s, n - 1))'
      BY <2>2, <2>4, <3>4, PartsSame
    <3> QED
      BY <1>4, <2>2, <3>2, <3>6, <3>7 DEF Body
  <2> QED
    BY <2>3, <2>4
<1> QED
  BY <1>7, <1>8

\* What a step does to the wire: a frame with the buffers of the packet whose
\* last descriptor the channel reads.
LEMMA WireStep ==
    ASSUME TxInv, Laid, NEW at \in 0 .. Passed, Owned(at), Body(at), [Next]_vars
    PROVE  \/ wire' = wire
           \/ \E s, f :
                 /\ s \in Skbs
                 /\ DmaData /\ wire' = Append(wire, f) /\ f.skb = s
                 /\ f.body = Parts(s, DataDescs(shape[s]))
                 /\ f.mss = dma'.head.mss
                 /\ IsPart(dma.idx, s, DataDescs(shape[s])) /\ buf[dma.idx].skb = s
                 /\ DataDescs(shape[s]) \in Nat \ {0}
<1>1. CASE DmaData
  <2>1. PICK s \in Skbs : \E k \in 1 .. DataDescs(shape[s]) :
              /\ IsPart(dma.idx, s, k)
              /\ buf[dma.idx].skb = IF k = DataDescs(shape[s]) THEN s ELSE 0
              /\ k # DataDescs(shape[s]) => wire' = wire
              /\ k = DataDescs(shape[s]) =>
                   \E f : /\ wire' = Append(wire, f)
                          /\ f.skb = s /\ f.body = Parts(s, k)
                          /\ f.mss = dma'.head.mss
    BY <1>1, ReadData
  <2> QED
    BY <1>1, <2>1, Sizes
<1>2. CASE ~DmaData
  BY <1>2 DEF Next, Xmit, XmitReject, XmitBusy, XmitTsoFails, XmitMapFails, XmitMap, Drop,
     PreTransmitStep, PreVlan, PreMss, PreFirst, PreRest, PreOwn, PreTail, PreTransmit,
     Clean, CleanStart, CleanOne, CleanEnd, Dma, DmaSuspend, DmaContext, vars
<1> QED
  BY <1>1, <1>2

LEMMA WireAppend ==
    ASSUME TxInv, NEW f, wire' = Append(wire, f), wire' \in Seq(FrameType)
    PROVE  /\ wire \in Seq(FrameType) /\ DOMAIN wire = 1 .. Len(wire) /\ Len(wire) \in Nat
           /\ DOMAIN wire' = 1 .. Len(wire) + 1
           /\ \A n \in DOMAIN wire : n \in DOMAIN wire' /\ wire'[n] = wire[n]
           /\ wire'[Len(wire) + 1] = f
           /\ \A n \in DOMAIN wire' : n \in DOMAIN wire \/ n = Len(wire) + 1
BY DEF TxInv, TypeOK

LEMMA TxWireIntactStep ==
    ASSUME TxInv, Laid, WireIntact, NEW at \in 0 .. Passed, Owned(at), Body(at), [Next]_vars
    PROVE  WireIntact'
<1>0. shape' = shape /\ wire' \in Seq(FrameType)
  BY StepShape, TxTypeStep DEF TypeOK
<1>1. \A s \in Skbs : [k \in 1 .. DataDescs(shape[s]) |-> Mapped(s, k)]' = Parts(s, DataDescs(shape[s]))
  BY <1>0 DEF Parts, Mapped
<1>2. \A s \in Skbs : [k \in 1 .. DataDescs(shape[s]) |-> Mapped(s, k)] = Parts(s, DataDescs(shape[s]))
  BY DEF Parts
<1>3. \A n \in DOMAIN wire : \E s \in Skbs :
         wire[n].skb = s /\ wire[n].body = Parts(s, DataDescs(shape[s]))
  BY <1>2 DEF WireIntact
<1>4. SUFFICES \A n \in DOMAIN wire' : \E s \in Skbs :
         wire'[n].skb = s /\ wire'[n].body = Parts(s, DataDescs(shape[s]))
  BY <1>1 DEF WireIntact
<1>5. CASE wire' = wire
  BY <1>3, <1>5
<1>6. ASSUME NEW s \in Skbs, NEW f, wire' = Append(wire, f), f.skb = s,
             f.body = Parts(s, DataDescs(shape[s]))
      PROVE  \A n \in DOMAIN wire' : \E t \in Skbs :
                wire'[n].skb = t /\ wire'[n].body = Parts(t, DataDescs(shape[t]))
  BY <1>0, <1>3, <1>6, WireAppend
<1> QED
  BY <1>5, <1>6, WireStep

-----------------------------------------------------------------------------
(* The packet in hand.                                                      *)

\* What map_skb leaves in the places behind the window.
LEMMA DoMapData ==
    ASSUME TxInv, HeldOnce, OneContext, NEW s \in Skbs, XmitMap(s)
    PROVE  /\ DataDescs(shape[s]) \in Nat \ {0} /\ tx_pkt_queued' \in Nat
           /\ tx_pkt_queued <= tx_pkt_queued' - DataDescs(shape[s])
           /\ \A i \in Slots : tx_pkt_queued <= Pos(i) /\ Pos(i) < tx_pkt_queued' =>
                buf'[i].skb = IF Pos(i) = tx_pkt_queued' - 1 THEN s ELSE 0
           /\ \A i \in Slots :
                tx_pkt_queued' - DataDescs(shape[s]) <= Pos(i) /\ Pos(i) < tx_pkt_queued' =>
                buf'[i].data = Mapped(s, Pos(i) - (tx_pkt_queued' - DataDescs(shape[s])) + 1)
<1> DEFINE n == DataDescs(shape[s])
           u == DescsUsed(Locals(s))
           f == FirstSlot(Locals(s))
           q == tx_pkt_queued
<1>1. TagViaReg \/ shape[s].tag = 0 \/ ~TsoEnabled(shape[s])
  BY DEF OneContext, TsoEnabled, TxInv, TypeOK
<1>2. PICK e \in {0, 1} :
         /\ n \in Nat \ {0} /\ u \in Nat /\ q + u <= TX_DESC_CNT /\ q' = q + u
         /\ f = Advance(dirty_tx, q + e) /\ e + n = u
  BY <1>1, MapPlace
<1>3. q \in Nat /\ TX_DESC_CNT \in Nat
  BY Ground
<1>4. PICK l \in Slots :
              /\ Pos(l) = q' - 1 /\ buf'[l].skb = s
              /\ \A i \in Slots : i # l => buf'[i].skb = buf[i].skb
  BY <1>1, DoMapSkb
<1>5. buf' = DoMap(s)
  BY DEF XmitMap
<1> HIDE DEF n, u, f, q
<1>6. ASSUME NEW i \in Slots, q <= Pos(i), Pos(i) < q'
      PROVE  buf'[i].skb = IF Pos(i) = q' - 1 THEN s ELSE 0
  <2>1. buf[i].skb = 0
    BY <1>3, <1>6, Ground DEF HeldOnce, InFlight, Pos, q
  <2>2. i = l <=> Pos(i) = q' - 1
    BY <1>4, Ground
  <2> QED
    BY <1>4, <2>1, <2>2
<1>7. ASSUME NEW i \in Slots, q' - n <= Pos(i), Pos(i) < q'
      PROVE  buf'[i].data = Mapped(s, Pos(i) - (q' - n) + 1)
  <2>1. q + e \in 0 .. TX_DESC_CNT - 1 /\ q' - n = q + e
    BY <1>2, <1>3
  <2>2. f \in Slots /\ Pos(f) = q + e
    BY <1>2, <2>1, PosAt
  <2>3. Dist(f, i) = Pos(i) - (q + e)
    <3>1. q' \in 0 .. TX_DESC_CNT /\ Dist(dirty_tx, f) < q' /\ dirty_tx \in Slots
      BY <1>2, <1>3, <2>1, <2>2, Ground DEF Pos
    <3> QED
      BY <1>7, <2>1, <2>2, <3>1, DistWithin DEF Pos
  <2>4. Pos(i) \in Nat /\ q + e \in Nat
    BY <2>1, Ground
  <2>5. Dist(f, i) + 1 = Pos(i) - (q' - n) + 1 /\ ~(Dist(f, i) + 1 > n)
    BY <1>2, <1>3, <1>7, <2>1, <2>3, <2>4
  <2>6. buf'[i].data = Mapped(s, Dist(f, i) + 1)
    BY <1>5, <2>5 DEF DoMap, f, n
  <2> QED
    BY <2>5, <2>6
<1>8. q <= q' - n /\ q' \in Nat
  BY <1>2, <1>3
<1> QED
  BY <1>2, <1>6, <1>7, <1>8 DEF n, q

\* The first two parts of InWork say nothing of a packet that is handed over.
LEMMA TxInWorkStep ==
    ASSUME TxInv, HeldOnce, Fresh, InWork, OneContext,
           NEW at \in 0 .. Passed, Owned(at), [Next]_vars
    PROVE  InWork'
<1>0. shape' = shape /\ TxInv'
  BY StepShape, TxTypeStep, TxAccountingStep, TxPreparingStep, TxOwnedStep DEF TxInv
<1>a. ASSUME NEW s, NEW k PROVE Mapped(s, k)' = Mapped(s, k)
  BY <1>0 DEF Mapped
<1>1. ASSUME NEW s \in Skbs, XmitMap(s) PROVE InWork'
  <2>1. /\ pc' = "vlan" /\ xm' = Locals(s) /\ packet_count' = DataDescs(shape[s])
        /\ dirty_tx' = dirty_tx
    BY <1>1 DEF XmitMap
  <2>2. xm'.s = s /\ xm'.tso = TsoEnabled(shape[s])
    BY <2>1 DEF Locals
  <2>3. \A i \in Slots : Pos(i)' = Pos(i) /\ Pos(i) \in Nat
    BY <2>1, SamePos, Ground
  <2>4. Passed' = Passed /\ Passed = tx_pkt_queued /\ Passed \in Nat
    BY <1>1, StepKeep, Counts, Ground DEF Xmit, Keep, XmitMap, Fits, Offered
  <2>5. FirstPos' = tx_pkt_queued' - DataDescs(shape[s])
    BY <2>1 DEF FirstPos
  <2>6. ASSUME NEW i \in Slots, (FirstPos <= Pos(i) /\ Pos(i) < tx_pkt_queued)'
        PROVE  (/\ buf[i].data = Mapped(xm.s, Pos(i) - FirstPos + 1)
                /\ buf[i].skb = IF Pos(i) = tx_pkt_queued - 1 THEN xm.s ELSE 0)'
    <3>1. tx_pkt_queued <= Pos(i)
      BY <1>1, <2>3, <2>4, <2>5, <2>6, DoMapData
    <3>2. buf'[i].data = Mapped(s, Pos(i) - (tx_pkt_queued' - DataDescs(shape[s])) + 1)
      BY <1>1, <2>3, <2>5, <2>6, DoMapData
    <3>3. buf'[i].skb = IF Pos(i) = tx_pkt_queued' - 1 THEN s ELSE 0
      BY <1>1, <2>3, <2>6, <3>1, DoMapData
    <3>4. \A k : k = Pos(i) - FirstPos' + 1 => Mapped(xm.s, Pos(i) - FirstPos + 1)' = Mapped(s, k)
      BY <1>0, <2>2, <2>3 DEF Mapped
    <3> QED
      BY <2>2, <2>3, <2>5, <3>2, <3>3, <3>4
  <2>7. ASSUME NEW i \in Slots, (Passed <= Pos(i) /\ Pos(i) < FirstPos)' PROVE (buf[i].skb = 0)'
    <3>1. tx_pkt_queued <= Pos(i) /\ Pos(i) < tx_pkt_queued' - DataDescs(shape[s])
      BY <2>3, <2>4, <2>5, <2>7
    <3>2. Pos(i) < tx_pkt_queued' /\ Pos(i) # tx_pkt_queued' - 1
      BY <1>1, <2>3, <3>1, DoMapData
    <3> QED
      BY <1>1, <3>1, <3>2, DoMapData
  <2>8. (xm.tso = TsoEnabled(shape[xm.s]))'
    BY <1>0, <2>2 DEF TsoEnabled
  <2> QED
    BY <2>1, <2>6, <2>7, <2>8 DEF InWork
<1>2. ASSUME PreVlan \/ PreMss \/ PreFirst PROVE InWork'
  <2>1. /\ pc \in {"vlan", "mss", "first"} /\ pc' \in {"mss", "first", "rest"}
        /\ UNCHANGED <<buf, dirty_tx, tx_pkt_queued, packet_count>>
        /\ xm'.s = xm.s /\ xm'.tso = xm.tso
        /\ pc' = "rest" <=> PreFirst
        /\ pc' = "first" <=> PreMss
    BY <1>2 DEF PreVlan, PreMss, PreFirst, PreTransmit, TxInv, TypeOK, XmType
  <2>2. \A i \in Slots : Pos(i)' = Pos(i) /\ Pos(i) \in Nat
    BY <2>1, SamePos, Ground
  <2>3. FirstPos' = FirstPos /\ FirstPos \in Int
    BY <2>1, Counts, Ground DEF FirstPos
  <2>4. Passed' >= Passed /\ Passed' \in Nat /\ Passed \in Nat
    <3>1. CASE (PreVlan /\ ~xm.vlan) \/ (PreMss /\ ~NeedsMssCtx(xm))
      BY <3>1, StepKeep, Ground DEF Keep
    <3>2. CASE (PreVlan /\ xm.vlan) \/ (PreMss /\ NeedsMssCtx(xm))
      BY <3>2, StepContext, Ground DEF PushContext, Push
    <3>3. CASE PreFirst
      BY <3>3, StepFirst, Ground DEF PushFirst, Push
    <3> QED
      BY <1>2, <3>1, <3>2, <3>3
  <2>5. (xm.tso = TsoEnabled(shape[xm.s]))'
    BY <1>0, <2>1 DEF InWork, TsoEnabled
  <2>6. ASSUME NEW i \in Slots, (FirstPos <= Pos(i) /\ Pos(i) < tx_pkt_queued)'
        PROVE  (/\ buf[i].data = Mapped(xm.s, Pos(i) - FirstPos + 1)
                /\ buf[i].skb = IF Pos(i) = tx_pkt_queued - 1 THEN xm.s ELSE 0)'
    <3>1. /\ buf[i].data = Mapped(xm.s, Pos(i) - FirstPos + 1)
          /\ buf[i].skb = IF Pos(i) = tx_pkt_queued - 1 THEN xm.s ELSE 0
      BY <2>1, <2>2, <2>3, <2>6 DEF InWork
    <3>2. Mapped(xm.s, Pos(i) - FirstPos + 1)' = Mapped(xm.s, Pos(i) - FirstPos + 1)
      BY <1>0, <2>1, <2>2, <2>3 DEF Mapped
    <3> QED
      BY <2>1, <2>2, <3>1, <3>2
  <2>7. ASSUME NEW i \in Slots, (Passed <= Pos(i) /\ Pos(i) < FirstPos)' PROVE (buf[i].skb = 0)'
    <3>1. Passed <= Pos(i) /\ Pos(i) < FirstPos
      BY <2>2, <2>3, <2>4, <2>7
    <3> QED
      BY <2>1, <3>1 DEF InWork
  <2>8. (pc = "rest" => \A i \in Slots : i = xm.at =>
          /\ ~desc[i].ctxt /\ desc[i].data = Mapped(xm.s, 1)
          /\ desc[i].fd /\ ~desc[i].ld /\ desc[i].tse = xm.tso)'
    <3> SUFFICES ASSUME PreFirst
                 PROVE  (\A i \in Slots : i = xm.at =>
                          /\ ~desc[i].ctxt /\ desc[i].data = Mapped(xm.s, 1)
                          /\ desc[i].fd /\ ~desc[i].ld /\ desc[i].tse = xm.tso)'
      BY <2>1
    <3>1. PICK c \in Slots, d \in DescType : PushFirst(c, d)
      BY StepFirst
    <3>2. desc'[c] = d /\ xm'.at = c
      BY <1>0, <3>1, PushFacts DEF PushFirst
    <3>3. Mapped(xm.s, 1)' = Mapped(xm.s, 1)
      BY <1>0, <2>1 DEF Mapped
    <3> QED
      BY <2>1, <3>1, <3>2, <3>3 DEF PushFirst
  <2> QED
    BY <2>5, <2>6, <2>7, <2>8 DEF InWork
<1>3. CASE \/ \E s \in Skbs : XmitReject(s) \/ XmitBusy(s) \/ XmitTsoFails(s) \/ XmitMapFails(s)
           \/ PreRest \/ PreOwn \/ PreTail \/ Clean
  <2>1. pc' \in {"idle", "own", "tail", "clean"}
    BY <1>3 DEF XmitReject, XmitBusy, XmitTsoFails, XmitMapFails, Fits, Offered, Drop, PreRest,
       PreOwn, PreTail, PreTransmit, Clean, CleanStart, CleanOne, CleanEnd
  <2> QED
    BY <2>1 DEF InWork
<1>4. CASE Dma \/ UNCHANGED vars
  <2>1. UNCHANGED <<pc, xm, buf, ctl, ctx>>
    BY <1>4 DEF Dma, DmaSuspend, DmaContext, DmaData, DmaOwns, vars
  <2>2. Still
    BY <1>4, StepKeep, StepRead, StillSteps DEF Dma
  <2>3. Passed' = Passed /\ \A i \in Slots : Pos(i)' = Pos(i)
    BY <2>2 DEF Still
  <2>4. FirstPos' = FirstPos
    BY <2>1 DEF FirstPos, ctl
  <2>5. \A i \in Slots : Fields(i)' = Fields(i)
    BY <2>2 DEF Still
  <2>6. \A i \in Slots : Mapped(xm.s, Pos(i) - FirstPos + 1)' = Mapped(xm.s, Pos(i) - FirstPos + 1)
    BY <1>0, <2>1, <2>3, <2>4 DEF Mapped
  <2>7. Mapped(xm.s, 1)' = Mapped(xm.s, 1)
    BY <1>0, <2>1 DEF Mapped
  <2>8. (pc \in {"vlan", "mss", "first", "rest"} =>
          /\ xm.tso = TsoEnabled(shape[xm.s])
          /\ \A i \in Slots : FirstPos <= Pos(i) /\ Pos(i) < tx_pkt_queued =>
                /\ buf[i].data = Mapped(xm.s, Pos(i) - FirstPos + 1)
                /\ buf[i].skb = IF Pos(i) = tx_pkt_queued - 1 THEN xm.s ELSE 0
          /\ \A i \in Slots : Passed <= Pos(i) /\ Pos(i) < FirstPos => buf[i].skb = 0)'
    BY <1>0, <2>1, <2>3, <2>4, <2>6 DEF InWork, ctl, TsoEnabled
  <2>9. (pc = "rest" => \A i \in Slots : i = xm.at =>
          /\ ~desc[i].ctxt /\ desc[i].data = Mapped(xm.s, 1)
          /\ desc[i].fd /\ ~desc[i].ld /\ desc[i].tse = xm.tso)'
    BY <2>1, <2>5, <2>7 DEF InWork, Fields
  <2> QED
    BY <2>8, <2>9 DEF InWork
<1> QED
  BY <1>1, <1>2, <1>3, <1>4 DEF Next, Xmit, PreTransmitStep

-----------------------------------------------------------------------------
(* What is sent, and in which order.                                        *)

\* Four kinds of steps, for what becomes of the skbs.
LEMMA SkbKinds ==
    ASSUME [Next]_vars
    PROVE  \/ \E s \in Skbs : XmitMap(s)
           \/ \E s \in Skbs : XmitReject(s) \/ XmitTsoFails(s) \/ XmitMapFails(s)
           \/ CleanOne
           \/ UNCHANGED <<buf, fate, dirty_tx, tx_pkt_queued>>
<1>1. CASE (\E s \in Skbs : XmitBusy(s)) \/ PreTransmitStep \/ CleanStart \/ CleanEnd \/ Dma
           \/ UNCHANGED vars
  BY <1>1 DEF XmitBusy, PreTransmitStep, PreVlan, PreMss, PreFirst, PreRest, PreOwn, PreTail,
     PreTransmit, CleanStart, CleanEnd, Dma, DmaSuspend, DmaContext, DmaData, DmaOwns,
     ctl, vars
<1> QED
  BY <1>1 DEF Next, Xmit, Clean

\* Two skbs do not share a place, and a place has one skb.
LEMMA Held ==
    ASSUME TxInv, HeldOnce
    PROVE  /\ \A i \in Slots : buf[i].skb \in Skbs \cup {0}
           /\ \A i \in Slots : buf[i].skb # 0 =>
                 buf[i].skb \in Skbs /\ Pos(i) < tx_pkt_queued /\ fate[buf[i].skb] = "held"
           /\ \A i, j \in Slots : buf[i].skb # 0 /\ buf[i].skb = buf[j].skb => i = j
           /\ Skbs \subseteq Nat \ {0}
<1>1. /\ \A i \in Slots : buf[i].skb \in Skbs \cup {0}
      /\ Skbs \subseteq Nat \ {0}
  BY TxAssumption DEF TxInv, TypeOK, BufType, Skbs
<1>2. \A i \in Slots : buf[i].skb # 0 =>
         buf[i].skb \in Skbs /\ Pos(i) < tx_pkt_queued /\ fate[buf[i].skb] = "held"
  BY <1>1 DEF HeldOnce, InFlight, Pos
<1>3. ASSUME NEW i \in Slots, NEW j \in Slots, buf[i].skb # 0, buf[i].skb = buf[j].skb
      PROVE  i = j
  <2>1. PICK l \in Slots : \A m \in Slots : buf[m].skb = buf[i].skb <=> m = l
    BY <1>2, <1>3 DEF HeldOnce
  <2> QED
    BY <1>3, <2>1
<1> QED
  BY <1>1, <1>2, <1>3

LEMMA OrderedStep ==
    ASSUME TxInv, HeldOnce, Ordered, [Next]_vars
    PROVE  Ordered'
<1>1. /\ \A i, j \in Slots : buf[i].skb # 0 /\ buf[j].skb # 0 /\ Pos(i) < Pos(j) =>
            buf[i].skb < buf[j].skb
      /\ \A s, t \in Skbs : fate[s] # "stack" /\ fate[t] = "stack" => s < t
  BY DEF Ordered
<1>2. ASSUME NEW s \in Skbs, XmitMap(s) PROVE Ordered'
  <2>1. PICK l \in Slots :
              /\ tx_pkt_queued <= Pos(l)
              /\ buf'[l].skb = s
              /\ \A i \in Slots : i # l => buf'[i].skb = buf[i].skb
    BY <1>2, DoMapSkb
  <2>2. /\ fate[s] = "stack" /\ fate' = [fate EXCEPT ![s] = "held"] /\ dirty_tx' = dirty_tx
        /\ \A t \in Skbs : t < s => fate[t] # "stack"
    BY <1>2 DEF XmitMap, Fits, Offered
  <2>3. \A i \in Slots : Pos(i)' = Pos(i) /\ Pos(i) \in Nat
    BY <2>2, SamePos, Ground
  <2>4. fate \in [Skbs -> {"stack", "held", "freed", "dropped"}] /\ tx_pkt_queued \in Nat
    BY Ground DEF TxInv, TypeOK
  <2>5. ASSUME NEW i \in Slots, NEW j \in Slots, buf'[i].skb # 0, buf'[j].skb # 0, Pos(i) < Pos(j)
        PROVE  buf'[i].skb < buf'[j].skb
    <3>1. CASE i # l /\ j # l
      BY <1>1, <2>1, <2>5, <3>1
    <3>2. CASE i # l /\ j = l
      <4>1. buf[i].skb \in Skbs /\ fate[buf[i].skb] = "held" /\ buf'[i].skb = buf[i].skb
        BY <2>1, <2>5, <3>2, Held
      <4> QED
        BY <1>1, <2>1, <2>2, <3>2, <4>1
    <3>3. CASE i = l
      <4>1. j # l
        BY <2>3, <2>5, <3>3
      <4>2. Pos(j) < tx_pkt_queued
        BY <2>1, <2>5, <4>1, Held
      <4> QED
        BY <2>1, <2>3, <2>4, <2>5, <3>3, <4>2
    <3> QED
      BY <3>1, <3>2, <3>3
  <2>6. ASSUME NEW t \in Skbs, NEW r \in Skbs, fate'[t] # "stack", fate'[r] = "stack"
        PROVE  t < r
    <3>1. r # s /\ fate[r] = "stack"
      BY <2>2, <2>4, <2>6
    <3>2. CASE t # s
      BY <1>1, <2>2, <2>4, <2>6, <3>1, <3>2
    <3>3. CASE t = s
      <4>1. ~(r < s) /\ r \in Nat /\ s \in Nat
        BY <2>2, <3>1, Held
      <4> QED
        BY <3>1, <3>3, <4>1
    <3> QED
      BY <3>2, <3>3
  <2> QED
    BY <2>3, <2>5, <2>6 DEF Ordered
<1>3. ASSUME NEW s \in Skbs, XmitReject(s) \/ XmitTsoFails(s) \/ XmitMapFails(s)
      PROVE  Ordered'
  <2>1. /\ fate[s] = "stack" /\ fate' = [fate EXCEPT ![s] = "dropped"]
        /\ dirty_tx' = dirty_tx
        /\ \A i \in Slots : buf'[i].skb = buf[i].skb
    BY <1>3, DropSkb
  <2>2. \A t \in Skbs : t < s => fate[t] # "stack"
    BY <1>3 DEF XmitReject, XmitTsoFails, XmitMapFails, Fits, Offered
  <2>3. fate \in [Skbs -> {"stack", "held", "freed", "dropped"}]
    BY DEF TxInv, TypeOK
  <2>4. ASSUME NEW t \in Skbs, NEW r \in Skbs, fate'[t] # "stack", fate'[r] = "stack"
        PROVE  t < r
    <3>1. r # s /\ fate[r] = "stack"
      BY <2>1, <2>3, <2>4
    <3>2. CASE t # s
      BY <1>1, <2>1, <2>3, <2>4, <3>1, <3>2
    <3>3. CASE t = s
      <4>1. ~(r < s) /\ r \in Nat /\ s \in Nat
        BY <2>2, <3>1, Held
      <4> QED
        BY <3>1, <3>3, <4>1
    <3> QED
      BY <3>2, <3>3
  <2> QED
    BY <1>1, <2>1, <2>4, SamePos DEF Ordered
<1>4. CASE CleanOne
  <2>1. Free
    BY <1>4, StepFree
  <2>2. ASSUME NEW i \in Slots, buf'[i].skb # 0
        PROVE  buf'[i].skb = buf[i].skb /\ Pos(i)' = Pos(i) - 1 /\ Pos(i) \in Nat
    BY <2>1, <2>2, Ground DEF Free
  <2>3. \A t \in Skbs : fate'[t] = "stack" => fate[t] = "stack"
    BY <2>1 DEF Free
  <2>4. \A t \in Skbs : fate'[t] # "stack" => fate[t] # "stack"
    <3>1. ASSUME NEW t \in Skbs, fate'[t] # "stack" PROVE fate[t] # "stack"
      <4>1. CASE t = buf[dirty_tx].skb
        <5>1. fate[buf[dirty_tx].skb] = "held"
          BY <4>1, Held, Ground
        <5> QED
          BY <4>1, <5>1
      <4>2. CASE t # buf[dirty_tx].skb
        BY <2>1, <3>1, <4>2 DEF Free
      <4> QED
        BY <4>1, <4>2
    <3> QED
      BY <3>1
  <2>5. ASSUME NEW i \in Slots, NEW j \in Slots, buf'[i].skb # 0, buf'[j].skb # 0,
               (Pos(i) < Pos(j))'
        PROVE  buf'[i].skb < buf'[j].skb
    <3>1. Pos(i) < Pos(j)
      BY <2>2, <2>5
    <3> QED
      BY <1>1, <2>2, <2>5, <3>1
  <2> QED
    BY <1>1, <2>3, <2>4, <2>5 DEF Ordered
<1>5. CASE UNCHANGED <<buf, fate, dirty_tx, tx_pkt_queued>>
  BY <1>1, <1>5, SamePos DEF Ordered
<1> QED
  BY <1>2, <1>3, <1>4, <1>5, SkbKinds

\* Steps that put nothing on the wire.
LEMMA SentStill ==
    ASSUME TxInv, HeldOnce, NEW at \in 0 .. Passed, Owned(at), SentRight(at), wire' = wire,
           \/ \E s \in Skbs : XmitMap(s)
           \/ \E s \in Skbs : XmitReject(s) \/ XmitTsoFails(s) \/ XmitMapFails(s)
           \/ UNCHANGED <<buf, fate, dirty_tx, tx_pkt_queued>>
    PROVE  SentRight(at)'
<1>1. /\ \A s \in Skbs : Sent(s)' <=> Sent(s)
      /\ \A s \in Skbs : Sent(s) => fate[s] \in {"held", "freed"}
      /\ \A s \in Skbs : fate[s] = "freed" => Sent(s)
      /\ \A i \in Slots : buf[i].skb # 0 => (Sent(buf[i].skb) <=> Pos(i) < at)
      /\ fate \in [Skbs -> {"stack", "held", "freed", "dropped"}]
  BY DEF Sent, SentRight, TxInv, TypeOK
<1>0. ASSUME NEW i \in Slots, NEW t \in Skbs, buf'[i].skb = t, Sent(t) <=> (Pos(i) < at)'
      PROVE  (Sent(buf[i].skb) <=> Pos(i) < at)'
  BY <1>0 DEF Sent
<1>2. ASSUME NEW s \in Skbs, XmitMap(s) PROVE SentRight(at)'
  <2>1. PICK l \in Slots :
              /\ tx_pkt_queued <= Pos(l)
              /\ buf'[l].skb = s
              /\ \A i \in Slots : i # l => buf'[i].skb = buf[i].skb
    BY <1>2, DoMapSkb
  <2>2. fate[s] = "stack" /\ fate' = [fate EXCEPT ![s] = "held"] /\ dirty_tx' = dirty_tx
    BY <1>2 DEF XmitMap, Fits, Offered
  <2>3. ~Sent(s)
    BY <1>1, <2>2
  <2>4. \A i \in Slots : Pos(i)' = Pos(i)
    BY <2>2, SamePos
  <2>5. ~(Pos(l) < at)
    BY <2>1, Ground
  <2>6. ASSUME NEW i \in Slots, (buf[i].skb # 0)' PROVE (Sent(buf[i].skb) <=> Pos(i) < at)'
    <3>1. PICK t : t = buf'[i].skb
      OBVIOUS
    <3>2. t \in Skbs /\ (Sent(t) <=> Pos(i) < at)
      <4>1. CASE i = l
        BY <2>1, <2>3, <2>5, <3>1, <4>1
      <4>2. CASE i # l
        <5>1. t = buf[i].skb /\ t # 0
          BY <2>1, <2>6, <3>1, <4>2
        <5> QED
          BY <1>1, <5>1, Held
      <4> QED
        BY <4>1, <4>2
    <3>3. Sent(t) <=> (Pos(i) < at)'
      BY <2>4, <3>2
    <3> QED
      BY <1>0, <3>1, <3>2, <3>3
  <2>7. \A t \in Skbs : /\ Sent(t)' => fate'[t] \in {"held", "freed"}
                        /\ fate'[t] = "freed" => Sent(t)'
    BY <1>1, <2>2
  <2> QED
    BY <2>6, <2>7 DEF SentRight
<1>3. ASSUME NEW s \in Skbs, XmitReject(s) \/ XmitTsoFails(s) \/ XmitMapFails(s)
      PROVE  SentRight(at)'
  <2>1. /\ fate[s] = "stack" /\ fate' = [fate EXCEPT ![s] = "dropped"] /\ dirty_tx' = dirty_tx
        /\ \A i \in Slots : buf'[i].skb = buf[i].skb
    BY <1>3, DropSkb
  <2>2. \A t \in Skbs : /\ Sent(t)' => fate'[t] \in {"held", "freed"}
                        /\ fate'[t] = "freed" => Sent(t)'
    BY <1>1, <2>1
  <2>3. ASSUME NEW i \in Slots, (buf[i].skb # 0)' PROVE (Sent(buf[i].skb) <=> Pos(i) < at)'
    <3>1. PICK t \in Skbs : t = buf'[i].skb
      BY <2>1, <2>3, Held
    <3>2. Sent(t) <=> Pos(i) < at
      BY <1>1, <2>1, <2>3, <3>1
    <3>3. Pos(i)' = Pos(i)
      BY <2>1, SamePos
    <3> QED
      BY <1>0, <3>1, <3>2, <3>3
  <2> QED
    BY <2>2, <2>3 DEF SentRight
<1>4. CASE UNCHANGED <<buf, fate, dirty_tx, tx_pkt_queued>>
  <2>1. \A t \in Skbs : /\ Sent(t)' => fate'[t] \in {"held", "freed"}
                        /\ fate'[t] = "freed" => Sent(t)'
    BY <1>1, <1>4
  <2>2. \A i \in Slots : (buf[i].skb # 0 => (Sent(buf[i].skb) <=> Pos(i) < at))'
    BY <1>1, <1>4, SamePos DEF Sent
  <2> QED
    BY <2>1, <2>2 DEF SentRight
<1> QED
  BY <1>2, <1>3, <1>4

LEMMA SentFree ==
    ASSUME TxInv, HeldOnce, NEW at \in 0 .. Passed, Owned(at), SentRight(at), CleanOne
    PROVE  SentRight(at - 1)'
<1>1. /\ \A s \in Skbs : Sent(s)' <=> Sent(s)
      /\ \A s \in Skbs : Sent(s) => fate[s] \in {"held", "freed"}
      /\ \A s \in Skbs : fate[s] = "freed" => Sent(s)
      /\ \A i \in Slots : buf[i].skb # 0 => (Sent(buf[i].skb) <=> Pos(i) < at)
      /\ fate \in [Skbs -> {"stack", "held", "freed", "dropped"}]
  BY StepFree DEF Sent, SentRight, TxInv, TypeOK, Free
<1>2. at > 0 /\ at \in Nat
  BY StepFree, OwnedFree, Ground
<1>3. /\ fate' = [s \in Skbs |-> IF s = buf[dirty_tx].skb THEN "freed" ELSE fate[s]]
      /\ dirty_tx \in Slots /\ Pos(dirty_tx) = 0
  BY StepFree, Ground DEF Free
<1>4. \A s \in Skbs : s = buf[dirty_tx].skb => Sent(s)
  BY <1>1, <1>2, <1>3, Held
<1>5. \A t \in Skbs : /\ Sent(t)' => fate'[t] \in {"held", "freed"}
                      /\ fate'[t] = "freed" => Sent(t)'
  BY <1>1, <1>3, <1>4
<1>6. ASSUME NEW i \in Slots, (buf[i].skb # 0)' PROVE (Sent(buf[i].skb) <=> Pos(i) < at - 1)'
  <2>1. buf'[i] = buf[i] /\ Pos(i)' = Pos(i) - 1 /\ Pos(i) \in Nat
    BY <1>6, StepFree, Ground DEF Free
  <2>2. PICK t \in Skbs : t = buf[i].skb
    BY <1>6, <2>1, Held
  <2>3. Sent(t) <=> Pos(i) < at
    BY <1>1, <1>6, <2>1, <2>2
  <2>4. Sent(t) <=> Pos(i)' < at - 1
    BY <1>2, <2>1, <2>3
  <2>5. Sent(t)' <=> Sent(t)
    BY <1>1
  <2>6. Sent(buf[i].skb)' <=> Sent(t)'
    BY <2>1, <2>2 DEF Sent
  <2> QED
    BY <1>2, <2>4, <2>5, <2>6
<1> QED
  BY <1>5, <1>6 DEF SentRight

\* Sending appends the frame of one packet.
LEMMA SentAppend ==
    ASSUME TxInv, NEW s, NEW f, f.skb = s, wire' = Append(wire, f), wire' \in Seq(FrameType)
    PROVE  \A t : Sent(t)' <=> (Sent(t) \/ t = s)
<1>1. ASSUME NEW t, Sent(t) PROVE Sent(t)'
  BY <1>1, WireAppend DEF Sent
<1>2. Sent(s)'
  BY WireAppend DEF Sent
<1>3. ASSUME NEW t, Sent(t)' PROVE Sent(t) \/ t = s
  BY <1>3, WireAppend DEF Sent
<1> QED
  BY <1>1, <1>2, <1>3

LEMMA SentRead ==
    ASSUME TxInv, HeldOnce, Laid, NEW at \in 0 .. Passed, Owned(at), Body(at), SentRight(at),
           DmaContext \/ DmaData, [Next]_vars
    PROVE  SentRight(at + 1)'
<1>1. /\ \A s \in Skbs : Sent(s) => fate[s] \in {"held", "freed"}
      /\ \A s \in Skbs : fate[s] = "freed" => Sent(s)
      /\ \A i \in Slots : buf[i].skb # 0 => (Sent(buf[i].skb) <=> Pos(i) < at)
  BY DEF SentRight
<1>2. UNCHANGED <<buf, fate, dirty_tx>>
  BY StepRead DEF Read
<1>3. at \in Nat /\ Pos(dma.idx) = at /\ dma.idx \in Slots /\ at < Passed /\ ~InHand(dma.idx)
  BY ReadPlace, Ground DEF DmaContext, DmaData, DmaOwns
<1>4. wire' \in Seq(FrameType)
  BY TxTypeStep DEF TypeOK
<1>5. \E s \in Skbs \cup {0} : /\ buf[dma.idx].skb = s
                               /\ \A t \in Skbs : Sent(t)' <=> (Sent(t) \/ t = s)
  <2>1. CASE DmaContext
    <3>1. Written(dma.idx) /\ desc[dma.idx].ctxt /\ wire' = wire
      BY <1>3, <2>1 DEF Written, InHand, DmaContext, DmaOwns
    <3>2. buf[dma.idx].skb = 0
      <4>1. \A s, k : ~IsPart(dma.idx, s, k)
        BY <3>1 DEF IsPart
      <4> QED
        BY <1>3, <3>1, <4>1 DEF Laid
    <3>3. \A t \in Skbs : t # 0
      BY Held
    <3> QED
      BY <3>1, <3>2, <3>3 DEF Sent
  <2>2. CASE DmaData
    <3>1. PICK s \in Skbs : \E k \in 1 .. DataDescs(shape[s]) :
              /\ buf[dma.idx].skb = IF k = DataDescs(shape[s]) THEN s ELSE 0
              /\ k # DataDescs(shape[s]) => wire' = wire
              /\ k = DataDescs(shape[s]) => \E f : wire' = Append(wire, f) /\ f.skb = s
      BY <2>2, ReadData
    <3>2. CASE buf[dma.idx].skb = 0 /\ wire' = wire
      <4>1. \A t \in Skbs : t # 0
        BY Held
      <4> QED
        BY <3>2, <4>1 DEF Sent
    <3>3. CASE buf[dma.idx].skb = s /\ \E f : wire' = Append(wire, f) /\ f.skb = s
      BY <1>4, <3>3, SentAppend
    <3> QED
      BY <3>1, <3>2, <3>3
  <2> QED
    BY <2>1, <2>2
<1>6. PICK s \in Skbs \cup {0} : /\ buf[dma.idx].skb = s
                                 /\ \A t \in Skbs : Sent(t)' <=> (Sent(t) \/ t = s)
  BY <1>5
<1>7. \A t \in Skbs : /\ Sent(t)' => fate'[t] \in {"held", "freed"}
                      /\ fate'[t] = "freed" => Sent(t)'
  <2>1. s # 0 => fate[s] = "held"
    BY <1>3, <1>6, Held
  <2>2. \A t \in Skbs : t # 0
    BY Held
  <2> QED
    BY <1>1, <1>2, <1>6, <2>1, <2>2
<1>8. ASSUME NEW i \in Slots, (buf[i].skb # 0)' PROVE (Sent(buf[i].skb) <=> Pos(i) < at + 1)'
  <2>1. buf'[i] = buf[i] /\ Pos(i)' = Pos(i) /\ Pos(i) \in Nat
    BY <1>2, SamePos, Ground
  <2>2. PICK t \in Skbs : t = buf[i].skb
    BY <1>8, <2>1, Held
  <2>3. t # 0 /\ (Sent(t) <=> Pos(i) < at)
    BY <1>1, <2>2, Held
  <2>4. Pos(i) = at <=> i = dma.idx
    BY <1>3, Ground
  <2>5. t = s <=> i = dma.idx
    BY <1>3, <1>6, <2>2, <2>3, Held
  <2>6. Sent(t)' <=> Pos(i) < at + 1
    BY <1>3, <1>6, <2>1, <2>3, <2>4, <2>5
  <2>7. Sent(buf[i].skb)' <=> Sent(t)'
    BY <2>1, <2>2 DEF Sent
  <2> QED
    BY <2>1, <2>6, <2>7
<1> QED
  BY <1>7, <1>8 DEF SentRight

-----------------------------------------------------------------------------
(* The segment size a frame goes with.                                      *)

\* Only tx_interrupt takes descriptors back.
LEMMA FreeIsClean ==
    ASSUME TxInv, [Next]_vars, Free
    PROVE  CleanOne
<1>1. pc = "clean" /\ pc' = "clean" /\ dirty_tx' = Advance(dirty_tx, 1) /\ dirty_tx \in Slots
  BY Ground DEF Free
<1>2. Advance(dirty_tx, 1) # dirty_tx
  BY <1>1, TxAssumption DEF Advance, Slots
<1>3. CASE \/ \E s \in Skbs : Xmit(s)
           \/ PreTransmitStep \/ CleanStart \/ CleanEnd
  BY <1>1, <1>3 DEF Xmit, XmitReject, XmitBusy, XmitTsoFails, XmitMapFails, XmitMap, Fits, Offered,
     PreTransmitStep, PreVlan, PreMss, PreFirst, PreRest, PreOwn, PreTail, PreTransmit,
     CleanStart, CleanEnd
<1>4. CASE Dma \/ UNCHANGED vars
  <2>1. dirty_tx' = dirty_tx
    BY <1>4 DEF Dma, DmaSuspend, DmaContext, DmaData, DmaOwns, ctl, vars
  <2> QED
    BY <1>1, <1>2, <2>1
<1> QED
  BY <1>3, <1>4 DEF Next, Clean

LEMMA ReadsNotClean ==
    ASSUME TxInv, DmaContext \/ DmaData
    PROVE  ~CleanOne
<1>1. dirty_tx' = dirty_tx /\ dirty_tx \in Slots
  BY StepRead, Ground DEF Read
<1>2. Advance(dirty_tx, 1) # dirty_tx
  BY <1>1, TxAssumption DEF Advance, Slots
<1> QED
  BY <1>1, <1>2 DEF CleanOne

LEMMA PartsNotEmpty ==
    ASSUME NEW s, NEW n \in Nat \ {0}
    PROVE  Parts(s, n) # <<>>
<1>1. DOMAIN Parts(s, n) = 1 .. n
  BY DEF Parts
<1>2. 1 \in 1 .. n
  OBVIOUS
<1>3. DOMAIN <<>> = {}
  OBVIOUS
<1> QED
  BY <1>1, <1>2, <1>3

\* An accepted packet stays accepted, and the one accepted by a step is the one
\* start_xmit maps in it.
LEMMA AcceptedStep ==
    ASSUME TxInv, HeldOnce, [Next]_vars
    PROVE  /\ shape' = shape
           /\ \A s \in Skbs : /\ Accepted(s) => Accepted(s)'
                              /\ Accepted(s)' => Accepted(s) \/ XmitMap(s)
<1>0. shape' = shape /\ fate \in [Skbs -> {"stack", "held", "freed", "dropped"}]
  BY StepShape DEF TxInv, TypeOK
<1>1. ASSUME NEW s \in Skbs, XmitMap(s)
      PROVE  /\ \A t \in Skbs : t # s => fate'[t] = fate[t]
             /\ fate[s] = "stack"
  <2>1. fate[s] = "stack" /\ fate' = [fate EXCEPT ![s] = "held"]
    BY <1>1 DEF XmitMap, Fits, Offered
  <2>2. \A t \in Skbs : t # s => fate'[t] = fate[t]
    BY <1>0, <2>1
  <2> QED
    BY <2>1, <2>2
<1>2. ASSUME NEW s \in Skbs, XmitReject(s) \/ XmitTsoFails(s) \/ XmitMapFails(s)
      PROVE  \A t \in Skbs : Accepted(t)' <=> Accepted(t)
  <2>1. fate[s] = "stack" /\ fate' = [fate EXCEPT ![s] = "dropped"]
    BY <1>2, DropSkb
  <2> QED
    BY <1>0, <2>1 DEF Accepted
<1>3. ASSUME CleanOne PROVE \A t \in Skbs : Accepted(t)' <=> Accepted(t)
  <2>1. fate' = [s \in Skbs |-> IF s = buf[dirty_tx].skb THEN "freed" ELSE fate[s]]
    BY <1>3 DEF CleanOne
  <2>2. ASSUME NEW t \in Skbs, t = buf[dirty_tx].skb PROVE fate[t] = "held"
    BY <2>2, Held, Ground
  <2>3. \A t \in Skbs : fate'[t] = IF t = buf[dirty_tx].skb THEN "freed" ELSE fate[t]
    BY <2>1
  <2> QED
    BY <2>2, <2>3 DEF Accepted
<1>4. ASSUME UNCHANGED fate PROVE \A t \in Skbs : Accepted(t)' <=> Accepted(t)
  BY <1>4 DEF Accepted
<1>5. UNCHANGED <<buf, fate, dirty_tx, tx_pkt_queued>> => UNCHANGED fate
  OBVIOUS
<1>6. ASSUME NEW t \in Skbs
      PROVE  /\ Accepted(t) => Accepted(t)'
             /\ Accepted(t)' => Accepted(t) \/ XmitMap(t)
  <2>1. CASE \E s \in Skbs : XmitMap(s)
    <3>1. PICK s \in Skbs : XmitMap(s)
      BY <2>1
    <3>2. CASE t = s
      <4>1. ~Accepted(t) /\ XmitMap(t)
        BY <1>1, <3>1, <3>2 DEF Accepted
      <4> QED
        BY <4>1
    <3>3. CASE t # s
      <4>1. fate'[t] = fate[t]
        BY <1>1, <3>1, <3>3
      <4> QED
        BY <4>1 DEF Accepted
    <3> QED
      BY <3>2, <3>3
  <2>2. CASE \E s \in Skbs : XmitReject(s) \/ XmitTsoFails(s) \/ XmitMapFails(s)
    BY <1>2, <2>2 DEF Accepted
  <2>3. CASE CleanOne \/ UNCHANGED fate
    BY <1>3, <1>4, <2>3 DEF Accepted
  <2> QED
    BY <1>5, <2>1, <2>2, <2>3, SkbKinds
<1> QED
  BY <1>0, <1>6

\* What fits a packet goes on fitting it.
LEMMA FitsStep ==
    ASSUME TxInv, HeldOnce, [Next]_vars
    PROVE  \A s \in Skbs : \A m : MssFits(s, m) => MssFits(s, m)'
<1> SUFFICES ASSUME NEW s \in Skbs, NEW m, MssFits(s, m) PROVE MssFits(s, m)'
  OBVIOUS
<1>1. shape' = shape /\ \A t \in Skbs : Accepted(t) => Accepted(t)'
  BY AcceptedStep
<1>2. \A t \in Skbs : TsoEnabled(shape[t])' <=> TsoEnabled(shape[t])
  BY <1>1 DEF TsoEnabled
<1> QED
  BY <1>1, <1>2 DEF MssFits

\* A prime over MssFits reaches its arguments; these are their values.
LEMMA FitsAt ==
    ASSUME NEW s, NEW m, MssFits(s, m)'
    PROVE  /\ m = dma_cr_mss' => MssFits(s, dma_cr_mss)'
           /\ m = dma'.head.mss => MssFits(s, dma.head.mss)'
           /\ \A n : m = wire'[n].mss => MssFits(s, wire[n].mss)'
BY DEF MssFits

\* A packet whose own size is in the register, or whose size nobody asks for.
LEMMA FitsSelf ==
    ASSUME NEW s \in Skbs, Accepted(s), TsoEnabled(shape[s])
    PROVE  MssFits(s, shape[s].mss)
<1>1. s <= s
  BY DEF Skbs
<1> QED
  BY <1>1 DEF MssFits

\* The steps of start_xmit before the MSS is written, and all others.
LEMMA SettledStep ==
    ASSUME TxInv, HeldOnce, [Next]_vars
    PROVE  /\ \A s \in Skbs : Settled(s) => Settled(s)'
           /\ ~PreMss => /\ UNCHANGED <<dma_cr_mss, default_mss>>
                         /\ \A s \in Skbs : Settled(s)' => Settled(s)
<1>0. /\ \A s \in Skbs : Accepted(s) => Accepted(s)'
      /\ \A s \in Skbs : Accepted(s)' => Accepted(s) \/ XmitMap(s)
  BY AcceptedStep
<1>1. ASSUME NEW s \in Skbs, XmitMap(s)
      PROVE  /\ \A t \in Skbs : Settled(t) <=> Settled(t)'
             /\ UNCHANGED <<dma_cr_mss, default_mss>>
  <2>1. /\ pc = "idle" /\ pc' = "vlan" /\ xm'.s = s /\ fate[s] = "stack"
        /\ UNCHANGED <<dma_cr_mss, default_mss>>
        /\ fate' = [fate EXCEPT ![s] = "held"]
    BY <1>1 DEF XmitMap, Fits, Offered, Locals, CountDescs
  <2>2. fate \in [Skbs -> {"stack", "held", "freed", "dropped"}]
    BY DEF TxInv, TypeOK
  <2>3. \A t \in Skbs : t # s => (Accepted(t)' <=> Accepted(t))
    BY <2>1, <2>2 DEF Accepted
  <2>4. ~Accepted(s)
    BY <2>1 DEF Accepted
  <2> QED
    BY <2>1, <2>3, <2>4 DEF Settled
<1>2. CASE PreVlan \/ PreMss
  <2>1. /\ pc \in {"vlan", "mss"} /\ xm' = xm /\ fate' = fate /\ pc' \in {"mss", "first"}
        /\ ~PreMss => pc' = "mss" /\ UNCHANGED <<dma_cr_mss, default_mss>>
    BY <1>2 DEF PreVlan, PreMss, PreTransmit
  <2>2. \A s \in Skbs : Accepted(s)' <=> Accepted(s)
    BY <2>1 DEF Accepted
  <2> QED
    BY <2>1, <2>2 DEF Settled
<1>3. CASE Dma \/ UNCHANGED vars
  <2>1. UNCHANGED <<pc, xm, fate, ctx>>
    BY <1>3 DEF Dma, DmaSuspend, DmaContext, DmaData, DmaOwns, vars
  <2>2. UNCHANGED <<dma_cr_mss, default_mss>>
    BY <2>1 DEF ctx
  <2>3. \A s \in Skbs : Settled(s)' <=> Settled(s)
    BY <2>1 DEF Settled, Accepted
  <2> QED
    BY <2>2, <2>3
<1>4. CASE \/ \E s \in Skbs : XmitReject(s) \/ XmitBusy(s) \/ XmitTsoFails(s) \/ XmitMapFails(s)
           \/ PreFirst \/ PreRest \/ PreOwn \/ PreTail \/ Clean
  <2>1. /\ pc \notin {"vlan", "mss"} /\ pc' \notin {"vlan", "mss"}
        /\ UNCHANGED <<dma_cr_mss, default_mss>>
    BY <1>4 DEF XmitReject, XmitBusy, XmitTsoFails, XmitMapFails, Fits, Offered, Drop, CountDescs,
       PreFirst, PreRest, PreOwn, PreTail, PreTransmit, Clean, CleanStart, CleanOne, CleanEnd, ctx
  <2>2. ASSUME NEW s \in Skbs PROVE ~XmitMap(s)
    <3> SUFFICES ASSUME XmitMap(s) PROVE FALSE
      OBVIOUS
    <3>1. pc' = "vlan"
      BY DEF XmitMap
    <3> QED
      BY <2>1, <3>1
  <2> QED
    BY <1>0, <2>1, <2>2 DEF Settled
<1> QED
  BY <1>1, <1>2, <1>3, <1>4 DEF Next, Xmit, PreTransmitStep

LEMMA RegisterStep ==
    ASSUME TxInv, HeldOnce, Ordered, InWork, Register, [Next]_vars
    PROVE  Register'
<1>0. /\ shape' = shape
      /\ \A s \in Skbs : Accepted(s) => Accepted(s)'
      /\ \A s \in Skbs : Accepted(s)' => Accepted(s) \/ XmitMap(s)
      /\ \A s \in Skbs : TsoEnabled(shape[s])' <=> TsoEnabled(shape[s])
      /\ Skbs \subseteq Nat
  BY AcceptedStep DEF TsoEnabled, Skbs
<1>1. (dma_cr_mss = default_mss)'
  <2>1. CASE PreMss
    BY <2>1 DEF PreMss, Register
  <2> QED
    BY <2>1, SettledStep DEF Register
<1>2. (pc \in {"vlan", "mss", "first", "rest"} =>
         Accepted(xm.s) /\ \A s \in Skbs : Accepted(s) => s <= xm.s)'
  <2>1. ASSUME NEW s \in Skbs, XmitMap(s)
        PROVE  (Accepted(xm.s) /\ \A t \in Skbs : Accepted(t) => t <= xm.s)'
    <3>1. /\ pc = "idle" /\ xm'.s = s /\ fate[s] = "stack"
          /\ fate' = [fate EXCEPT ![s] = "held"]
      BY <2>1 DEF XmitMap, Fits, Offered, Locals
    <3>2. fate \in [Skbs -> {"stack", "held", "freed", "dropped"}]
      BY DEF TxInv, TypeOK
    <3>3. Accepted(xm.s)'
      BY <3>1, <3>2 DEF Accepted
    <3>4. ASSUME NEW t \in Skbs, Accepted(t)' PROVE t <= s
      <4>1. CASE t = s
        BY <1>0, <4>1
      <4>2. CASE t # s
        <5>1. fate[t] # "stack"
          BY <3>1, <3>2, <3>4, <4>2 DEF Accepted
        <5>2. t < s
          BY <3>1, <5>1 DEF Ordered
        <5> QED
          BY <1>0, <5>2
      <4> QED
        BY <4>1, <4>2
    <3> QED
      BY <3>1, <3>3, <3>4
  <2>2. CASE PreVlan \/ PreMss \/ PreFirst \/ Dma \/ UNCHANGED vars
    <3>1. /\ pc' \in {"vlan", "mss", "first", "rest"} => pc \in {"vlan", "mss", "first", "rest"}
          /\ xm'.s = xm.s /\ fate' = fate
      BY <2>2 DEF PreVlan, PreMss, PreFirst, PreTransmit, Dma, DmaSuspend, DmaContext, DmaData,
         DmaOwns, vars, TxInv, TypeOK, XmType
    <3> QED
      BY <3>1 DEF Register, Accepted
  <2>3. CASE \/ \E s \in Skbs : XmitReject(s) \/ XmitBusy(s) \/ XmitTsoFails(s) \/ XmitMapFails(s)
             \/ PreRest \/ PreOwn \/ PreTail \/ Clean
    <3>1. pc' \in {"idle", "own", "tail", "clean"}
      BY <2>3 DEF XmitReject, XmitBusy, XmitTsoFails, XmitMapFails, Fits, Offered, Drop, PreRest,
         PreOwn, PreTail, PreTransmit, Clean, CleanStart, CleanOne, CleanEnd
    <3> QED
      BY <3>1
  <2> QED
    BY <2>1, <2>2, <2>3 DEF Next, Xmit, PreTransmitStep
<1>3. ASSUME NEW s \in Skbs, Settled(s)', TsoEnabled(shape[s])
      PROVE  MssFits(s, dma_cr_mss)'
  <2>1. PICK m : m = dma_cr_mss'
    OBVIOUS
  <2>2. MssFits(s, m)
    <3>1. CASE ~PreMss
      <4>1. Settled(s) /\ dma_cr_mss' = dma_cr_mss
        BY <1>3, <3>1, SettledStep
      <4> QED
        BY <1>3, <2>1, <4>1 DEF Register
    <3>2. CASE PreMss
      <4>1. pc = "mss" /\ xm' = xm /\ fate' = fate /\ xm.s \in Skbs
        BY <3>2 DEF PreMss, PreTransmit, TxInv, Preparing
      <4>2. /\ Accepted(s) /\ Accepted(xm.s) /\ s <= xm.s
            /\ xm.tso = TsoEnabled(shape[xm.s])
        BY <1>3, <4>1 DEF Settled, Accepted, Register, InWork
      <4>3. CASE NeedsMssCtx(xm)
        <5>1. m = shape[xm.s].mss /\ TsoEnabled(shape[xm.s])
          BY <2>1, <3>2, <4>2, <4>3 DEF PreMss, NeedsMssCtx
        <5> QED
          BY <4>1, <4>2, <5>1, <1>3 DEF MssFits
      <4>4. CASE ~NeedsMssCtx(xm)
        <5>1. m = dma_cr_mss
          BY <2>1, <3>2, <4>4 DEF PreMss
        <5>2. CASE s = xm.s
          <6>1. m = shape[s].mss
            BY <1>3, <4>2, <4>4, <5>1, <5>2 DEF NeedsMssCtx, Register
          <6> QED
            BY <1>3, <4>2, <6>1, FitsSelf
        <5>3. CASE s # xm.s
          BY <1>3, <4>2, <5>1, <5>3 DEF Register, Settled
        <5> QED
          BY <5>2, <5>3
      <4> QED
        BY <4>3, <4>4
    <3> QED
      BY <3>1, <3>2
  <2>3. MssFits(s, m)'
    BY <2>2, FitsStep
  <2> QED
    BY <2>1, <2>3, FitsAt
<1> QED
  BY <1>0, <1>1, <1>2, <1>3 DEF Register

LEMMA PartsSettledStep ==
    ASSUME TxInv, HeldOnce, Fresh, InWork, OneContext, Register, PartsSettled,
           NEW at \in 0 .. Passed, Owned(at), [Next]_vars
    PROVE  PartsSettled'
<1>0. shape' = shape /\ \A s \in Skbs : Settled(s) => Settled(s)'
  BY StepShape, SettledStep
<1> SUFFICES ASSUME NEW i \in Slots, NEW s \in Skbs, desc'[i].data.of = s
             PROVE  Settled(s)'
  BY DEF PartsSettled
<1>1. ASSUME desc'[i].data = desc[i].data PROVE Settled(s)'
  BY <1>0, <1>1 DEF PartsSettled
<1>2. NoData.of # s /\ NoDesc.data = NoData
  BY DEF NoData, NoDesc, Skbs
<1>3. CASE Keep \/ HandOver \/ Read
  <2>1. Fields(i)' = Fields(i)
    BY <1>3, StillSteps DEF Still
  <2> QED
    BY <1>1, <2>1 DEF Fields
<1>4. ASSUME pc \in {"first", "rest"}, pc' \notin {"vlan", "mss"}, s = xm.s PROVE Settled(s)'
  <2>1. Settled(s)
    BY <1>4 DEF Register, Settled
  <2> QED
    BY <1>0, <2>1
<1>5. ASSUME NEW c \in Slots, NEW d \in DescType, PushContext(c, d) \/ PushFirst(c, d)
      PROVE  Settled(s)'
  <2>1. CASE i # c
    BY <1>0, <1>1, <1>5, <2>1, PushFacts
  <2>2. CASE i = c
    <3>1. desc'[i] = d
      BY <1>0, <1>5, <2>2, PushFacts
    <3>2. PushFirst(c, d)
      BY <1>2, <1>5, <3>1 DEF PushContext
    <3>3. s = xm.s
      BY <3>1, <3>2 DEF PushFirst, Mapped
    <3> QED
      BY <1>4, <3>2, <3>3 DEF PushFirst
  <2> QED
    BY <2>1, <2>2
<1>6. CASE Complete
  <2>1. CASE Pos(i) < FirstPos \/ Pos(i) >= tx_pkt_queued
    BY <1>1, <1>6, <2>1 DEF Complete
  <2>2. CASE FirstPos <= Pos(i) /\ Pos(i) < tx_pkt_queued
    <3>1. PICK t \in Skbs, k \in Nat : t = xm.s /\ k = Pos(i) - FirstPos + 1
      BY <1>0, <1>6, <2>2, CompleteFacts, Ground
    <3>2. IsPart(i, t, k)'
      BY <1>0, <1>6, <2>2, <3>1, CompleteFacts
    <3>3. s = t
      BY <3>2 DEF IsPart, Mapped
    <3> QED
      BY <1>4, <1>6, <3>1, <3>3 DEF Complete
  <2> QED
    BY <1>0, <1>6, <2>1, <2>2, CompleteFacts, Ground
<1>7. CASE Free
  BY <1>0, <1>1, <1>2, <1>7, FreeFacts
<1> QED
  BY <1>3, <1>5, <1>6, <1>7, StepKinds

\* What a step leaves of a descriptor that opens a frame.
LEMMA HasMssKeeps ==
    ASSUME shape' = shape, NEW i \in Slots, NEW m, HasMss(i, m),
           desc'[i].ctxt = desc[i].ctxt, desc'[i].fd = desc[i].fd, desc'[i].data = desc[i].data
    PROVE  HasMss(i, m)'
BY DEF HasMss, TsoEnabled

\* The frame at place p stays there, or moves with the window to place q.
LEMMA MssNextStep ==
    ASSUME TxInv, Fresh, InWork, OneContext, NEW at \in 0 .. Passed, Owned(at), [Next]_vars,
           NEW p \in 0 .. Passed, NEW q \in Nat, NEW m, MssNext(p, m),
           IF CleanOne THEN p = q + 1 ELSE q = p
    PROVE  MssNext(q, m)'
<1>0. shape' = shape /\ p \in Nat /\ Passed \in Nat
  BY StepShape, Ground
<1>1. ASSUME NEW i \in Slots, Pos(i) = p, p < Passed,
             desc'[i].ctxt = desc[i].ctxt, desc'[i].fd = desc[i].fd, desc'[i].data = desc[i].data
      PROVE  HasMss(i, m)'
  BY <1>0, <1>1, HasMssKeeps DEF MssNext
<1>2. p = Passed => pc = "first" /\ xm.tso /\ shape[xm.s].mss = m
  BY <1>0 DEF MssNext
<1>3. ASSUME ~CleanOne, Keep \/ HandOver \/ Read PROVE MssNext(q, m)'
  <2>1. Still /\ q = p
    BY <1>3, StillSteps
  <2>2. ASSUME NEW i \in Slots
        PROVE  /\ Pos(i)' = Pos(i) /\ desc'[i].ctxt = desc[i].ctxt
               /\ desc'[i].fd = desc[i].fd /\ desc'[i].data = desc[i].data
    BY <2>1 DEF Still, Fields
  <2>3. CASE p < Passed
    <3>1. (q < Passed)' /\ \A i \in Slots : Pos(i)' = q => HasMss(i, m)'
      BY <1>1, <2>1, <2>2, <2>3 DEF Still
    <3> QED
      BY <3>1 DEF MssNext
  <2>4. CASE p = Passed
    <3>1. pc' = "first" /\ xm' = xm
      BY <1>2, <1>3, <2>4 DEF Keep, HandOver, Read
    <3>2. ~(q < Passed)'
      BY <1>0, <2>1, <2>4 DEF Still
    <3> QED
      BY <1>0, <1>2, <2>4, <3>1, <3>2 DEF MssNext
  <2> QED
    BY <1>0, <2>3, <2>4
<1>4. ASSUME ~CleanOne, NEW c \in Slots, NEW d \in DescType, PushContext(c, d) \/ PushFirst(c, d)
      PROVE  MssNext(q, m)'
  <2>1. /\ Pos(c) = Passed /\ (q < Passed)' /\ desc'[c] = d
        /\ \A i \in Slots : Pos(i)' = Pos(i) /\ (i # c => desc'[i] = desc[i])
    BY <1>0, <1>4, PushFacts
  <2>2. ASSUME NEW i \in Slots, Pos(i)' = q PROVE HasMss(i, m)'
    <3>1. Pos(i) = p
      BY <1>4, <2>1, <2>2
    <3>2. CASE i # c
      <4>1. p < Passed
        BY <1>0, <2>1, <3>1, <3>2, Ground
      <4> QED
        BY <1>1, <2>1, <3>1, <3>2, <4>1
    <3>3. CASE i = c
      <4>1. pc = "first" /\ xm.tso /\ shape[xm.s].mss = m
        BY <1>2, <2>1, <3>1, <3>3
      <4>2. PushFirst(c, d)
        BY <1>4, <4>1 DEF PushContext
      <4>3. xm.s \in Skbs /\ TsoEnabled(shape[xm.s])
        BY <4>1 DEF TxInv, Preparing, InWork
      <4>4. ~d.ctxt /\ d.fd /\ d.data.of = xm.s
        BY <4>2 DEF PushFirst, Mapped
      <4> QED
        BY <1>0, <2>1, <3>3, <4>1, <4>3, <4>4 DEF HasMss, TsoEnabled
    <3> QED
      BY <3>2, <3>3
  <2> QED
    BY <2>1, <2>2 DEF MssNext
<1>5. ASSUME ~CleanOne, Complete PROVE MssNext(q, m)'
  <2>1. /\ Passed = FirstPos + 1 /\ FirstPos < tx_pkt_queued /\ Passed' = tx_pkt_queued
        /\ FirstPos \in Nat /\ Pos(xm.at) = FirstPos /\ xm.at \in Slots
        /\ \A i \in Slots : Pos(i)' = Pos(i)
    BY <1>0, <1>5, CompleteFacts
  <2>2. p < Passed
    <3>1. pc = "rest"
      BY <1>5 DEF Complete
    <3>2. p # Passed
      BY <1>2, <3>1
    <3> QED
      BY <1>0, <3>2
  <2>3. (q < Passed)'
    BY <1>0, <1>5, <2>1, <2>2, Ground
  <2>4. ASSUME NEW i \in Slots, Pos(i)' = q PROVE HasMss(i, m)'
    <3>1. Pos(i) = p
      BY <1>5, <2>1, <2>4
    <3>2. CASE i = xm.at
      <4>1. desc[i] \in DescType /\ desc'[i] = [desc[i] EXCEPT !.ld = (packet_count = 1)]
        BY <1>5, <3>2, Ground DEF Complete
      <4>2. desc'[i].ctxt = desc[i].ctxt /\ desc'[i].fd = desc[i].fd /\ desc'[i].data = desc[i].data
        BY <4>1 DEF DescType
      <4> QED
        BY <1>1, <2>2, <3>1, <4>2
    <3>3. CASE i # xm.at
      <4>1. Pos(i) # FirstPos
        BY <2>1, <3>3, Ground
      <4>2. Pos(i) < FirstPos
        BY <1>0, <2>1, <2>2, <3>1, <4>1
      <4>3. desc'[i] = desc[i]
        BY <1>0, <1>5, <4>2, CompleteFacts
      <4> QED
        BY <1>1, <2>2, <3>1, <4>3
    <3> QED
      BY <3>2, <3>3
  <2> QED
    BY <2>3, <2>4 DEF MssNext
<1>6. CASE CleanOne
  <2>1. Free /\ p = q + 1
    BY <1>6, StepFree
  <2>2. p < Passed
    BY <1>0, <1>2, <2>1 DEF Free
  <2>3. (q < Passed)'
    BY <1>0, <2>1, <2>2, FreeFacts
  <2>4. ASSUME NEW i \in Slots, Pos(i)' = q PROVE HasMss(i, m)'
    <3>1. i # dirty_tx
      BY <1>0, <2>1, <2>3, <2>4, FreeFacts
    <3>2. desc'[i] = desc[i] /\ Pos(i) = p
      BY <1>0, <2>1, <2>4, <3>1, FreeFacts, Ground
    <3> QED
      BY <1>1, <2>2, <3>2
  <2> QED
    BY <2>3, <2>4 DEF MssNext
<1>7. ~CleanOne => ~Free
  BY FreeIsClean
<1> QED
  BY <1>3, <1>4, <1>5, <1>6, <1>7, StepKinds

\* A prime over MssNext reaches its arguments; these are their values.
LEMMA NextAt ==
    ASSUME NEW p, NEW m, MssNext(p, m)'
    PROVE  /\ \A i : p = Pos(i)' + 1 /\ m = desc'[i].mss => MssNext(Pos(i) + 1, desc[i].mss)'
           /\ m = dma'.mss => MssNext(p, dma.mss)'
BY DEF MssNext, HasMss

LEMMA MssSaidStep ==
    ASSUME TxInv, Fresh, InWork, OneContext, MssSaid, NEW at \in 0 .. Passed, Owned(at),
           [Next]_vars
    PROVE  MssSaid'
<1>0. /\ shape' = shape /\ Passed \in Nat /\ \A i \in Slots : Pos(i) \in Nat
      /\ NoDesc.mss = 0
  BY StepShape, Ground DEF NoDesc
<1> SUFFICES ASSUME NEW i \in Slots, SaysMss(i)' PROVE MssNext(Pos(i) + 1, desc[i].mss)'
  BY DEF MssSaid
<1>1. PICK m : m = desc'[i].mss
  OBVIOUS
<1>2. desc'[i].ctxt /\ m # 0
  BY <1>1 DEF SaysMss
<1>3. PICK q \in Nat : q = Pos(i)' + 1
  <2>1. dirty_tx' \in Slots
    BY TxTypeStep DEF TypeOK
  <2>2. Slots \subseteq Nat /\ TX_DESC_CNT \in Nat
    BY TxAssumption DEF Slots
  <2>3. Pos(i)' = Dist(dirty_tx', i)
    BY DEF Pos, Dist
  <2>4. Dist(dirty_tx', i) \in Slots
    BY <2>1, DistType
  <2>5. Pos(i)' \in Nat
    BY <2>2, <2>3, <2>4
  <2>6. \A x \in Nat : x + 1 \in Nat
    OBVIOUS
  <2> QED
    BY <2>5, <2>6
<1>4. SUFFICES MssNext(q, m)'
  BY <1>1, <1>3, NextAt
\* The descriptor is an old one, at the same place or one nearer to the front.
<1>5. ASSUME desc'[i].ctxt = desc[i].ctxt, desc'[i].mss = desc[i].mss,
             IF CleanOne THEN Pos(i)' = Pos(i) - 1 ELSE Pos(i)' = Pos(i)
      PROVE  MssNext(q, m)'
  <2>1. SaysMss(i) /\ m = desc[i].mss
    BY <1>1, <1>2, <1>5 DEF SaysMss
  <2>2. Pos(i) < Passed
    BY <1>0, <2>1 DEF SaysMss, Fresh
  <2>3. PICK p \in 0 .. Passed : p = Pos(i) + 1
    BY <1>0, <2>2
  <2>4. MssNext(p, m)
    BY <2>1, <2>3 DEF MssSaid
  <2>5. IF CleanOne THEN p = q + 1 ELSE q = p
    BY <1>0, <1>3, <1>5, <2>3
  <2> QED
    BY <2>4, <2>5, MssNextStep
<1>6. CASE CleanOne
  <2>1. Free
    BY <1>6, StepFree
  <2>2. i # dirty_tx
    BY <1>0, <1>1, <1>2, <2>1, FreeFacts
  <2> QED
    BY <1>0, <1>5, <1>6, <2>1, <2>2, FreeFacts
<1>7. ASSUME ~CleanOne, Keep \/ HandOver \/ Read PROVE MssNext(q, m)'
  <2>1. Still
    BY <1>7, StillSteps
  <2> QED
    BY <1>5, <1>7, <2>1 DEF Still, Fields
<1>8. ASSUME ~CleanOne, NEW c \in Slots, NEW d \in DescType, PushContext(c, d) \/ PushFirst(c, d)
      PROVE  MssNext(q, m)'
  <2>1. CASE i # c
    BY <1>0, <1>5, <1>8, <2>1, PushFacts
  <2>2. CASE i = c
    <3>1. Pos(c) = Passed /\ Passed' = Passed + 1 /\ desc'[c] = d /\ Pos(c)' = Pos(c)
      BY <1>0, <1>8, PushFacts
    <3>2. PushContext(c, d)
      BY <1>2, <1>8, <2>2, <3>1 DEF PushFirst
    <3>3. pc' = "first" /\ xm' = xm /\ xm.tso /\ shape[xm.s].mss = m
      BY <1>1, <1>2, <2>2, <3>1, <3>2 DEF PushContext
    <3>4. ~(q < Passed)'
      BY <1>0, <1>3, <2>2, <3>1
    <3> QED
      BY <1>0, <3>3, <3>4 DEF MssNext
  <2> QED
    BY <2>1, <2>2
<1>9. ASSUME ~CleanOne, Complete PROVE MssNext(q, m)'
  <2>1. CASE Pos(i) < FirstPos \/ Pos(i) >= tx_pkt_queued
    BY <1>0, <1>5, <1>9, <2>1, CompleteFacts
  <2>2. CASE FirstPos <= Pos(i) /\ Pos(i) < tx_pkt_queued
    <3>1. PICK t \in Skbs, k \in Nat : t = xm.s /\ k = Pos(i) - FirstPos + 1
      BY <1>0, <1>9, <2>2, CompleteFacts
    <3>2. IsPart(i, t, k)'
      BY <1>0, <1>9, <2>2, <3>1, CompleteFacts
    <3> QED
      BY <1>2, <3>2 DEF IsPart
  <2> QED
    BY <1>0, <1>9, <2>1, <2>2, CompleteFacts, Ground
<1>10. ~CleanOne => ~Free
  BY FreeIsClean
<1> QED
  BY <1>6, <1>7, <1>8, <1>9, <1>10, StepKinds

\* What the channel has latched goes to the frame it comes to, however the
\* window moves and whatever the channel reads.
LEMMA LatchedStep ==
    ASSUME TxInv, Laid, Fresh, InWork, OneContext, MssSaid,
           NEW at \in 0 .. Passed, Owned(at), Body(at), Latched(at), [Next]_vars,
           NEW q \in Nat,
           IF CleanOne THEN at = q + 1
           ELSE IF DmaContext \/ DmaData THEN q = at + 1 ELSE q = at
    PROVE  Latched(q)'
<1> SUFFICES ASSUME dma'.mss # 0 PROVE MssNext(q, dma.mss)'
  BY DEF Latched
<1>1. PICK m : m = dma'.mss
  OBVIOUS
<1>2. SUFFICES MssNext(q, m)'
  BY <1>1, NextAt
<1>3. ASSUME desc[dma.idx].own, dma.mss # 0 PROVE HasMss(dma.idx, dma.mss)
  <2>1. dma.idx \in Slots /\ Pos(dma.idx) = at /\ at < Passed
    BY <1>3, ReadPlace, Ground
  <2> QED
    BY <1>3, <2>1 DEF Latched, MssNext
<1>4. CASE DmaContext
  <2>1. /\ desc[dma.idx].own /\ desc[dma.idx].ctxt
        /\ m = IF desc[dma.idx].mss # 0 THEN desc[dma.idx].mss ELSE dma.mss
    BY <1>1, <1>4 DEF DmaContext, DmaOwns, TxInv, TypeOK, DmaType
  <2>2. desc[dma.idx].mss # 0 /\ m = desc[dma.idx].mss
    BY <1>1, <1>3, <2>1 DEF HasMss
  <2>3. dma.idx \in Slots /\ Pos(dma.idx) = at /\ at < Passed /\ at \in Nat /\ Passed \in Nat
    BY <2>1, ReadPlace, Ground
  <2>4. MssNext(at + 1, m)
    BY <2>1, <2>2, <2>3 DEF MssSaid, SaysMss
  <2>5. ~CleanOne
    BY <1>4, ReadsNotClean
  <2>6. PICK p \in 0 .. Passed : p = at + 1
    BY <2>3
  <2>7. MssNext(p, m) /\ q = p
    BY <1>4, <2>4, <2>5, <2>6
  <2> QED
    BY <2>5, <2>7, MssNextStep
<1>5. CASE DmaData
  <2>1. PICK s \in Skbs : \E k \in 1 .. DataDescs(shape[s]) :
           IsPart(dma.idx, s, k) /\ dma'.mss = IF k = 1 THEN 0 ELSE dma.mss
    BY <1>5, ReadData
  <2>2. PICK k : IsPart(dma.idx, s, k) /\ dma'.mss = IF k = 1 THEN 0 ELSE dma.mss
    BY <2>1
  <2>3. desc[dma.idx].own
    BY <1>5 DEF DmaData, DmaOwns
  <2>4. k # 1 /\ dma.mss # 0
    BY <2>2
  <2>5. desc[dma.idx].fd
    BY <1>3, <2>3, <2>4 DEF HasMss
  <2> QED
    BY <2>2, <2>4, <2>5 DEF IsPart
<1>6. CASE ~DmaContext /\ ~DmaData
  <2>1. dma'.mss = dma.mss
    BY <1>6 DEF Next, Xmit, XmitReject, XmitBusy, XmitTsoFails, XmitMapFails, XmitMap, Drop,
       PreTransmitStep, PreVlan, PreMss, PreFirst, PreRest, PreOwn, PreTail, PreTransmit,
       Clean, CleanStart, CleanOne, CleanEnd, Dma, DmaSuspend, vars, TxInv, TypeOK, DmaType
  <2>2. MssNext(at, m)
    BY <1>1, <2>1 DEF Latched
  <2>3. IF CleanOne THEN at = q + 1 ELSE q = at
    BY <1>6
  <2> QED
    BY <2>2, <2>3, MssNextStep
<1> QED
  BY <1>4, <1>5, <1>6

\* The frame the channel puts together takes its segment size from the context
\* descriptor before it, or from DMA_CR.
LEMMA HeadFits ==
    ASSUME TxInv, Laid, Register, PartsSettled, HeadRight,
           NEW at \in 0 .. Passed, Owned(at), Body(at), Latched(at), DmaData,
           NEW s \in Skbs, NEW k \in 1 .. DataDescs(shape[s]),
           IsPart(dma.idx, s, k), dma.body = Parts(s, k - 1),
           dma'.head = IF k = 1 THEN FrameHead(desc[dma.idx]) ELSE dma.head
    PROVE  \E m : m = dma'.head.mss /\ MssFits(s, m)
<1>1. /\ desc[dma.idx].own /\ dma.idx \in Slots /\ Pos(dma.idx) = at /\ at < Passed
      /\ desc[dma.idx].data.of = s /\ k \in Nat \ {0}
  <2>1. desc[dma.idx].own
    BY DEF DmaData, DmaOwns
  <2>2. dma.idx \in Slots /\ Pos(dma.idx) = at /\ at < Passed
    BY <2>1, ReadPlace, Ground
  <2>3. desc[dma.idx].data.of = s
    BY DEF IsPart, Mapped
  <2> QED
    BY <2>1, <2>2, <2>3, Sizes
<1>2. Settled(s) /\ Accepted(s)
  BY <1>1 DEF PartsSettled, Settled
<1>3. CASE k = 1
  <2>1. /\ dma'.head.mss = IF ~TsoEnabled(shape[s]) THEN 0
                           ELSE IF dma.mss # 0 THEN dma.mss ELSE dma_cr_mss
    BY <1>3 DEF FrameHead, IsPart
  <2>2. CASE ~TsoEnabled(shape[s])
    BY <2>1, <2>2 DEF MssFits
  <2>3. CASE TsoEnabled(shape[s]) /\ dma.mss = 0
    BY <1>2, <2>1, <2>3 DEF Register
  <2>4. CASE TsoEnabled(shape[s]) /\ dma.mss # 0
    <3>1. HasMss(dma.idx, dma.mss)
      BY <1>1, <2>4 DEF Latched, MssNext
    <3>2. shape[s].mss = dma.mss
      BY <1>1, <3>1 DEF HasMss
    <3> QED
      BY <1>2, <2>1, <2>4, <3>2, FitsSelf
  <2> QED
    BY <2>2, <2>3, <2>4
<1>4. CASE k # 1
  <2>1. k - 1 \in Nat \ {0} /\ 1 \in 1 .. k - 1
    BY <1>1, <1>4
  <2>2. dma.body[1].of = s
    BY <2>1 DEF Parts, Mapped
  <2>3. dma.body # <<>>
    BY <2>1, PartsNotEmpty
  <2> QED
    BY <1>4, <2>2, <2>3 DEF HeadRight
<1> QED
  BY <1>3, <1>4

LEMMA HeadRightStep ==
    ASSUME TxInv, HeldOnce, Laid, Register, PartsSettled, HeadRight,
           NEW at \in 0 .. Passed, Owned(at), Body(at), Latched(at), [Next]_vars
    PROVE  HeadRight'
<1>1. SUFFICES ASSUME NEW s \in Skbs, dma'.body # <<>>, dma'.body[1].of = s
               PROVE  \E m : m = dma'.head.mss /\ MssFits(s, m)
  <2>1. ASSUME NEW s \in Skbs, NEW m, m = dma'.head.mss, MssFits(s, m)
        PROVE  MssFits(s, dma.head.mss)'
    BY <2>1, FitsStep, FitsAt
  <2> QED
    BY <1>1, <2>1 DEF HeadRight
<1>2. CASE ~DmaData
  <2>1. dma'.body = dma.body /\ dma'.head = dma.head
    BY <1>2 DEF Next, Xmit, XmitReject, XmitBusy, XmitTsoFails, XmitMapFails, XmitMap, Drop,
       PreTransmitStep, PreVlan, PreMss, PreFirst, PreRest, PreOwn, PreTail, PreTransmit,
       Clean, CleanStart, CleanOne, CleanEnd, Dma, DmaSuspend, DmaContext, vars,
       TxInv, TypeOK, DmaType
  <2> QED
    BY <1>1, <2>1 DEF HeadRight
<1>3. CASE DmaData
  <2>1. PICK t \in Skbs : \E k \in 1 .. DataDescs(shape[t]) :
              /\ IsPart(dma.idx, t, k) /\ dma.body = Parts(t, k - 1)
              /\ dma'.head = IF k = 1 THEN FrameHead(desc[dma.idx]) ELSE dma.head
              /\ k # DataDescs(shape[t]) => dma'.body = Parts(t, k)
              /\ k = DataDescs(shape[t]) => dma'.body = <<>>
    BY <1>3, ReadData
  <2>2. PICK k \in 1 .. DataDescs(shape[t]) :
              /\ IsPart(dma.idx, t, k) /\ dma.body = Parts(t, k - 1)
              /\ dma'.head = IF k = 1 THEN FrameHead(desc[dma.idx]) ELSE dma.head
              /\ k # DataDescs(shape[t]) => dma'.body = Parts(t, k)
              /\ k = DataDescs(shape[t]) => dma'.body = <<>>
    BY <2>1
  <2>3. dma'.body = Parts(t, k) /\ 1 \in 1 .. k
    BY <1>1, <2>2, Sizes
  <2>4. s = t
    BY <1>1, <2>3 DEF Parts, Mapped
  <2> QED
    BY <1>3, <2>2, <2>4, HeadFits
<1> QED
  BY <1>2, <1>3

LEMMA TxWireMssStep ==
    ASSUME TxInv, HeldOnce, Laid, Register, PartsSettled, HeadRight, WireMss,
           NEW at \in 0 .. Passed, Owned(at), Body(at), Latched(at), [Next]_vars
    PROVE  WireMss'
<1>0. wire' \in Seq(FrameType)
  BY TxTypeStep DEF TypeOK
<1>1. SUFFICES ASSUME NEW n \in DOMAIN wire', NEW s \in Skbs, wire'[n].skb = s
               PROVE  \E m : m = wire'[n].mss /\ MssFits(s, m)
  <2>1. ASSUME NEW n \in DOMAIN wire', NEW s \in Skbs, NEW m, m = wire'[n].mss, MssFits(s, m)
        PROVE  MssFits(s, wire[n].mss)'
    BY <2>1, FitsStep, FitsAt
  <2> QED
    BY <1>1, <2>1 DEF WireMss
<1>2. CASE wire' = wire
  BY <1>1, <1>2 DEF WireMss
<1>3. CASE wire' # wire
  <2>1. DmaData
    BY <1>3, WireStep
  <2>2. PICK t \in Skbs : \E k \in 1 .. DataDescs(shape[t]) :
              /\ IsPart(dma.idx, t, k) /\ dma.body = Parts(t, k - 1)
              /\ dma'.head = IF k = 1 THEN FrameHead(desc[dma.idx]) ELSE dma.head
              /\ k # DataDescs(shape[t]) => wire' = wire
              /\ k = DataDescs(shape[t]) =>
                   \E f : wire' = Append(wire, f) /\ f.skb = t /\ f.mss = dma'.head.mss
    BY <2>1, ReadData
  <2>3. PICK m : m = dma'.head.mss /\ MssFits(t, m)
    BY <2>1, <2>2, HeadFits
  <2>4. PICK f : wire' = Append(wire, f) /\ f.skb = t /\ f.mss = m
    BY <1>3, <2>2, <2>3
  <2>5. CASE n = Len(wire) + 1
    <3>1. wire'[n] = f
      BY <1>0, <2>4, <2>5, WireAppend
    <3> QED
      BY <1>1, <2>3, <2>4, <3>1
  <2>6. CASE n \in DOMAIN wire
    <3>1. wire'[n] = wire[n]
      BY <1>0, <2>4, <2>6, WireAppend
    <3> QED
      BY <1>1, <2>6, <3>1 DEF WireMss
  <2> QED
    BY <1>0, <1>1, <2>4, <2>5, <2>6, WireAppend
<1> QED
  BY <1>2, <1>3

-----------------------------------------------------------------------------
(* The invariant, step by step.                                             *)

LEMMA OpenedStep ==
    ASSUME TxInv, Fresh, InWork, Opened, OneContext, NEW at \in 0 .. Passed, Owned(at), [Next]_vars
    PROVE  Opened'
<1>0. shape' = shape /\ xm.at \in Slots
  BY StepShape, Elements DEF TxInv
<1>1. CASE Keep \/ HandOver \/ Read
  <2>1. Still
    BY <1>1, StillSteps
  <2>2. ASSUME NEW i \in Slots, InHand(i)' PROVE desc'[i].fd
    <3>1. InHand(i)
      <4>1. CASE Keep
        BY <2>2, <4>1 DEF Keep, InHand
      <4>2. CASE HandOver
        BY <2>2, <4>2 DEF HandOver, InHand
      <4>3. CASE Read
        BY <2>2, <4>3 DEF Read, InHand
      <4> QED
        BY <1>1, <4>1, <4>2, <4>3
    <3>2. Fields(i)' = Fields(i)
      BY <2>1 DEF Still
    <3> QED
      BY <3>1, <3>2 DEF Opened, Fields
  <2> QED
    BY <2>2 DEF Opened
<1>2. ASSUME NEW c \in Slots, NEW d \in DescType, PushContext(c, d) \/ PushFirst(c, d)
      PROVE  Opened'
  <2>1. desc'[c] = d
    BY <1>0, <1>2, PushFacts
  <2> QED
    BY <1>2, <2>1 DEF PushContext, PushFirst, Opened, InHand
<1>3. CASE Complete
  <2>1. desc'[xm.at].fd
    BY <1>0, <1>3, CompleteFacts
  <2>2. xm' = xm
    BY <1>3 DEF Complete
  <2> QED
    BY <2>1, <2>2 DEF Opened, InHand
<1>4. CASE Free
  BY <1>4 DEF Free, Opened, InHand
<1> QED
  BY <1>1, <1>2, <1>3, <1>4, StepKinds

LEMMA OtherActions ==
    ASSUME TxInv,
           \/ \E s \in Skbs : Xmit(s)
           \/ PreTransmitStep \/ CleanStart \/ CleanEnd \/ DmaSuspend \/ UNCHANGED vars
    PROVE  ~CleanOne /\ ~DmaContext /\ ~DmaData
<1>1. wire' = wire /\ (dma'.idx = dma.idx) /\ (pc = "clean" /\ pc' = "clean" => dirty_tx' = dirty_tx)
  BY DEF Xmit, XmitReject, XmitBusy, XmitTsoFails, XmitMapFails, XmitMap, Drop, Fits, Offered,
     PreTransmitStep, PreVlan, PreMss, PreFirst, PreRest, PreOwn, PreTail, PreTransmit,
     CleanStart, CleanEnd, DmaSuspend, ctl, vars, TxInv, TypeOK, DmaType
<1>2. \A i \in Slots : Advance(i, 1) # i
  BY TxAssumption DEF Advance, Slots
<1>3. ~CleanOne
  BY <1>1, <1>2, Ground DEF CleanOne
<1>4. ~DmaContext /\ ~DmaData
  BY <1>1, <1>2, Ground, StepRead DEF Read
<1> QED
  BY <1>3, <1>4

LEMMA RingAtStep ==
    ASSUME TxFrames, OneContext, [Next]_vars
    PROVE  Fresh' /\ Laid' /\ Chain' /\ \E at \in 0 .. Passed' : RingAt(at)'
<1>0. /\ TxInv /\ HeldOnce /\ Fresh /\ Laid /\ Chain /\ InWork /\ MssSaid
      /\ shape' = shape
  BY StepShape DEF TxFrames
<1>1. PICK at \in 0 .. Passed : Owned(at) /\ Body(at) /\ Latched(at) /\ SentRight(at)
  BY DEF TxFrames, RingAt
<1>2. CASE CleanOne
  <2>1. Free
    BY <1>0, <1>2, StepFree
  <2>2. Fresh' /\ Laid' /\ Chain'
    BY <1>0, <2>1, FreshFree, LaidFree, ChainFree
  <2>3. at - 1 \in 0 .. Passed' /\ Owned(at - 1)'
    BY <1>0, <1>1, <2>1, OwnedFree
  <2>4. Body(at - 1)' /\ SentRight(at - 1)'
    BY <1>0, <1>1, <1>2, <2>1, BodyFree, SentFree
  <2>5. PICK p \in Nat : p = at - 1 /\ at = p + 1
    BY <1>0, <2>3, Ground
  <2>6. Latched(p)'
    BY <1>0, <1>1, <1>2, <2>5, LatchedStep
  <2>7. p \in 0 .. Passed' /\ RingAt(p)'
    BY <2>3, <2>4, <2>5, <2>6 DEF RingAt
  <2> QED
    BY <2>2, <2>7
<1>3. CASE DmaContext \/ DmaData
  <2>1. Read /\ Still
    BY <1>0, <1>1, <1>3, StepRead, StillSteps
  <2>2. Fresh' /\ Laid' /\ Chain'
    BY <1>0, <2>1, FreshStill, LaidStill, ChainStill
  <2>3. at + 1 \in 0 .. Passed' /\ Owned(at + 1)'
    BY <1>0, <1>1, <2>1, OwnedRead
  <2>4. Body(at + 1)' /\ SentRight(at + 1)'
    BY <1>0, <1>1, <1>3, BodyRead, SentRead
  <2>5. PICK p \in Nat : p = at + 1
    BY <1>0, Ground
  <2>6. ~CleanOne
    BY <1>0, <1>3, ReadsNotClean
  <2>7. Latched(p)'
    BY <1>0, <1>1, <1>3, <2>5, <2>6, LatchedStep
  <2>8. p \in 0 .. Passed' /\ RingAt(p)'
    BY <2>3, <2>4, <2>5, <2>7 DEF RingAt
  <2> QED
    BY <2>2, <2>8
<1>4. CASE \/ \E s \in Skbs : Xmit(s)
           \/ PreTransmitStep \/ CleanStart \/ CleanEnd \/ DmaSuspend \/ UNCHANGED vars
  <2>1. wire' = wire /\ SentRight(at)'
    <3>1. wire' = wire
      BY <1>4 DEF Xmit, XmitReject, XmitBusy, XmitTsoFails, XmitMapFails, XmitMap, Drop,
         PreTransmitStep, PreVlan, PreMss, PreFirst, PreRest, PreOwn, PreTail, PreTransmit,
         CleanStart, CleanEnd, DmaSuspend, vars
    <3>2. \/ \E s \in Skbs : XmitMap(s)
          \/ \E s \in Skbs : XmitReject(s) \/ XmitTsoFails(s) \/ XmitMapFails(s)
          \/ UNCHANGED <<buf, fate, dirty_tx, tx_pkt_queued>>
      BY <1>4 DEF Xmit, XmitBusy, PreTransmitStep, PreVlan, PreMss, PreFirst, PreRest, PreOwn,
         PreTail, PreTransmit, CleanStart, CleanEnd, DmaSuspend, ctl, vars
    <3> QED
      BY <1>0, <1>1, <3>1, <3>2, SentStill
  <2>2. ASSUME Keep \/ HandOver
        PROVE  /\ Fresh' /\ Laid' /\ Chain' /\ at \in 0 .. Passed'
               /\ Owned(at)' /\ Body(at)'
    <3>1. Still
      BY <1>0, <1>1, <2>2, StillSteps
    <3>2. Fresh' /\ Laid' /\ Chain' /\ Passed' = Passed
      BY <1>0, <3>1, FreshStill, LaidStill, ChainStill DEF Still
    <3>3. Owned(at)' /\ Body(at)'
      BY <1>0, <1>1, <2>2, OwnedKeep, OwnedHandOver, BodyKeep
    <3> QED
      BY <3>2, <3>3
  <2>3. ASSUME NEW c \in Slots, NEW d \in DescType, PushContext(c, d) \/ PushFirst(c, d)
        PROVE  /\ Fresh' /\ Laid' /\ Chain' /\ at \in 0 .. Passed'
               /\ Owned(at)' /\ Body(at)'
    <3>1. Fresh' /\ Laid' /\ Chain'
      BY <1>0, <2>3, FreshPush, LaidPush, ChainPush
    <3>2. at \in 0 .. Passed'
      BY <1>0, <1>1, <2>3, PushFacts, Ground
    <3>3. Owned(at)' /\ Body(at)'
      BY <1>0, <1>1, <2>3, OwnedPush, BodyPush
    <3> QED
      BY <3>1, <3>2, <3>3
  <2>4. ASSUME Complete
        PROVE  /\ Fresh' /\ Laid' /\ Chain' /\ at \in 0 .. Passed'
               /\ Owned(at)' /\ Body(at)'
    <3>1. Fresh' /\ Laid' /\ Chain'
      BY <1>0, <2>4, FreshComplete, LaidComplete, ChainComplete
    <3>2. at \in 0 .. Passed'
      BY <1>0, <1>1, <2>4, CompleteFacts, Ground
    <3>3. Owned(at)' /\ Body(at)'
      BY <1>0, <1>1, <2>4, OwnedComplete, BodyComplete
    <3> QED
      BY <3>1, <3>2, <3>3
  <2>5. /\ Fresh' /\ Laid' /\ Chain' /\ at \in 0 .. Passed'
        /\ Owned(at)' /\ Body(at)'
    <3>1. CASE \/ \E s \in Skbs : Xmit(s)
               \/ PreVlan /\ ~xm.vlan
               \/ PreMss /\ ~NeedsMssCtx(xm)
               \/ PreTail \/ CleanStart \/ CleanEnd \/ DmaSuspend \/ UNCHANGED vars
      BY <1>0, <2>2, <3>1, StepKeep
    <3>2. CASE (PreVlan /\ xm.vlan) \/ (PreMss /\ NeedsMssCtx(xm))
      BY <1>0, <2>3, <3>2, StepContext
    <3>3. CASE PreFirst
      BY <1>0, <2>3, <3>3, StepFirst
    <3>4. CASE PreRest
      BY <1>0, <2>4, <3>4, StepComplete
    <3>5. CASE PreOwn
      BY <1>0, <2>2, <3>5, StepHandOver
    <3> QED
      BY <1>4, <3>1, <3>2, <3>3, <3>4, <3>5 DEF PreTransmitStep
  <2>6. Latched(at)'
    <3>1. ~CleanOne /\ ~DmaContext /\ ~DmaData
      BY <1>0, <1>4, OtherActions
    <3> QED
      BY <1>0, <1>1, <3>1, Ground, LatchedStep
  <2> QED
    BY <2>1, <2>5, <2>6 DEF RingAt
<1> QED
  BY <1>2, <1>3, <1>4 DEF Next, Clean, Dma

LEMMA TxFramesStep == OneContext /\ TxFrames /\ [Next]_vars => TxFrames'
<1> SUFFICES ASSUME OneContext, TxFrames, [Next]_vars PROVE TxFrames'
  OBVIOUS
<1>1. /\ TxInv /\ HeldOnce /\ Ordered /\ Fresh /\ Laid /\ Chain /\ InWork /\ Opened
      /\ WireIntact /\ WireMss /\ Register /\ PartsSettled /\ MssSaid /\ HeadRight
  BY DEF TxFrames
<1>2. PICK at \in 0 .. Passed : Owned(at) /\ Body(at) /\ Latched(at)
  BY DEF TxFrames, RingAt
<1>3. TxInv' /\ HeldOnce' /\ Ordered'
  BY <1>1, TxTypeStep, TxAccountingStep, TxPreparingStep, TxOwnedStep, TxHeldStep, OrderedStep
     DEF TxInv
<1>4. InWork' /\ Opened'
  BY <1>1, <1>2, TxInWorkStep, OpenedStep
<1>5. WireIntact' /\ WireMss'
  BY <1>1, <1>2, TxWireIntactStep, TxWireMssStep
<1>6. Fresh' /\ Laid' /\ Chain' /\ \E at2 \in 0 .. Passed' : RingAt(at2)'
  BY RingAtStep
<1>7. Register' /\ PartsSettled' /\ MssSaid' /\ HeadRight'
  BY <1>1, <1>2, RegisterStep, PartsSettledStep, MssSaidStep, HeadRightStep
<1> QED
  BY <1>3, <1>4, <1>5, <1>6, <1>7 DEF TxFrames

LEMMA TxFramesInit == Init => TxFrames
<1> SUFFICES ASSUME Init PROVE TxFrames
  OBVIOUS
<1>1. TxInv
  BY TxInit
<1>2. /\ pc = "idle" /\ wire = <<>> /\ dma.body = <<>> /\ dma.idx = 0 /\ dma.mss = 0
      /\ dirty_tx = 0 /\ tx_pkt_queued = 0 /\ default_mss = 0 /\ dma_cr_mss = 0
      /\ \A s \in Skbs : fate[s] = "stack"
      /\ \A i \in Slots : desc[i] = NoDesc /\ buf[i].skb = 0
  BY DEF Init, NoBuf
<1>3. Passed = 0
  BY <1>2 DEF Passed, ToPass
<1>4. \A i \in Slots : ~Written(i) /\ ~InHand(i) /\ ~desc[i].own /\ Pos(i) \in Nat
  <2>1. \A i \in Slots : Pos(i) \in Nat
    BY <1>1, Ground
  <2>2. \A i \in Slots : ~(Pos(i) < 0)
    BY <2>1
  <2> QED
    BY <1>2, <1>3, <2>1, <2>2 DEF Written, InHand, NoDesc
<1>5. HeldOnce /\ Ordered
  BY <1>2 DEF HeldOnce, Ordered
<1>6. Fresh /\ Laid /\ Chain /\ InWork /\ Opened
  BY <1>2, <1>4 DEF Fresh, Laid, Chain, InWork, Opened
<1>7. WireIntact /\ WireMss /\ \A s : ~Sent(s)
  BY <1>2 DEF WireIntact, WireMss, Sent
<1>8. Owned(0)
  <2>1. 0 \in Slots
    BY TxAssumption DEF Slots
  <2>2. Advance(dirty_tx, 0) = 0
    BY <1>2, <2>1, AdvanceZero
  <2>3. \A i \in Slots : ~(Pos(i) < Passed)
    BY <1>3, <1>4
  <2> QED
    BY <1>2, <1>4, <2>2, <2>3 DEF Owned
<1>9. Body(0) /\ Latched(0) /\ SentRight(0)
  <2>1. Body(0)
    BY <1>2, <1>3 DEF Body
  <2>2. Latched(0)
    BY <1>2 DEF Latched
  <2>3. SentRight(0)
    BY <1>2, <1>7 DEF SentRight
  <2> QED
    BY <2>1, <2>2, <2>3
<1>10. Register /\ PartsSettled /\ MssSaid /\ HeadRight
  <2>1. \A s \in Skbs : ~Accepted(s) /\ s # 0
    BY <1>2 DEF Accepted, Skbs
  <2> QED
    BY <1>2, <2>1 DEF Register, PartsSettled, MssSaid, HeadRight, Settled, SaysMss, NoDesc, NoData
<1> QED
  BY <1>1, <1>3, <1>5, <1>6, <1>7, <1>8, <1>9, <1>10 DEF TxFrames, RingAt

LEMMA TxFramesAlways ==
    ASSUME OneContext
    PROVE  Spec => []TxFrames
<1>1. TxFrames /\ [Next]_vars => TxFrames'
  BY TxFramesStep
<1> QED
  BY TxFramesInit, <1>1, PTL DEF Spec

-----------------------------------------------------------------------------
(* Theorems.                                                                *)

LEMMA WholeAt ==
    ASSUME TxInv, Opened, NEW at \in 0 .. Passed, Owned(at), Body(at)
    PROVE  WholeFrames
<1> SUFFICES ASSUME dma.body # <<>> PROVE desc[dma.idx].own
  BY DEF WholeFrames
<1>1. PICK s \in Skbs : \E k \in 2 .. DataDescs(shape[s]) : at < Passed /\ IsPart(dma.idx, s, k)
  BY DEF Body
<1>2. at < Passed /\ ~desc[dma.idx].fd
  BY <1>1 DEF IsPart
<1>3. dma.idx \in Slots /\ Pos(dma.idx) = at /\ at \in Nat
  BY <1>2, OwnedIdx
<1>4. ~InHand(dma.idx) /\ at <= Pos(dma.idx) /\ Pos(dma.idx) < Passed
  BY <1>2, <1>3 DEF Opened
<1> QED
  BY <1>3, <1>4 DEF Owned

\* While pre_transmit writes the next packet, a frame goes out whole and from the
\* buffers of its own skb; a TSO frame is segmented with its own MSS or that of a
\* TSO packet accepted after it, never with an earlier packet's or none, although
\* DMA_CR and the context descriptor are written only when default_mss changes.
\* For every ring size, every number of packets and every packet shape, as long
\* as no packet has two context descriptors (with TagViaReg none ever has).
THEOREM TxFramesRight ==
    ASSUME OneContext
    PROVE  Spec => []FramesRight
<1>1. TxFrames => FramesRight
  BY WholeAt DEF TxFrames, RingAt, FramesRight
<1> QED
  BY TxFramesAlways, <1>1, PTL

LEMMA UntouchedStep ==
    ASSUME OneContext, TxFrames, [Next]_vars, NEW i \in Slots, desc[i].own
    PROVE  desc'[i] \in {desc[i], [desc[i] EXCEPT !.own = FALSE]}
<1>1. TxInv /\ Fresh /\ InWork /\ shape' = shape
  BY StepShape DEF TxFrames
<1>2. PICK at \in 0 .. Passed : Owned(at)
  BY DEF TxFrames, RingAt
<1>3. /\ Pos(i) < Passed /\ ~InHand(i) /\ Pos(i) \in Nat
      /\ desc \in [Slots -> DescType]
  BY <1>1, <1>2, Ground DEF Owned
<1>4. CASE Keep
  BY <1>4 DEF Keep
<1>5. ASSUME NEW c \in Slots, NEW d \in DescType, PushContext(c, d) \/ PushFirst(c, d)
      PROVE  desc'[i] = desc[i]
  <2>1. Pos(c) = Passed /\ (i # c => desc'[i] = desc[i])
    BY <1>1, <1>5, PushFacts
  <2> QED
    BY <1>3, <2>1
<1>6. CASE Complete
  <2>1. pc = "rest" /\ Pos(xm.at) = FirstPos /\ Passed = FirstPos + 1 /\ FirstPos \in Nat
    BY <1>1, <1>6, CompleteFacts DEF Complete
  <2>2. i # xm.at
    BY <1>3, <2>1 DEF InHand
  <2>3. Pos(i) # FirstPos
    BY <1>1, <2>1, <2>2, Ground, Elements DEF TxInv
  <2>4. Pos(i) < FirstPos
    BY <1>3, <2>1, <2>3
  <2> QED
    BY <1>6, <2>4 DEF Complete
<1>7. CASE HandOver
  <2>1. i # xm.at
    BY <1>3, <1>7 DEF HandOver, InHand
  <2> QED
    BY <1>3, <1>7, <2>1 DEF HandOver
<1>8. CASE Free
  <2>1. i # dirty_tx
    BY <1>8 DEF Free
  <2> QED
    BY <1>3, <1>8, <2>1 DEF Free
<1>9. CASE Read
  BY <1>3, <1>9 DEF Read
<1> QED
  BY <1>1, <1>4, <1>5, <1>6, <1>7, <1>8, <1>9, StepKinds

\* No descriptor changes under the DMA, when no packet needs both a VLAN and an
\* MSS context descriptor (the second would be laid over the first).
THEOREM TxOwnedUntouched ==
    ASSUME OneContext
    PROVE  Spec => OwnedUntouched
<1>1. TxFrames /\ [Next]_vars =>
         [\A i \in Slots :
             desc[i].own => desc'[i] \in {desc[i], [desc[i] EXCEPT !.own = FALSE]}]_vars
  BY UntouchedStep
<1> QED
  BY TxFramesAlways, <1>1, PTL DEF Spec, OwnedUntouched

\* Where the queue of TxFifo sees a packet.
Place == [s \in Skbs |-> IF fate[s] = "held" /\ Sent(s) THEN "sent" ELSE fate[s]]

LEMMA FifoInit == Init => Fifo!Init
BY DEF Init, Fifo!Init

\* A step that changes the place of one packet.
LEMMA PlaceMoves ==
    ASSUME NEW p \in Skbs, NEW from, NEW to, Place[p] = from,
           \A q \in Skbs : q < p => Place[q] # from,
           \A q \in Skbs : Place'[q] = IF q = p THEN to ELSE Place[q]
    PROVE  Fifo!Move(p, from, to)
<1>1. Fifo!Oldest(p, from)
  BY DEF Fifo!Oldest, Place
<1>2. Place' = [Place EXCEPT ![p] = to]
  <2>1. Place = [q \in Skbs |-> Place[q]] /\ Place' = [q \in Skbs |-> Place'[q]]
    BY DEF Place
  <2> QED
    BY <2>1
<1> QED
  BY <1>1, <1>2 DEF Fifo!Move, Place

LEMMA PlaceIs ==
    ASSUME TxInv, NEW s \in Skbs
    PROVE  /\ Place[s] = "stack" <=> fate[s] = "stack"
           /\ Place[s] = "held" <=> fate[s] = "held" /\ ~Sent(s)
           /\ Place[s] = "sent" <=> fate[s] = "held" /\ Sent(s)
           /\ Place[s] = IF fate[s] = "held" /\ Sent(s) THEN "sent" ELSE fate[s]
           /\ Place'[s] = IF fate'[s] = "held" /\ Sent(s)' THEN "sent" ELSE fate'[s]
<1>1. fate[s] \in {"stack", "held", "freed", "dropped"}
  BY DEF TxInv, TypeOK
<1>2. Place[s] = IF fate[s] = "held" /\ Sent(s) THEN "sent" ELSE fate[s]
  BY DEF Place
<1>3. Place'[s] = IF fate'[s] = "held" /\ Sent(s)' THEN "sent" ELSE fate'[s]
  BY DEF Place
<1> QED
  BY <1>1, <1>2, <1>3

LEMMA FifoQuiet ==
    ASSUME \A q \in Skbs : Place'[q] = Place[q]
    PROVE  [Fifo!Next]_Place
<1>1. Place = [q \in Skbs |-> Place[q]] /\ Place' = [q \in Skbs |-> Place'[q]]
  BY DEF Place
<1> QED
  BY <1>1

LEMMA FifoStep == ASSUME TxFrames, [Next]_vars PROVE [Fifo!Next]_Place
<1>0. TxInv /\ HeldOnce /\ Ordered /\ Laid
  BY DEF TxFrames
<1>1. PICK at \in 0 .. Passed : Owned(at) /\ Body(at) /\ SentRight(at)
  BY DEF TxFrames, RingAt
<1>2. /\ \A s \in Skbs : Sent(s) => fate[s] \in {"held", "freed"}
      /\ \A s \in Skbs : fate[s] = "freed" => Sent(s)
      /\ \A i \in Slots : buf[i].skb # 0 => (Sent(buf[i].skb) <=> Pos(i) < at)
      /\ fate \in [Skbs -> {"stack", "held", "freed", "dropped"}]
  BY <1>0, <1>1 DEF SentRight, TxInv, TypeOK
<1>3. \A t \in Skbs : fate[t] = "held" => \E i \in Slots : buf[i].skb = t
  BY <1>0 DEF HeldOnce
<1>4. Skbs \subseteq Nat /\ at \in Nat
  BY <1>0, Held, Ground
<1>5. ASSUME NEW s \in Skbs, XmitMap(s) PROVE Fifo!Next
  <2>1. /\ fate[s] = "stack" /\ fate' = [fate EXCEPT ![s] = "held"] /\ wire' = wire
        /\ \A t \in Skbs : t < s => fate[t] # "stack"
    BY <1>5 DEF XmitMap, Fits, Offered
  <2>2. \A t \in Skbs : Sent(t)' <=> Sent(t)
    BY <2>1 DEF Sent
  <2>3. ~Sent(s)
    BY <1>2, <2>1
  <2>4. \A q \in Skbs : Place'[q] = IF q = s THEN "held" ELSE Place[q]
    BY <1>0, <1>2, <2>1, <2>2, <2>3, PlaceIs
  <2>5. Place[s] = "stack" /\ \A q \in Skbs : q < s => Place[q] # "stack"
    BY <1>0, <2>1, PlaceIs
  <2>6. Fifo!Accept(s)
    BY <2>4, <2>5, PlaceMoves DEF Fifo!Accept
  <2> QED
    BY <2>6 DEF Fifo!Next
<1>6. ASSUME NEW s \in Skbs, XmitReject(s) \/ XmitTsoFails(s) \/ XmitMapFails(s)
      PROVE  Fifo!Next
  <2>1. /\ fate[s] = "stack" /\ fate' = [fate EXCEPT ![s] = "dropped"]
        /\ \A t \in Skbs : t < s => fate[t] # "stack"
    BY <1>0, <1>6, DropSkb
       DEF XmitReject, XmitTsoFails, XmitMapFails, Fits, Offered
  <2>2. \A t \in Skbs : Sent(t)' <=> Sent(t)
    BY <1>6 DEF Sent, XmitReject, XmitTsoFails, XmitMapFails, Drop
  <2>3. \A q \in Skbs : Place'[q] = IF q = s THEN "dropped" ELSE Place[q]
    BY <1>0, <1>2, <2>1, <2>2, PlaceIs
  <2>4. Place[s] = "stack" /\ \A q \in Skbs : q < s => Place[q] # "stack"
    BY <1>0, <2>1, PlaceIs
  <2>5. Fifo!Refuse(s)
    BY <2>3, <2>4, PlaceMoves DEF Fifo!Refuse
  <2> QED
    BY <2>5 DEF Fifo!Next
<1>7. ASSUME CleanOne PROVE [Fifo!Next]_Place
  <2>1. Free /\ at > 0
    BY <1>0, <1>1, <1>7, StepFree, OwnedFree
  <2>2. /\ fate' = [s \in Skbs |-> IF s = buf[dirty_tx].skb THEN "freed" ELSE fate[s]]
        /\ wire' = wire /\ dirty_tx \in Slots /\ Pos(dirty_tx) = 0
        /\ \A i \in Slots : i # dirty_tx => Pos(i) > 0
    BY <1>0, <2>1, Ground DEF Free
  <2>3. \A t \in Skbs : Sent(t)' <=> Sent(t)
    BY <2>2 DEF Sent
  <2>4. CASE buf[dirty_tx].skb = 0
    <3>1. \A t \in Skbs : t # 0
      BY <1>0, Held
    <3>2. \A t \in Skbs : fate'[t] = fate[t]
      BY <2>2, <2>4, <3>1
    <3>3. \A q \in Skbs : Place'[q] = Place[q]
      BY <1>0, <2>3, <3>2, PlaceIs
    <3> QED
      BY <3>3, FifoQuiet
  <2>5. CASE buf[dirty_tx].skb # 0
    <3>1. PICK t \in Skbs : t = buf[dirty_tx].skb
      BY <1>0, <2>2, <2>5, Held
    <3>2. fate[t] = "held" /\ Sent(t)
      BY <1>0, <1>2, <2>1, <2>2, <2>5, <3>1, Held
    <3>3. \A q \in Skbs : Place'[q] = IF q = t THEN "freed" ELSE Place[q]
      BY <1>0, <2>2, <2>3, <3>1, PlaceIs
    <3>4. ASSUME NEW q \in Skbs, q < t PROVE Place[q] # "sent"
      <4> SUFFICES ASSUME fate[q] = "held" PROVE FALSE
        BY <1>0, PlaceIs
      <4>1. PICK i \in Slots : buf[i].skb = q
        BY <1>3
      <4>2. i # dirty_tx /\ buf[i].skb # 0
        BY <1>0, <1>4, <3>1, <3>4, <4>1, Held
      <4>3. Pos(dirty_tx) < Pos(i)
        BY <2>2, <4>2
      <4>4. t < q
        BY <1>0, <2>2, <2>5, <3>1, <4>1, <4>2, <4>3 DEF Ordered
      <4> QED
        BY <1>4, <3>4, <4>4
    <3>5. Place[t] = "sent"
      BY <1>0, <3>2, PlaceIs
    <3>6. Fifo!Release(t)
      BY <3>3, <3>4, <3>5, PlaceMoves DEF Fifo!Release
    <3> QED
      BY <3>6 DEF Fifo!Next
  <2> QED
    BY <2>4, <2>5
<1>8. ASSUME UNCHANGED <<fate, wire>> PROVE [Fifo!Next]_Place
  <2>1. \A t \in Skbs : Sent(t)' <=> Sent(t)
    BY <1>8 DEF Sent
  <2>2. \A q \in Skbs : Place'[q] = Place[q]
    BY <1>0, <1>8, <2>1, PlaceIs
  <2> QED
    BY <2>2, FifoQuiet
<1>9. ASSUME NEW s \in Skbs, NEW f, DmaData, wire' = Append(wire, f), f.skb = s,
             buf[dma.idx].skb = s
      PROVE  Fifo!Next
  <2>1. fate' = fate /\ dma.idx \in Slots /\ Pos(dma.idx) = at
    BY <1>0, <1>1, <1>9, ReadPlace, Ground DEF DmaData, DmaOwns
  <2>2. \A t \in Skbs : Sent(t)' <=> (Sent(t) \/ t = s)
    <3>1. wire' \in Seq(FrameType)
      BY <1>0, TxTypeStep DEF TypeOK
    <3> QED
      BY <1>0, <1>9, <3>1, SentAppend
  <2>3. s # 0 /\ fate[s] = "held" /\ ~Sent(s)
    <3>1. s # 0 /\ fate[s] = "held"
      BY <1>0, <1>9, <2>1, Held
    <3>2. ~(Pos(dma.idx) < at)
      BY <1>4, <2>1
    <3> QED
      BY <1>2, <1>9, <2>1, <3>1, <3>2
  <2>4. \A q \in Skbs : Place'[q] = IF q = s THEN "sent" ELSE Place[q]
    BY <1>0, <2>1, <2>2, <2>3, PlaceIs
  <2>5. ASSUME NEW q \in Skbs, q < s PROVE Place[q] # "held"
    <3> SUFFICES ASSUME fate[q] = "held", ~Sent(q) PROVE FALSE
      BY <1>0, PlaceIs
    <3>1. PICK i \in Slots : buf[i].skb = q
      BY <1>3
    <3>2. i # dma.idx /\ buf[i].skb # 0
      <4>1. q < s /\ s \in Nat /\ q \in Nat \ {0}
        BY <1>0, <2>5, Held
      <4>2. q # s
        BY <4>1
      <4> QED
        BY <1>9, <3>1, <4>1, <4>2
    <3>3. ~(Pos(i) < at) /\ Pos(i) # at /\ Pos(i) \in Nat
      BY <1>0, <1>2, <2>1, <3>1, <3>2, Ground
    <3>4. Pos(dma.idx) < Pos(i)
      BY <1>4, <2>1, <3>3
    <3>5. s < q
      BY <1>0, <1>9, <2>1, <2>3, <3>1, <3>2, <3>4 DEF Ordered
    <3> QED
      BY <1>4, <2>5, <3>5
  <2>6. Place[s] = "held"
    BY <1>0, <2>3, PlaceIs
  <2>7. Fifo!Send(s)
    BY <2>4, <2>5, <2>6, PlaceMoves DEF Fifo!Send
  <2> QED
    BY <2>7 DEF Fifo!Next
<1>10. ASSUME UNCHANGED fate PROVE [Fifo!Next]_Place
  BY <1>0, <1>1, <1>8, <1>9, <1>10, WireStep
<1>11. CASE (\E s \in Skbs : XmitBusy(s)) \/ PreTransmitStep \/ CleanStart \/ CleanEnd \/ Dma
           \/ UNCHANGED vars
  <2>1. fate' = fate
    BY <1>11 DEF XmitBusy, PreTransmitStep, PreVlan, PreMss, PreFirst, PreRest, PreOwn, PreTail,
       PreTransmit, CleanStart, CleanEnd, Dma, DmaSuspend, DmaContext, DmaData, DmaOwns, vars
  <2> QED
    BY <1>10, <2>1
<1> QED
  BY <1>5, <1>6, <1>7, <1>11 DEF Next, Xmit, Clean

\* The ring, its context descriptors and the OWN handshake implement the queue
\* of TxFifo: each packet start_xmit accepts is sent once, in the order of
\* acceptance, and its skb is given back after it was sent.
THEOREM TxImplementsFifo ==
    ASSUME OneContext
    PROVE  Spec => ImplementsFifo
<1>1. Init => Fifo!Init
  BY FifoInit
<1>2. TxFrames /\ [Next]_vars => [Fifo!Next]_Place
  BY FifoStep
<1> QED
  BY <1>1, <1>2, TxFramesAlways, PTL DEF Spec, ImplementsFifo, Fifo!Spec, Place

=============================================================================
