---------------------------- MODULE AvbTxProofs ----------------------------
(***************************************************************************)
(* For every ring size, set of packets and number of sends: the ring and   *)
(* the pool of the talker agree, the buffer is released idle, and the      *)
(* queue implements the abstract queue of TxFifo.                          *)
(***************************************************************************)
EXTENDS AvbTx, FiniteSetTheorems, TLAPS

-----------------------------------------------------------------------------
(* Ring arithmetic.                                                        *)

\* Steps from slot i forward to slot j.
Dist(i, j) == IF j >= i THEN j - i ELSE j - i + TX_DESC_CNT

LEMMA AdvanceOne ==
    ASSUME NEW i \in Slots
    PROVE  Advance(i, 1) = IF i = TX_DESC_CNT - 1 THEN 0 ELSE i + 1
BY AvbTxAssumption DEF Advance, Slots

LEMMA AdvanceSmall ==
    ASSUME NEW i \in Slots, NEW k \in 0 .. TX_DESC_CNT - 1
    PROVE  /\ Advance(i, k) = IF i + k < TX_DESC_CNT THEN i + k ELSE i + k - TX_DESC_CNT
           /\ Advance(i, k) \in Slots
BY AvbTxAssumption DEF Advance, Slots

LEMMA DistType ==
    ASSUME NEW i \in Slots, NEW j \in Slots
    PROVE  Dist(i, j) \in Slots
BY AvbTxAssumption DEF Dist, Slots

LEMMA DistInjective ==
    ASSUME NEW i \in Slots, NEW j \in Slots, NEW k \in Slots, Dist(i, j) = Dist(i, k)
    PROVE  j = k
BY AvbTxAssumption DEF Dist, Slots

\* A slot is in the window of n slots from i on if and only if it is less than n
\* steps away.
LEMMA WindowDist ==
    ASSUME NEW i \in Slots, NEW s \in Slots, NEW n \in 0 .. TX_DESC_CNT
    PROVE  s \in {Advance(i, k) : k \in 0 .. n - 1} <=> Dist(i, s) < n
<1>1. Dist(i, s) \in 0 .. TX_DESC_CNT - 1
  BY DistType DEF Slots
<1>2. Advance(i, Dist(i, s)) = IF i + Dist(i, s) < TX_DESC_CNT
                               THEN i + Dist(i, s) ELSE i + Dist(i, s) - TX_DESC_CNT
  BY <1>1, AdvanceSmall
<1>3. Advance(i, Dist(i, s)) = s
  BY <1>2, AvbTxAssumption DEF Dist, Slots
<1>4. ASSUME NEW k \in 0 .. n - 1, s = Advance(i, k)
      PROVE  Dist(i, s) = k
  <2>1. k \in 0 .. TX_DESC_CNT - 1
    BY AvbTxAssumption
  <2>2. Advance(i, k) = IF i + k < TX_DESC_CNT THEN i + k ELSE i + k - TX_DESC_CNT
    BY <2>1, AdvanceSmall
  <2> QED
    BY <1>4, <2>1, <2>2, AvbTxAssumption DEF Dist, Slots
<1> QED
  BY <1>1, <1>3, <1>4, AvbTxAssumption

\* The slot after the window.
LEMMA DistEnd ==
    ASSUME NEW i \in Slots, NEW n \in 0 .. TX_DESC_CNT - 1
    PROVE  /\ Dist(i, Advance(i, n)) = n
           /\ Advance(Advance(i, n), 1) = Advance(i, n + 1)
           /\ Advance(i, 1) \in Slots
BY AvbTxAssumption DEF Dist, Advance, Slots

\* The window that gives up its first slot.
LEMMA DistFrom ==
    ASSUME NEW i \in Slots, NEW s \in Slots
    PROVE  Dist(Advance(i, 1), s) = IF s = i THEN TX_DESC_CNT - 1 ELSE Dist(i, s) - 1
BY AvbTxAssumption, AdvanceOne DEF Dist, Slots

LEMMA AdvanceFrom ==
    ASSUME NEW i \in Slots, NEW n \in 1 .. TX_DESC_CNT
    PROVE  Advance(Advance(i, 1), n - 1) = Advance(i, n)
BY AvbTxAssumption DEF Advance, Slots

-----------------------------------------------------------------------------
(* The inductive invariant.                                                *)

\* Packets taken out of the ring and not yet given back to the talker.
Pending == IF pc \in {"reclaim", "ret"} THEN call.list ELSE <<>>

\* Sends whose packet is out of the ring again.
Freed == queued - tx_pkt_queued

\* Every queued packet is accounted for, and the drain loop leaves only over an
\* empty ring or a count it takes for EINVAL.
Counts ==
    /\ free_desc_cnt + tx_pkt_queued = TX_DESC_CNT
    /\ transmitted + Len(Pending) + tx_pkt_queued <= queued
    /\ Len(Pending) + tx_pkt_queued < TX_DESC_CNT
    /\ pc = "trigger" => free_desc_cnt >= 2 /\ queued < NumSends
    /\ pc = "ret" => ret \in {-1, Len(call.list)}
    /\ pc \in {"ret", "free", "detach", "done"} /\ ret = -1 => tx_pkt_queued = 0
    /\ pc \in {"free", "detach", "done"} => ret \in {-1, EINVAL}

\* The slots of the window, and only they, hold a packet.
Window ==
    /\ cur_tx = Advance(First, InRing)
    /\ \A s \in Slots :
          IF Dist(First, s) < InRing
          THEN packet[s] \in Pkts /\ eop[s] = s
          ELSE packet[s] = NONE /\ eop[s] = NONE /\ ~own[s]

\* No packet is in two places.
OnePlace ==
    /\ IsInjective(tx_free_packets)
    /\ IsInjective(Pending)
    /\ \A i \in DOMAIN tx_free_packets, j \in DOMAIN Pending : tx_free_packets[i] # Pending[j]
    /\ \A s \in Slots : /\ \A i \in DOMAIN tx_free_packets : tx_free_packets[i] # packet[s]
                        /\ \A j \in DOMAIN Pending : Pending[j] # packet[s]
    /\ \A s, t \in Slots : packet[s] = packet[t] /\ packet[s] # NONE => s = t

\* Every packet is in some place as long as the sending loop runs.
NoneLost ==
    ~draining => \A p \in Pkts : \/ \E i \in DOMAIN tx_free_packets : tx_free_packets[i] = p
                                 \/ \E j \in DOMAIN Pending : Pending[j] = p
                                 \/ \E s \in Slots : packet[s] = p

\* The window holds consecutive sends, and the channel, somewhere in the window,
\* has released those before it.
DmaAt == Dist(First, dma.idx)

Order ==
    /\ DmaAt <= InRing
    /\ dma.busy => DmaAt < InRing
    /\ \A s \in Slots :
          Dist(First, s) < InRing =>
              /\ content[packet[s]] = Freed + Dist(First, s) + 1
              /\ own[s] <=> Dist(First, s) >= DmaAt

\* The sends: freed, sent, in the ring, not yet offered.
Stage(n) ==
    IF n <= Freed THEN "freed"
    ELSE IF n <= Freed + DmaAt \/ (dma.busy /\ n = Freed + DmaAt + 1) THEN "sent"
    ELSE IF n <= Freed + InRing THEN "held"
    ELSE "stack"

Stages == \A n \in Sends : place[n] = Stage(n)

AvbTxInv == TypeOK /\ Counts /\ Window /\ OnePlace /\ NoneLost /\ Order /\ Stages

\* The list of packets before the first send holds each packet once.
LEMMA AllPackets ==
    LET l == SetToSeq(Pkts) IN
    /\ l \in Seq(Pkts)
    /\ IsInjective(l)
    /\ \A p \in Pkts : \E i \in DOMAIN l : l[i] = p
<1> DEFINE D == 1 .. Cardinality(Pkts)
           l == SetToSeq(Pkts)
<1>1. Cardinality(Pkts) \in Nat /\ \E f \in [D -> Pkts] : IsInjective(f)
  BY AvbTxAssumption, FS_CardinalityType DEF ExistsBijection, Bijection, Injection
<1>2. l \in [D -> Pkts] /\ IsInjective(l)
  BY <1>1 DEF SetToSeq
<1>3. IsFiniteSet(D) /\ Cardinality(D) = Cardinality(Pkts)
  BY <1>1, FS_Interval
<1>4. l \in Surjection(D, Pkts)
  BY <1>2, <1>3, AvbTxAssumption, FS_Injection DEF Injection
<1> QED
  BY <1>1, <1>2, <1>4 DEF Surjection

LEMMA InvInit == Init => AvbTxInv
<1> SUFFICES ASSUME Init PROVE AvbTxInv
  OBVIOUS
<1> USE AvbTxAssumption
<1>1. TypeOK
  <2>1. 0 \in Slots /\ 0 \in 0 .. NumSends
    BY DEF Slots
  <2>2. tx_free_packets \in Seq(Pkts) /\ call \in [first : Slots, list : Seq(Pkts)]
    BY <2>1, AllPackets DEF Init
  <2>3. dma \in [idx : Slots, run : BOOLEAN, tail : Slots, busy : BOOLEAN]
    BY <2>1 DEF Init
  <2>4. /\ own \in [Slots -> BOOLEAN] /\ packet \in [Slots -> Pkts \cup {NONE}]
        /\ eop \in [Slots -> Slots \cup {NONE}] /\ content \in [Pkts -> 0 .. NumSends]
        /\ place \in [Sends -> {"stack", "held", "sent", "freed"}]
    BY <2>1 DEF Init
  <2>5. free_desc_cnt \in 1 .. TX_DESC_CNT /\ tx_pkt_queued \in 0 .. TX_DESC_CNT - 1
        /\ ret \in {-1} \cup 0 .. TX_DESC_CNT
    BY DEF Init
  <2> QED
    BY <2>1, <2>2, <2>3, <2>4, <2>5 DEF Init, TypeOK
<1>2. Counts
  BY DEF Init, Counts, Pending
<1>3. Window
  BY DEF Init, Window, First, InRing, Advance, Dist, Slots
<1>4. OnePlace
  BY AllPackets DEF Init, OnePlace, Pending, IsInjective
<1>5. NoneLost
  BY AllPackets DEF Init, NoneLost
<1>6. Order
  BY DEF Init, Order, DmaAt, First, InRing, Dist, Slots
<1>7. Stages
  BY DEF Init, Stages, Stage, Freed, DmaAt, First, InRing, Dist, Slots, Sends
<1> QED
  BY <1>1, <1>2, <1>3, <1>4, <1>5, <1>6, <1>7 DEF AvbTxInv

-----------------------------------------------------------------------------
(* Steps that leave the window where it is, and steps that leave the pool.  *)

LEMMA WindowStays ==
    ASSUME AvbTxInv, UNCHANGED <<packet, eop, cur_tx, own, content, place>>,
           First' = First, InRing' = InRing, Freed' = Freed,
           dma'.idx = dma.idx, dma'.busy = dma.busy
    PROVE  Window' /\ Order' /\ Stages'
<1>1. \A s \in Slots : Dist(First, s)' = Dist(First, s)
  BY DEF Dist
<1>2. DmaAt' = DmaAt
  BY DEF DmaAt, Dist
<1>3. Window'
  BY <1>1 DEF AvbTxInv, Window, Advance
<1>4. Order'
  BY <1>1, <1>2 DEF AvbTxInv, Order
<1>5. \A n \in Sends : Stage(n)' = Stage(n)
  BY <1>2 DEF Stage
<1>6. Stages'
  BY <1>5 DEF AvbTxInv, Stages
<1> QED
  BY <1>3, <1>4, <1>6

LEMMA PoolStays ==
    ASSUME AvbTxInv, UNCHANGED <<packet, tx_free_packets, draining>>, Pending' = Pending
    PROVE  OnePlace' /\ NoneLost'
<1>1. OnePlace'
  BY DEF AvbTxInv, OnePlace, IsInjective
<1>2. NoneLost'
  BY DEF AvbTxInv, NoneLost
<1> QED
  BY <1>1, <1>2

\* While the talker drains, the packets of a clean up are dropped.
LEMMA PoolDrops ==
    ASSUME AvbTxInv, UNCHANGED <<packet, tx_free_packets>>, Pending' = <<>>,
           draining' \/ (Pending = <<>> /\ draining' = draining)
    PROVE  OnePlace' /\ NoneLost'
<1>1. OnePlace'
  BY DEF AvbTxInv, OnePlace, IsInjective
<1>2. NoneLost'
  BY DEF AvbTxInv, NoneLost
<1> QED
  BY <1>1, <1>2

\* What the invariant says about the numbers.
LEMMA Numbers ==
    ASSUME AvbTxInv
    PROVE  /\ First \in Slots /\ InRing \in 0 .. TX_DESC_CNT - 1 /\ Freed \in Nat
           /\ DmaAt \in 0 .. TX_DESC_CNT - 1 /\ Len(Pending) \in Nat /\ Pending \in Seq(Pkts)
           /\ \A s \in Slots : Dist(First, s) \in 0 .. TX_DESC_CNT - 1
           /\ Freed + InRing <= NumSends
           /\ cur_tx = Advance(First, InRing)
<1> USE AvbTxAssumption DEF AvbTxInv
<1>1. First \in Slots
  BY DEF TypeOK, First
<1>2. Pending \in Seq(Pkts) /\ Len(Pending) \in Nat
  BY DEF TypeOK, Pending
<1>3. InRing \in 0 .. TX_DESC_CNT - 1
  BY <1>2 DEF TypeOK, Counts, InRing, Pending
<1>4. Freed \in Nat
  BY <1>2 DEF TypeOK, Counts, Freed
<1>5. Freed + InRing <= NumSends
  BY DEF TypeOK, Counts, Freed, InRing
<1>6. DmaAt \in 0 .. TX_DESC_CNT - 1
  BY <1>1, DistType DEF TypeOK, DmaAt, Slots
<1>7. \A s \in Slots : Dist(First, s) \in 0 .. TX_DESC_CNT - 1
  BY <1>1, DistType DEF Slots
<1> QED
  BY <1>1, <1>2, <1>3, <1>4, <1>5, <1>6, <1>7 DEF Window

-----------------------------------------------------------------------------
(* The talker.                                                             *)

LEMMA XmitStep == ASSUME AvbTxInv, Xmit PROVE AvbTxInv'
<1> DEFINE p == Head(tx_free_packets)
<1> USE AvbTxAssumption
<1>1. /\ tx_free_packets \in Seq(Pkts) /\ tx_free_packets # <<>>
      /\ p = tx_free_packets[1] /\ p \in Pkts /\ 1 \in DOMAIN tx_free_packets
      /\ Tail(tx_free_packets) \in Seq(Pkts)
      /\ \A i \in DOMAIN Tail(tx_free_packets) :
            i + 1 \in DOMAIN tx_free_packets /\ Tail(tx_free_packets)[i] = tx_free_packets[i + 1]
      /\ \A i \in DOMAIN tx_free_packets :
            i = 1 \/ (i - 1 \in DOMAIN Tail(tx_free_packets)
                        /\ Tail(tx_free_packets)[i - 1] = tx_free_packets[i])
  BY DEF AvbTxInv, TypeOK, Xmit, CanSend
<1>2. /\ pc = "loop" /\ pc' = "trigger" /\ First' = First /\ Pending = <<>> /\ Pending' = <<>>
      /\ InRing = tx_pkt_queued /\ InRing' = InRing + 1 /\ Freed' = Freed
      /\ queued < NumSends /\ free_desc_cnt >= 2
      /\ UNCHANGED <<halt, draining, dirty_tx, free_desc_cnt, tx_pkt_queued, call, ret,
                     queued, transmitted, dma>>
  BY DEF Xmit, CanSend, First, Pending, InRing, Freed
<1>3. cur_tx \in Slots /\ cur_tx' = Advance(cur_tx, 1) /\ cur_tx' \in Slots
  BY DistEnd, AdvanceOne DEF AvbTxInv, TypeOK, Xmit, Setup, Slots
<1>4. /\ own' = [own EXCEPT ![cur_tx] = TRUE]
      /\ packet' = [packet EXCEPT ![cur_tx] = p]
      /\ eop' = [eop EXCEPT ![cur_tx] = cur_tx]
      /\ tx_free_packets' = Tail(tx_free_packets)
      /\ content' = [content EXCEPT ![p] = queued + 1]
      /\ place' = [place EXCEPT ![queued + 1] = "held"]
  BY DEF Xmit, Setup
<1>5. /\ First \in Slots /\ InRing \in 0 .. TX_DESC_CNT - 2 /\ Freed \in Nat
      /\ DmaAt \in Nat /\ \A s \in Slots : Dist(First, s) \in Nat
  BY <1>2, Numbers DEF AvbTxInv, Counts, TypeOK
<1>6. Dist(First, cur_tx) = InRing /\ \A s \in Slots : Dist(First, s) = InRing => s = cur_tx
  <2>1. cur_tx = Advance(First, InRing) /\ InRing \in 0 .. TX_DESC_CNT - 1
    BY <1>5 DEF AvbTxInv, Window
  <2>2. Dist(First, cur_tx) = InRing
    BY <2>1, <1>5, DistEnd
  <2> QED
    BY <2>2, <1>3, <1>5, DistInjective
<1>7. /\ packet \in [Slots -> Pkts \cup {NONE}] /\ eop \in [Slots -> Slots \cup {NONE}]
      /\ own \in [Slots -> BOOLEAN] /\ content \in [Pkts -> 0 .. NumSends]
      /\ place \in [Sends -> {"stack", "held", "sent", "freed"}]
      /\ queued \in Nat /\ tx_pkt_queued \in Nat /\ dma.idx \in Slots
  BY DEF AvbTxInv, TypeOK
<1>8. \A s \in Slots : packet[s] # p
  BY <1>1, <1>7 DEF AvbTxInv, OnePlace
<1>9. \A s \in Slots : Dist(First, s)' = Dist(First, s)
  BY <1>2 DEF Dist
<1>10. DmaAt' = DmaAt
  BY <1>2 DEF DmaAt, Dist
<1>11. packet[cur_tx] = NONE
  BY <1>3, <1>5, <1>6, <1>7 DEF AvbTxInv, Window
<1>a. TypeOK'
  <2>1. /\ own' \in [Slots -> BOOLEAN] /\ packet' \in [Slots -> Pkts \cup {NONE}]
        /\ eop' \in [Slots -> Slots \cup {NONE}]
    BY <1>1, <1>3, <1>4, <1>7
  <2>2. content' \in [Pkts -> 0 .. NumSends]
    BY <1>1, <1>2, <1>4, <1>7
  <2>3. place' \in [Sends -> {"stack", "held", "sent", "freed"}]
    BY <1>4, <1>7
  <2> QED
    BY <2>1, <2>2, <2>3, <1>1, <1>2, <1>3, <1>4 DEF AvbTxInv, TypeOK
<1>b. Counts'
  BY <1>2 DEF AvbTxInv, Counts
<1>c. Window'
  <2>1. cur_tx' = Advance(First, InRing)'
    BY <1>2, <1>3, <1>5, DistEnd DEF AvbTxInv, Window, Advance
  <2>2. ASSUME NEW s \in Slots
        PROVE  IF Dist(First, s) < InRing + 1
               THEN packet'[s] \in Pkts /\ eop'[s] = s
               ELSE packet'[s] = NONE /\ eop'[s] = NONE /\ ~own'[s]
    BY <1>1, <1>3, <1>4, <1>5, <1>6, <1>7 DEF AvbTxInv, Window
  <2> QED
    BY <2>1, <2>2, <1>2, <1>9 DEF Window
<1>d. OnePlace'
  BY <1>1, <1>2, <1>3, <1>4, <1>7, <1>8 DEF AvbTxInv, OnePlace, IsInjective
<1>e. NoneLost'
  <2> SUFFICES ASSUME ~draining, NEW q \in Pkts
               PROVE  \/ \E i \in DOMAIN tx_free_packets' : tx_free_packets'[i] = q
                      \/ \E s \in Slots : packet'[s] = q
    BY <1>2 DEF NoneLost
  <2>1. CASE q = p
    BY <2>1, <1>3, <1>4, <1>7
  <2>2. CASE \E i \in DOMAIN tx_free_packets : tx_free_packets[i] = q /\ q # p
    BY <2>2, <1>1, <1>4
  <2>3. CASE \E s \in Slots : packet[s] = q
    BY <2>3, <1>3, <1>4, <1>7, <1>11, AvbTxAssumption
  <2>4. \A j \in DOMAIN Pending : FALSE
    BY <1>2
  <2> QED
    BY <2>1, <2>2, <2>3, <2>4 DEF AvbTxInv, NoneLost
<1>f. Order'
  <2>1. DmaAt <= InRing + 1 /\ (dma.busy => DmaAt < InRing + 1)
    BY <1>5 DEF AvbTxInv, Order
  <2>2. ASSUME NEW s \in Slots, Dist(First, s) < InRing + 1
        PROVE  /\ content'[packet'[s]] = Freed + Dist(First, s) + 1
               /\ own'[s] <=> Dist(First, s) >= DmaAt
    <3>1. CASE s = cur_tx
      BY <3>1, <1>1, <1>2, <1>3, <1>4, <1>5, <1>6, <1>7 DEF AvbTxInv, Order, Freed
    <3>2. CASE s # cur_tx
      <4>1. Dist(First, s) < InRing
        BY <2>2, <3>2, <1>5, <1>6
      <4>2. packet'[s] = packet[s] /\ packet[s] # p /\ own'[s] = own[s] /\ packet[s] \in Pkts
        BY <3>2, <4>1, <1>4, <1>7, <1>8 DEF AvbTxInv, Window
      <4> QED
        BY <4>1, <4>2, <1>4, <1>7 DEF AvbTxInv, Order
    <3> QED
      BY <3>1, <3>2
  <2> QED
    BY <2>1, <2>2, <1>2, <1>9, <1>10 DEF Order
<1>g. Stages'
  <2>1. ASSUME NEW n \in Sends PROVE place'[n] = Stage(n)'
    <3>1. place[n] = Stage(n) /\ DmaAt <= InRing /\ (dma.busy => DmaAt < InRing)
      BY DEF AvbTxInv, Stages, Order
    <3>2. queued + 1 = Freed + InRing + 1 /\ n \in Nat
      BY <1>2, <1>7 DEF Freed, Sends
    <3> QED
      BY <3>1, <3>2, <1>2, <1>4, <1>5, <1>7, <1>10 DEF Stage
  <2> QED
    BY <2>1 DEF Stages
<1> QED
  BY <1>a, <1>b, <1>c, <1>d, <1>e, <1>f, <1>g DEF AvbTxInv

LEMMA TriggerStep == ASSUME AvbTxInv, Trigger PROVE AvbTxInv'
<1> USE AvbTxAssumption
<1>1. /\ pc = "trigger" /\ pc' = "loop" /\ First' = First /\ Pending = <<>> /\ Pending' = <<>>
      /\ tx_pkt_queued \in 0 .. TX_DESC_CNT - 1 /\ queued \in 0 .. NumSends
      /\ queued' = queued + 1 /\ tx_pkt_queued' = tx_pkt_queued + 1
      /\ free_desc_cnt' = free_desc_cnt - 1
      /\ UNCHANGED <<halt, draining, own, packet, eop, cur_tx, dirty_tx, call, ret,
                     tx_free_packets, transmitted, content, place>>
  BY DEF AvbTxInv, TypeOK, Trigger, First, Pending
<1>2. InRing' = InRing /\ Freed' = Freed
  BY <1>1 DEF InRing, Freed
<1>3. dma' \in [idx : Slots, run : BOOLEAN, tail : Slots, busy : BOOLEAN]
      /\ dma'.idx = dma.idx /\ dma'.busy = dma.busy
  BY DEF AvbTxInv, TypeOK, Trigger
<1>4. TypeOK'
  BY <1>1, <1>3 DEF AvbTxInv, TypeOK, Counts
<1>5. Counts'
  BY <1>1 DEF AvbTxInv, TypeOK, Counts
<1>6. Window' /\ Order' /\ Stages'
  BY <1>1, <1>2, <1>3, WindowStays
<1>7. OnePlace' /\ NoneLost'
  BY <1>1, PoolStays
<1> QED
  BY <1>4, <1>5, <1>6, <1>7 DEF AvbTxInv

\* The steps of the talker that only move it on.
LEMMA MoveStep ==
    ASSUME AvbTxInv, XmitRefused \/ LeaveLoop \/ CleanCall \/ FreeBuffer \/ Detach
    PROVE  AvbTxInv'
<1> USE AvbTxAssumption
<1>1. /\ UNCHANGED <<halt, own, ring, tx_free_packets, queued, transmitted, dma, content, place>>
      /\ First' = First /\ InRing' = InRing /\ Freed' = Freed
      /\ Pending = <<>> /\ Pending' = <<>>
      /\ pc # "trigger" /\ pc' # "trigger"
      /\ draining' \/ draining' = draining
      /\ UNCHANGED <<packet, eop, cur_tx, dirty_tx, free_desc_cnt, tx_pkt_queued>>
  BY DEF XmitRefused, LeaveLoop, CleanCall, FreeBuffer, Detach, First, InRing, Freed, Pending,
         ring, talker
<1>2. TypeOK'
  <2>1. pc' \in {"clean", "free", "ret", "reclaim", "detach", "done"} /\ draining' \in BOOLEAN
    BY DEF AvbTxInv, TypeOK, XmitRefused, LeaveLoop, CleanCall, FreeBuffer, Detach, talker
  <2>2. call' \in [first : Slots, list : Seq(Pkts)] /\ ret' \in {-1} \cup 0 .. TX_DESC_CNT
    <3>1. CASE CleanCall
      <4>1. call' = [first |-> dirty_tx, list |-> <<>>] /\ ret' \in {ret, -1}
        BY <3>1 DEF CleanCall
      <4>2. <<>> \in Seq(Pkts)
        OBVIOUS
      <4> QED
        BY <4>1, <4>2 DEF AvbTxInv, TypeOK
    <3>2. CASE ~CleanCall
      BY <3>2 DEF AvbTxInv, TypeOK, XmitRefused, LeaveLoop, FreeBuffer, Detach
    <3> QED
      BY <3>1, <3>2
  <2> QED
    BY <1>1, <2>1, <2>2 DEF AvbTxInv, TypeOK
<1>3. Counts'
  <2>1. transmitted <= queued
    BY <1>1 DEF AvbTxInv, Counts, TypeOK
  <2> QED
    BY <1>1, <2>1 DEF AvbTxInv, TypeOK, Counts, ring, XmitRefused, LeaveLoop, CleanCall, FreeBuffer, Detach
<1>4. Window' /\ Order' /\ Stages'
  BY <1>1, WindowStays DEF ring
<1>5. OnePlace' /\ NoneLost'
  <2>1. UNCHANGED <<packet, tx_free_packets>>
    BY <1>1
  <2>2. draining' \/ (Pending = <<>> /\ draining' = draining)
    BY <1>1
  <2> QED
    BY <1>1, <2>1, <2>2, PoolDrops
<1> QED
  BY <1>2, <1>3, <1>4, <1>5 DEF AvbTxInv

-----------------------------------------------------------------------------
(* tx_buffer_cleanup.                                                      *)

\* The packet at the first slot goes from the ring to the list.
LEMMA CleanPacketStep == ASSUME AvbTxInv, CleanPacket PROVE AvbTxInv'
<1> DEFINE f == call.first
           p == packet[f]
<1> USE AvbTxAssumption
<1>1. /\ First = f /\ f \in Slots /\ InRing = tx_pkt_queued /\ Pending = call.list
      /\ pc = "reclaim" /\ pc' = "reclaim"
      /\ tx_pkt_queued > 0 /\ eop[f] # NONE /\ ~own[eop[f]]
  BY DEF AvbTxInv, TypeOK, CleanPacket, Ready, First, InRing, Pending
<1>2. /\ InRing \in 1 .. TX_DESC_CNT - 1 /\ Freed \in Nat /\ DmaAt \in Nat
      /\ \A s \in Slots : Dist(First, s) \in 0 .. TX_DESC_CNT - 1
      /\ Freed + InRing <= NumSends
  BY <1>1, Numbers
<1>3. /\ call' = [first |-> Advance(f, 1), list |-> Append(call.list, p)]
      /\ packet' = [packet EXCEPT ![f] = NONE] /\ eop' = [eop EXCEPT ![f] = NONE]
      /\ free_desc_cnt' = free_desc_cnt + 1 /\ tx_pkt_queued' = tx_pkt_queued - 1
      /\ place' = [place EXCEPT ![content[p]] = "freed"]
      /\ UNCHANGED <<pc, halt, own, cur_tx, dirty_tx, ret, draining, tx_free_packets, queued,
                     transmitted, dma, content>>
  BY DEF CleanPacket, talker
<1>4. /\ packet \in [Slots -> Pkts \cup {NONE}] /\ eop \in [Slots -> Slots \cup {NONE}]
      /\ call.list \in Seq(Pkts) /\ place \in [Sends -> {"stack", "held", "sent", "freed"}]
      /\ content \in [Pkts -> 0 .. NumSends] /\ dma.idx \in Slots
      /\ queued \in 0 .. NumSends /\ tx_pkt_queued \in Nat
  BY DEF AvbTxInv, TypeOK
<1>5. Dist(First, f) = 0 /\ p \in Pkts /\ eop[f] = f /\ ~own[f]
  <2>1. Dist(First, f) = 0
    BY <1>1 DEF Dist, Slots
  <2> QED
    BY <2>1, <1>1, <1>2 DEF AvbTxInv, Window
<1>6. DmaAt >= 1 /\ DmaAt <= InRing /\ content[p] = Freed + 1
  BY <1>1, <1>2, <1>5 DEF AvbTxInv, Order
<1>7. /\ First' = Advance(f, 1) /\ First' \in Slots /\ InRing' = InRing - 1 /\ Freed' = Freed + 1
      /\ Pending' = Append(call.list, p)
  BY <1>1, <1>3, <1>4, DistEnd DEF First, InRing, Freed, Pending
<1>8. \A s \in Slots : Dist(First, s)' = IF s = f THEN TX_DESC_CNT - 1 ELSE Dist(First, s) - 1
  <2>1. \A s \in Slots : Dist(First, s)' = Dist(Advance(f, 1), s)
    BY <1>7 DEF Dist
  <2> QED
    BY <2>1, <1>1, DistFrom
<1>9. DmaAt' = DmaAt - 1 /\ dma.idx # f
  <2>1. dma.idx # f
    BY <1>5, <1>6 DEF DmaAt
  <2>2. DmaAt' = Dist(Advance(f, 1), dma.idx)
    BY <1>3, <1>7 DEF DmaAt, Dist
  <2>3. DmaAt = Dist(f, dma.idx)
    BY <1>1 DEF DmaAt
  <2> QED
    BY <2>1, <2>2, <2>3, <1>1, <1>4, DistFrom
<1>10. \A s \in Slots : Dist(First, s) = 0 => s = f
  BY <1>1, <1>5, DistInjective
<1>11. /\ Len(Append(call.list, p)) = Len(call.list) + 1
       /\ DOMAIN Append(call.list, p) = 1 .. Len(call.list) + 1
       /\ DOMAIN call.list = 1 .. Len(call.list) /\ Len(call.list) \in Nat
       /\ \A j \in 1 .. Len(call.list) + 1 :
             Append(call.list, p)[j] = IF j = Len(call.list) + 1 THEN p ELSE call.list[j]
  BY <1>4, <1>5
<1>a. TypeOK'
  <2>1. call' \in [first : Slots, list : Seq(Pkts)]
    <3>1. Advance(f, 1) \in Slots /\ Append(call.list, p) \in Seq(Pkts)
      BY <1>4, <1>5, <1>7
    <3> QED
      BY <3>1, <1>3
  <2>2. packet' \in [Slots -> Pkts \cup {NONE}] /\ eop' \in [Slots -> Slots \cup {NONE}]
        /\ place' \in [Sends -> {"stack", "held", "sent", "freed"}]
    BY <1>3, <1>4
  <2>3. free_desc_cnt' \in 1 .. TX_DESC_CNT /\ tx_pkt_queued' \in 0 .. TX_DESC_CNT - 1
    BY <1>1, <1>3 DEF AvbTxInv, TypeOK, Counts
  <2> QED
    BY <2>1, <2>2, <2>3, <1>3 DEF AvbTxInv, TypeOK
<1>b. Counts'
  <2>1. Len(Pending)' = Len(Pending) + 1
    BY <1>1, <1>7, <1>11
  <2> QED
    BY <2>1, <1>1, <1>3, <1>11 DEF AvbTxInv, TypeOK, Counts
<1>c. Window'
  <2>1. cur_tx' = Advance(First, InRing)'
    <3>1. Advance(Advance(f, 1), InRing - 1) = Advance(f, InRing)
      BY <1>1, <1>2, AdvanceFrom
    <3> QED
      BY <3>1, <1>1, <1>3, <1>7 DEF AvbTxInv, Window, Advance
  <2>2. ASSUME NEW s \in Slots
        PROVE  (IF Dist(First, s) < InRing
                THEN packet[s] \in Pkts /\ eop[s] = s
                ELSE packet[s] = NONE /\ eop[s] = NONE /\ ~own[s])'
    <3>1. CASE s = f
      BY <3>1, <1>1, <1>2, <1>3, <1>4, <1>5, <1>7, <1>8
    <3>2. CASE s # f
      BY <3>2, <1>1, <1>2, <1>3, <1>4, <1>7, <1>8 DEF AvbTxInv, Window
    <3> QED
      BY <3>1, <3>2
  <2> QED
    BY <2>1, <2>2 DEF Window
<1>d. OnePlace'
  <2>1. /\ \A i \in DOMAIN tx_free_packets : tx_free_packets[i] # p
        /\ \A j \in 1 .. Len(call.list) : call.list[j] # p
        /\ \A s \in Slots : packet[s] = p => s = f
    BY <1>1, <1>4, <1>5, <1>11, AvbTxAssumption DEF AvbTxInv, OnePlace
  <2>2. IsInjective(Pending)'
    BY <2>1, <1>1, <1>7, <1>11 DEF AvbTxInv, OnePlace, IsInjective
  <2>3. IsInjective(tx_free_packets)'
    BY <1>3 DEF AvbTxInv, OnePlace
  <2>4. \A i \in DOMAIN tx_free_packets, j \in 1 .. Len(call.list) + 1 :
           tx_free_packets[i] # Append(call.list, p)[j]
    BY <2>1, <1>1, <1>11 DEF AvbTxInv, OnePlace
  <2>5. ASSUME NEW s \in Slots
        PROVE  /\ \A i \in DOMAIN tx_free_packets : tx_free_packets[i] # packet'[s]
               /\ \A j \in 1 .. Len(call.list) + 1 : Append(call.list, p)[j] # packet'[s]
    <3>1. CASE s = f
      <4>1. packet'[s] = NONE
        BY <3>1, <1>1, <1>3, <1>4
      <4>2. \A i \in DOMAIN tx_free_packets : tx_free_packets[i] \in Pkts
        <5>1. tx_free_packets \in Seq(Pkts)
          BY DEF AvbTxInv, TypeOK
        <5> QED
          BY <5>1
      <4>3. \A j \in 1 .. Len(call.list) : call.list[j] \in Pkts
        BY <1>4
      <4> QED
        BY <4>1, <4>2, <4>3, <1>5, <1>11, AvbTxAssumption
    <3>2. CASE s # f
      <4>1. packet'[s] = packet[s] /\ packet[s] # p
        BY <3>2, <2>1, <1>1, <1>3, <1>4
      <4>2. /\ \A i \in DOMAIN tx_free_packets : tx_free_packets[i] # packet[s]
            /\ \A j \in 1 .. Len(call.list) : call.list[j] # packet[s]
        BY <1>1, <1>11 DEF AvbTxInv, OnePlace
      <4> QED
        BY <4>1, <4>2, <1>11
    <3> QED
      BY <3>1, <3>2
  <2>6. \A s, t \in Slots : packet'[s] = packet'[t] /\ packet'[s] # NONE => s = t
    BY <1>1, <1>3, <1>4 DEF AvbTxInv, OnePlace
  <2> QED
    BY <2>2, <2>3, <2>4, <2>5, <2>6, <1>3, <1>7, <1>11 DEF OnePlace
<1>e. NoneLost'
  <2> SUFFICES ASSUME ~draining, NEW q \in Pkts
               PROVE  \/ \E i \in DOMAIN tx_free_packets : tx_free_packets[i] = q
                      \/ \E j \in DOMAIN Append(call.list, p) : Append(call.list, p)[j] = q
                      \/ \E s \in Slots : packet'[s] = q
    BY <1>3, <1>7 DEF NoneLost
  <2>1. CASE \E i \in DOMAIN tx_free_packets : tx_free_packets[i] = q
    BY <2>1
  <2>2. CASE \E j \in DOMAIN call.list : call.list[j] = q
    BY <2>2, <1>11
  <2>3. CASE q = p
    BY <2>3, <1>11
  <2>4. CASE q # p /\ \E s \in Slots : packet[s] = q
    BY <2>4, <1>1, <1>3, <1>4
  <2> QED
    BY <2>1, <2>2, <2>3, <2>4, <1>1 DEF AvbTxInv, NoneLost
<1>f. Order'
  <2>1. (DmaAt <= InRing)' /\ (dma.busy => DmaAt < InRing)'
    BY <1>2, <1>3, <1>7, <1>9 DEF AvbTxInv, Order
  <2>2. ASSUME NEW s \in Slots, (Dist(First, s) < InRing)'
        PROVE  /\ content'[packet'[s]] = (Freed + Dist(First, s) + 1)'
               /\ own'[s] <=> (Dist(First, s) >= DmaAt)'
    <3>1. s # f /\ Dist(First, s) < InRing
      BY <2>2, <1>2, <1>7, <1>8
    <3>2. packet'[s] = packet[s]
      BY <3>1, <1>1, <1>3, <1>4
    <3>3. content[packet[s]] = Freed + Dist(First, s) + 1 /\ (own[s] <=> Dist(First, s) >= DmaAt)
      BY <3>1 DEF AvbTxInv, Order
    <3>4. Dist(First, s)' = Dist(First, s) - 1
      BY <3>1, <1>8
    <3> QED
      BY <3>2, <3>3, <3>4, <1>2, <1>3, <1>7, <1>9
  <2> QED
    BY <2>1, <2>2 DEF Order
<1>g. Stages'
  <2>1. ASSUME NEW n \in Sends PROVE place'[n] = Stage(n)'
    <3>1. place[n] = Stage(n) /\ n \in Nat
      BY DEF AvbTxInv, Stages, Sends
    <3>2. place'[n] = IF n = Freed + 1 THEN "freed" ELSE place[n]
      BY <1>3, <1>4, <1>6
    <3>3. Freed' + DmaAt' = Freed + DmaAt /\ Freed' + InRing' = Freed + InRing
      BY <1>2, <1>7, <1>9
    <3>4. dma' = dma
      BY <1>3
    <3> QED
      BY <3>1, <3>2, <3>3, <3>4, <1>2, <1>6, <1>7 DEF Stage
  <2> QED
    BY <2>1 DEF Stages
<1> QED
  BY <1>a, <1>b, <1>c, <1>d, <1>e, <1>f, <1>g DEF AvbTxInv

LEMMA CleanReturnStep == ASSUME AvbTxInv, CleanReturn PROVE AvbTxInv'
<1> USE AvbTxAssumption
<1>1. /\ UNCHANGED <<halt, own, packet, eop, cur_tx, free_desc_cnt, tx_pkt_queued, call,
                     draining, tx_free_packets, queued, transmitted, dma, content, place>>
      /\ pc = "reclaim" /\ pc' = "ret" /\ dirty_tx' = call.first /\ ret' = Len(call.list)
      /\ First' = First /\ InRing' = InRing /\ Freed' = Freed
      /\ Pending' = Pending /\ Pending = call.list
  BY DEF CleanReturn, First, InRing, Freed, Pending, talker
<1>2. Len(call.list) \in Nat /\ Len(call.list) <= TX_DESC_CNT /\ call.first \in Slots
  BY <1>1 DEF AvbTxInv, TypeOK, Counts
<1>3. TypeOK'
  BY <1>1, <1>2 DEF AvbTxInv, TypeOK
<1>4. Counts'
  BY <1>1, <1>2 DEF AvbTxInv, TypeOK, Counts
<1>5. Window' /\ Order' /\ Stages'
  BY <1>1, WindowStays
<1>6. OnePlace' /\ NoneLost'
  BY <1>1, PoolStays
<1> QED
  BY <1>3, <1>4, <1>5, <1>6 DEF AvbTxInv

LEMMA PutBack ==
    ASSUME NEW S, NEW a \in Seq(S), NEW b \in Seq(S)
    PROVE  LET l == Reverse(a) \o b IN
           /\ l \in Seq(S) /\ DOMAIN l = 1 .. Len(a) + Len(b)
           /\ \A i \in 1 .. Len(a) : l[i] = a[Len(a) - i + 1]
           /\ \A i \in Len(a) + 1 .. Len(a) + Len(b) : l[i] = b[i - Len(a)]
           /\ DOMAIN a = 1 .. Len(a) /\ DOMAIN b = 1 .. Len(b)
<1> DEFINE n == Len(a)
           r == Reverse(a)
<1>1. n \in Nat /\ Len(b) \in Nat /\ DOMAIN a = 1 .. n /\ DOMAIN b = 1 .. Len(b)
  OBVIOUS
<1>2. r = [i \in 1 .. n |-> a[n - i + 1]]
  BY DEF Reverse
<1>3. \A i \in 1 .. n : n - i + 1 \in 1 .. n /\ a[n - i + 1] \in S
  BY <1>1
<1>4. r \in Seq(S) /\ Len(r) = n
  BY <1>1, <1>2, <1>3
<1>5. \A i \in 1 .. n : r[i] = a[n - i + 1]
  BY <1>2
<1> HIDE DEF r
<1>6. r \o b \in Seq(S) /\ DOMAIN (r \o b) = 1 .. n + Len(b)
  BY <1>1, <1>4
<1>7. \A i \in 1 .. n : (r \o b)[i] = a[n - i + 1]
  BY <1>1, <1>4, <1>5
<1>8. \A i \in n + 1 .. n + Len(b) : (r \o b)[i] = b[i - n]
  BY <1>1, <1>4
<1> QED
  BY <1>1, <1>6, <1>7, <1>8 DEF r

\* The packets of the list go back to the talker, in the order opposite to that
\* of their sends.
LEMMA ReuseStep == ASSUME AvbTxInv, Reuse PROVE AvbTxInv'
<1> DEFINE back == Reverse(call.list) \o tx_free_packets
           c == Len(call.list)
           t == Len(tx_free_packets)
<1> USE AvbTxAssumption
<1>1. /\ UNCHANGED <<halt, own, packet, eop, cur_tx, dirty_tx, free_desc_cnt, tx_pkt_queued,
                     call, ret, queued, dma, content, place>>
      /\ pc = "ret" /\ pc' \in {"loop", "clean", "free"}
      /\ First' = First /\ InRing' = InRing /\ Freed' = Freed
      /\ Pending' = <<>> /\ Pending = call.list
  BY DEF Reuse, First, InRing, Freed, Pending, ring
<1>2. /\ call.list \in Seq(Pkts) /\ tx_free_packets \in Seq(Pkts) /\ c \in Nat /\ t \in Nat
      /\ ret \in {-1, c} /\ transmitted \in 0 .. NumSends /\ queued \in 0 .. NumSends
      /\ tx_pkt_queued \in Nat /\ transmitted + c + tx_pkt_queued <= queued
  BY <1>1 DEF AvbTxInv, TypeOK, Counts
<1>3. Window' /\ Order' /\ Stages'
  BY <1>1, WindowStays
<1>4. CASE Failed
  <2>1. draining' = TRUE /\ UNCHANGED <<transmitted, tx_free_packets>> /\ pc' = "clean"
    BY <1>2, <1>4 DEF Reuse
  <2>2. TypeOK'
    BY <1>1, <2>1 DEF AvbTxInv, TypeOK
  <2>3. Counts'
    BY <1>1, <1>2, <2>1 DEF AvbTxInv, Counts
  <2>4. OnePlace' /\ NoneLost'
    BY <1>1, <2>1, PoolDrops
  <2> QED
    BY <1>3, <2>2, <2>3, <2>4 DEF AvbTxInv
<1>5. CASE ~Failed
  <2>0. ret = c
    BY <1>2, <1>5 DEF Failed
  <2>1. /\ transmitted' = transmitted + c /\ tx_free_packets' = back
        /\ draining' = draining /\ pc' = "loop" /\ ~draining
    BY <2>0, <1>5 DEF Reuse
  <2>3. /\ back \in Seq(Pkts) /\ DOMAIN back = 1 .. c + t
        /\ \A i \in 1 .. c : back[i] = call.list[c - i + 1]
        /\ \A i \in c + 1 .. c + t : back[i] = tx_free_packets[i - c]
        /\ DOMAIN call.list = 1 .. c /\ DOMAIN tx_free_packets = 1 .. t
    BY <1>2, PutBack
  <2> HIDE DEF back
  <2>4. TypeOK'
    BY <1>1, <1>2, <2>1, <2>3 DEF AvbTxInv, TypeOK
  <2>5. Counts'
    BY <1>1, <1>2, <2>1 DEF AvbTxInv, Counts
  <2>6. OnePlace'
    <3>1. IsInjective(back)
      <4>1. ASSUME NEW i \in 1 .. c + t, NEW j \in 1 .. c + t, back[i] = back[j]
            PROVE  i = j
        <5>1. CASE i <= c /\ j <= c
          <6>1. c - i + 1 \in DOMAIN call.list /\ c - j + 1 \in DOMAIN call.list
            BY <5>1, <2>3
          <6>2. call.list[c - i + 1] = call.list[c - j + 1]
            BY <5>1, <4>1, <2>3
          <6>3. c - i + 1 = c - j + 1
            BY <6>1, <6>2, <1>1 DEF AvbTxInv, OnePlace, IsInjective
          <6> QED
            BY <6>3, <1>2
        <5>2. CASE i > c /\ j > c
          <6>1. i - c \in DOMAIN tx_free_packets /\ j - c \in DOMAIN tx_free_packets
            BY <5>2, <2>3, <1>2
          <6>2. tx_free_packets[i - c] = tx_free_packets[j - c]
            BY <5>2, <4>1, <2>3, <1>2
          <6>3. i - c = j - c
            BY <6>1, <6>2 DEF AvbTxInv, OnePlace, IsInjective
          <6> QED
            BY <6>3, <1>2
        <5>3. CASE i <= c /\ j > c
          <6>1. c - i + 1 \in DOMAIN Pending /\ j - c \in DOMAIN tx_free_packets
            BY <5>3, <2>3, <1>1, <1>2
          <6>2. back[i] = Pending[c - i + 1]
            BY <5>3, <2>3, <1>1
          <6>3. back[j] = tx_free_packets[j - c]
            <7>1. j \in c + 1 .. c + t
              BY <5>3, <1>2
            <7> QED
              BY <7>1, <2>3
          <6> QED
            BY <6>1, <6>2, <6>3, <4>1 DEF AvbTxInv, OnePlace
        <5>4. CASE i > c /\ j <= c
          <6>1. c - j + 1 \in DOMAIN Pending /\ i - c \in DOMAIN tx_free_packets
            BY <5>4, <2>3, <1>1, <1>2
          <6>2. back[j] = Pending[c - j + 1]
            BY <5>4, <2>3, <1>1
          <6>3. back[i] = tx_free_packets[i - c]
            <7>1. i \in c + 1 .. c + t
              BY <5>4, <1>2
            <7> QED
              BY <7>1, <2>3
          <6> QED
            BY <6>1, <6>2, <6>3, <4>1 DEF AvbTxInv, OnePlace
        <5> QED
          BY <5>1, <5>2, <5>3, <5>4, <1>2
      <4> QED
        BY <4>1, <2>3 DEF IsInjective
    <3>2. \A s \in Slots : \A i \in DOMAIN back : back[i] # packet[s]
      <4>1. ASSUME NEW s \in Slots, NEW i \in 1 .. c + t PROVE back[i] # packet[s]
        <5>1. CASE i <= c
          <6>1. c - i + 1 \in DOMAIN Pending /\ back[i] = Pending[c - i + 1]
            BY <5>1, <2>3, <1>1, <1>2
          <6> QED
            BY <6>1 DEF AvbTxInv, OnePlace
        <5>2. CASE i > c
          <6>1. i \in c + 1 .. c + t /\ i - c \in 1 .. t
            BY <5>2, <1>2
          <6>2. i - c \in DOMAIN tx_free_packets /\ back[i] = tx_free_packets[i - c]
            BY <6>1, <2>3
          <6> QED
            BY <6>2 DEF AvbTxInv, OnePlace
        <5> QED
          BY <5>1, <5>2, <1>2
      <4> QED
        BY <4>1, <2>3
    <3> QED
      BY <3>1, <3>2, <1>1, <2>1 DEF AvbTxInv, OnePlace, IsInjective
  <2>7. NoneLost'
    <3>1. ASSUME NEW q \in Pkts
          PROVE  \/ \E i \in DOMAIN back : back[i] = q
                 \/ \E s \in Slots : packet[s] = q
      <4>1. CASE \E j \in 1 .. c : call.list[j] = q
        <5>1. PICK j \in 1 .. c : call.list[j] = q
          BY <4>1
        <5> DEFINE i == c - j + 1
        <5>2. i \in 1 .. c /\ i \in 1 .. c + t /\ c - i + 1 = j
          BY <1>2
        <5>3. back[i] = call.list[c - i + 1]
          BY <5>2, <2>3
        <5>4. i \in DOMAIN back /\ back[i] = q
          BY <5>1, <5>2, <5>3, <2>3
        <5> QED
          BY <5>4
      <4>2. CASE \E j \in 1 .. t : tx_free_packets[j] = q
        <5>1. PICK j \in 1 .. t : tx_free_packets[j] = q
          BY <4>2
        <5> DEFINE i == c + j
        <5>2. i \in c + 1 .. c + t /\ i \in 1 .. c + t /\ i - c = j
          BY <1>2
        <5>3. back[i] = tx_free_packets[i - c]
          BY <5>2, <2>3
        <5>4. i \in DOMAIN back /\ back[i] = q
          BY <5>1, <5>2, <5>3, <2>3
        <5> QED
          BY <5>4
      <4> QED
        BY <4>1, <4>2, <2>1, <2>3, <1>1 DEF AvbTxInv, NoneLost
    <3> QED
      BY <3>1, <1>1, <2>1 DEF NoneLost
  <2> QED
    BY <1>3, <2>4, <2>5, <2>6, <2>7 DEF AvbTxInv
<1> QED
  BY <1>4, <1>5

\* The drain loop is left only if the ring is empty or the count is EINVAL.
LEMMA DrainStep == ASSUME AvbTxInv, Drain PROVE AvbTxInv'
<1> USE AvbTxAssumption
<1>1. /\ UNCHANGED <<halt, draining, own, packet, eop, cur_tx, dirty_tx, free_desc_cnt,
                     tx_pkt_queued, call, ret, tx_free_packets, queued, dma, content, place>>
      /\ pc = "ret" /\ pc' \in {"clean", "free"} /\ draining
      /\ First' = First /\ InRing' = InRing /\ Freed' = Freed
      /\ Pending' = <<>> /\ Pending = call.list
  BY DEF Drain, First, InRing, Freed, Pending, ring
<1>2. /\ Len(call.list) \in Nat
      /\ ret \in {-1, Len(call.list)} /\ transmitted \in 0 .. NumSends /\ queued \in 0 .. NumSends
      /\ tx_pkt_queued \in Nat /\ transmitted + Len(call.list) + tx_pkt_queued <= queued
  BY <1>1 DEF AvbTxInv, TypeOK, Counts
<1>3. /\ transmitted' = IF Failed THEN transmitted ELSE transmitted + Len(call.list)
      /\ pc' = "free" => Failed
  BY <1>2 DEF Drain, Failed
<1>4. pc' = "free" => ret \in {-1, EINVAL}
  BY <1>2, <1>3 DEF Failed
<1>5. TypeOK'
  BY <1>1, <1>2, <1>3 DEF AvbTxInv, TypeOK
<1>6. Counts'
  BY <1>1, <1>2, <1>3, <1>4 DEF AvbTxInv, Counts
<1>7. Window' /\ Order' /\ Stages'
  BY <1>1, WindowStays
<1>8. OnePlace' /\ NoneLost'
  <2>1. UNCHANGED <<packet, tx_free_packets>> /\ draining'
    BY <1>1
  <2> QED
    BY <1>1, <2>1, PoolDrops
<1> QED
  BY <1>5, <1>6, <1>7, <1>8 DEF AvbTxInv

LEMMA InterruptStep == ASSUME AvbTxInv, Interrupt PROVE AvbTxInv'
<1>1. /\ UNCHANGED <<pc, own, packet, eop, cur_tx, dirty_tx, free_desc_cnt, tx_pkt_queued, call,
                     ret, draining, tx_free_packets, queued, transmitted, dma, content, place>>
      /\ halt' \in BOOLEAN
  BY DEF Interrupt, ring, talker
<1>2. First' = First /\ InRing' = InRing /\ Freed' = Freed /\ Pending' = Pending
  BY <1>1 DEF First, InRing, Freed, Pending
<1>3. TypeOK' /\ Counts'
  BY <1>1, <1>2 DEF AvbTxInv, TypeOK, Counts
<1>4. Window' /\ Order' /\ Stages'
  BY <1>1, <1>2, WindowStays
<1>5. OnePlace' /\ NoneLost'
  BY <1>1, <1>2, PoolStays
<1> QED
  BY <1>3, <1>4, <1>5 DEF AvbTxInv

-----------------------------------------------------------------------------
(* The DMA channel.                                                        *)

LEMMA DmaStep == ASSUME AvbTxInv, Dma PROVE AvbTxInv'
<1> USE AvbTxAssumption
<1>1. /\ UNCHANGED <<pc, halt, packet, eop, cur_tx, dirty_tx, free_desc_cnt, tx_pkt_queued, call,
                     ret, draining, tx_free_packets, queued, transmitted, content>>
  BY DEF Dma, DmaSuspend, DmaFetch, DmaWriteBack, ring, talker
<1>2. First' = First /\ InRing' = InRing /\ Freed' = Freed /\ Pending' = Pending
  BY <1>1 DEF First, InRing, Freed, Pending
<1>3. /\ First \in Slots /\ InRing \in 0 .. TX_DESC_CNT - 1 /\ Freed \in Nat
      /\ DmaAt \in Nat /\ \A s \in Slots : Dist(First, s) \in 0 .. TX_DESC_CNT - 1
  BY Numbers
<1>4. /\ dma \in [idx : Slots, run : BOOLEAN, tail : Slots, busy : BOOLEAN]
      /\ own \in [Slots -> BOOLEAN] /\ place \in [Sends -> {"stack", "held", "sent", "freed"}]
      /\ dma.idx \in Slots
  BY DEF AvbTxInv, TypeOK
<1>5. Counts' /\ OnePlace' /\ NoneLost'
  BY <1>1, <1>2, PoolStays DEF AvbTxInv, Counts
<1>6. \A s \in Slots : Dist(First, s)' = Dist(First, s)
  BY <1>2 DEF Dist
<1>7. CASE DmaSuspend
  <2>1. dma'.idx = dma.idx /\ dma'.busy = dma.busy /\ own' = own /\ place' = place
        /\ dma' \in [idx : Slots, run : BOOLEAN, tail : Slots, busy : BOOLEAN]
    BY <1>4, <1>7 DEF DmaSuspend
  <2>2. TypeOK'
    BY <1>1, <2>1 DEF AvbTxInv, TypeOK
  <2>3. Window' /\ Order' /\ Stages'
    BY <1>1, <1>2, <2>1, WindowStays
  <2> QED
    BY <1>5, <2>2, <2>3 DEF AvbTxInv
<1>8. CASE DmaFetch
  <2>1. /\ ~dma.busy /\ own[dma.idx] /\ own' = own /\ dma'.idx = dma.idx /\ dma'.busy
        /\ dma' \in [idx : Slots, run : BOOLEAN, tail : Slots, busy : BOOLEAN]
        /\ place' = [place EXCEPT ![content[packet[dma.idx]]] = "sent"]
    BY <1>4, <1>8 DEF DmaFetch, Usable
  <2>2. DmaAt' = DmaAt
    BY <1>2, <2>1 DEF DmaAt, Dist
  <2>3. DmaAt < InRing /\ content[packet[dma.idx]] = Freed + DmaAt + 1
    BY <2>1, <1>4 DEF AvbTxInv, Window, Order, DmaAt
  <2>4. TypeOK'
    BY <1>1, <1>4, <2>1 DEF AvbTxInv, TypeOK
  <2>5. Window'
    BY <1>1, <1>2, <1>6, <2>1 DEF AvbTxInv, Window, Advance
  <2>6. Order'
    BY <1>1, <1>2, <1>6, <2>1, <2>2, <2>3 DEF AvbTxInv, Order
  <2>7. Stages'
    <3>1. ASSUME NEW n \in Sends PROVE place'[n] = Stage(n)'
      <4>1. place[n] = Stage(n) /\ n \in Nat
        BY DEF AvbTxInv, Stages, Sends
      <4>2. place'[n] = IF n = Freed + DmaAt + 1 THEN "sent" ELSE place[n]
        BY <1>4, <2>1, <2>3
      <4> QED
        BY <4>1, <4>2, <1>2, <1>3, <2>1, <2>2, <2>3 DEF Stage
    <3> QED
      BY <3>1 DEF Stages
  <2> QED
    BY <1>5, <2>4, <2>5, <2>6, <2>7 DEF AvbTxInv
<1>9. CASE DmaWriteBack
  <2>1. /\ dma.busy /\ place' = place /\ own' = [own EXCEPT ![dma.idx] = FALSE]
        /\ dma' = [dma EXCEPT !.busy = FALSE, !.idx = Advance(@, 1)]
    BY <1>9 DEF DmaWriteBack
  <2>2. dma'.idx = Advance(dma.idx, 1) /\ ~dma'.busy /\ Advance(dma.idx, 1) \in Slots
    BY <1>4, <2>1, DistEnd, AdvanceOne DEF Slots
  <2>3. DmaAt < InRing
    BY <2>1 DEF AvbTxInv, Order
  <2>4. DmaAt' = DmaAt + 1
    <3>1. Dist(First, Advance(dma.idx, 1)) = Dist(First, dma.idx) + 1
      <4>1. Advance(dma.idx, 1) = IF dma.idx = TX_DESC_CNT - 1 THEN 0 ELSE dma.idx + 1
        BY <1>4, AdvanceOne
      <4>2. Dist(First, dma.idx) < TX_DESC_CNT - 1
        BY <1>3, <2>3 DEF DmaAt
      <4> QED
        BY <4>1, <4>2, <1>3, <1>4 DEF Dist, Slots
    <3> QED
      BY <3>1, <1>2, <2>2 DEF DmaAt, Dist
  <2>5. \A s \in Slots : Dist(First, s) = DmaAt => s = dma.idx
    BY <1>3, <1>4, DistInjective DEF DmaAt
  <2>6. TypeOK'
    <3>1. dma' \in [idx : Slots, run : BOOLEAN, tail : Slots, busy : BOOLEAN]
      BY <1>4, <2>1, <2>2
    <3> QED
      BY <3>1, <1>1, <1>4, <2>1 DEF AvbTxInv, TypeOK
  <2>7. Window'
    <3>1. ASSUME NEW s \in Slots
          PROVE  IF Dist(First, s) < InRing
                 THEN packet[s] \in Pkts /\ eop[s] = s
                 ELSE packet[s] = NONE /\ eop[s] = NONE /\ ~own'[s]
      BY <1>4, <2>1 DEF AvbTxInv, Window
    <3> QED
      BY <3>1, <1>1, <1>2, <1>6 DEF AvbTxInv, Window, Advance
  <2>8. Order'
    <3>1. ASSUME NEW s \in Slots, Dist(First, s) < InRing
          PROVE  own'[s] <=> Dist(First, s) >= DmaAt + 1
      <4>1. CASE s = dma.idx
        BY <4>1, <1>3, <1>4, <2>1 DEF DmaAt
      <4>2. CASE s # dma.idx
        BY <4>2, <3>1, <1>3, <1>4, <2>1, <2>5 DEF AvbTxInv, Order
      <4> QED
        BY <4>1, <4>2
    <3> QED
      BY <3>1, <1>1, <1>2, <1>3, <1>6, <2>2, <2>3, <2>4 DEF AvbTxInv, Order
  <2>9. Stages'
    <3>1. ASSUME NEW n \in Sends PROVE Stage(n)' = Stage(n)
      <4>1. n \in Nat
        BY DEF Sends
      <4> QED
        BY <4>1, <1>2, <1>3, <2>1, <2>2, <2>4 DEF Stage
    <3> QED
      BY <3>1, <2>1 DEF AvbTxInv, Stages
  <2> QED
    BY <1>5, <2>6, <2>7, <2>8, <2>9 DEF AvbTxInv
<1> QED
  BY <1>7, <1>8, <1>9 DEF Dma

LEMMA InvStep == ASSUME AvbTxInv, [Next]_vars PROVE AvbTxInv'
<1>1. CASE UNCHANGED vars
  <2>1. /\ UNCHANGED <<pc, halt, own, packet, eop, cur_tx, dirty_tx, free_desc_cnt, tx_pkt_queued>>
        /\ UNCHANGED <<call, ret, draining, tx_free_packets, queued, transmitted, dma, content, place>>
    BY <1>1 DEF vars, ring, talker
  <2>2. First' = First /\ InRing' = InRing /\ Freed' = Freed /\ Pending' = Pending
    BY <2>1 DEF First, InRing, Freed, Pending
  <2>3. TypeOK' /\ Counts'
    BY <2>1, <2>2 DEF AvbTxInv, TypeOK, Counts
  <2>4. Window' /\ Order' /\ Stages'
    BY <2>1, <2>2, WindowStays
  <2>5. OnePlace' /\ NoneLost'
    BY <2>1, <2>2, PoolStays
  <2> QED
    BY <2>3, <2>4, <2>5 DEF AvbTxInv
<1>2. CASE Next
  BY <1>2, XmitStep, TriggerStep, MoveStep, CleanPacketStep, CleanReturnStep, ReuseStep, DrainStep,
     InterruptStep, DmaStep DEF Next, Talker, Cleanup
<1> QED
  BY <1>1, <1>2

-----------------------------------------------------------------------------
(* The theorems.                                                           *)

\* The strengthened invariant holds throughout.
THEOREM TalkerInvariant == Spec => []AvbTxInv
<1>1. Init => AvbTxInv
  BY InvInit
<1>2. AvbTxInv /\ [Next]_vars => AvbTxInv'
  BY InvStep
<1> QED
  BY <1>1, <1>2, PTL DEF Spec

LEMMA InvRingKept == ASSUME AvbTxInv PROVE RingKept
<1> USE AvbTxAssumption
<1>1. TypeOK
  BY DEF AvbTxInv
<1>2. WindowKept
  <2> DEFINE window == {Advance(First, k) : k \in 0 .. InRing - 1}
  <2>1. \A s \in Slots : s \in window <=> Dist(First, s) < InRing
    BY Numbers, WindowDist
  <2> HIDE DEF window
  <2>2. \A s \in Slots : /\ (s \in window) = (packet[s] # NONE)
                         /\ eop[s] = IF s \in window THEN s ELSE NONE
                         /\ own[s] => s \in window
    BY <2>1 DEF AvbTxInv, Window
  <2> QED
    BY <2>2 DEF AvbTxInv, Counts, Window, WindowKept, window
<1>3. PoolConserved
  <2>1. ASSUME NEW p \in Pkts
        PROVE  Held(p) <=> \/ \E i \in DOMAIN tx_free_packets : tx_free_packets[i] = p
                           \/ \E j \in DOMAIN Pending : Pending[j] = p
    BY DEF Held, Pending, ToSet
  <2>2. \A s \in Slots : packet[s] # NONE => packet[s] \in Pkts
    BY DEF AvbTxInv, TypeOK
  <2> QED
    BY <2>1, <2>2 DEF PoolConserved, AvbTxInv, OnePlace, NoneLost
<1> QED
  BY <1>1, <1>2, <1>3 DEF RingKept

\* For every ring, pool and number of sends the counters, the ring and the pool
\* of packets of the talker agree, in the middle of start_xmit and of
\* tx_buffer_cleanup too.
THEOREM TalkerRingKept == Spec => []RingKept
<1>1. AvbTxInv => RingKept
  BY InvRingKept
<1> QED
  BY <1>1, TalkerInvariant, PTL

LEMMA InvBufferIdle == ASSUME AvbTxInv PROVE BufferIdle
<1> SUFFICES ASSUME Released, ret # EINVAL, NEW s \in Slots PROVE ~own[s]
  BY DEF BufferIdle
<1>1. tx_pkt_queued = 0 /\ pc # "trigger"
  BY DEF AvbTxInv, Counts, Released
<1>2. InRing = 0 /\ Dist(First, s) >= 0
  BY <1>1, Numbers DEF InRing
<1> QED
  BY <1>2, Numbers DEF AvbTxInv, Window

\* The talker releases its buffer only when no descriptor points into it, unless
\* the last clean up reclaimed just as many packets as EINVAL.
THEOREM TalkerBufferIdle == Spec => []BufferIdle
<1>1. AvbTxInv => BufferIdle
  BY InvBufferIdle
<1> QED
  BY <1>1, TalkerInvariant, PTL

LEMMA FifoInit == Init => Fifo!Init
BY DEF Init, Fifo!Init

LEMMA FifoStep == ASSUME AvbTxInv, AvbTxInv', [Next]_vars PROVE [Fifo!Next]_place
<1> USE AvbTxAssumption
<1>1. /\ place \in [Sends -> {"stack", "held", "sent", "freed"}]
      /\ \A n \in Sends : place[n] = Stage(n) /\ n \in Nat
      /\ Freed \in Nat /\ InRing \in Nat /\ DmaAt \in Nat /\ DmaAt <= InRing
      /\ Freed + InRing <= NumSends /\ InRing < TX_DESC_CNT
  <2>1. place \in [Sends -> {"stack", "held", "sent", "freed"}]
    BY DEF AvbTxInv, TypeOK
  <2>2. \A n \in Sends : place[n] = Stage(n) /\ n \in Nat
    BY DEF AvbTxInv, Stages, Sends
  <2>3. DmaAt <= InRing
    BY DEF AvbTxInv, Order
  <2> QED
    BY <2>1, <2>2, <2>3, Numbers
<1>2. CASE Xmit
  <2>1. place' = [place EXCEPT ![queued + 1] = "held"] /\ queued + 1 \in Sends
        /\ queued + 1 = Freed + InRing + 1
    BY <1>2 DEF Xmit, Setup, CanSend, Freed, InRing, AvbTxInv, TypeOK, Sends
  <2>2. dma.busy => DmaAt < InRing
    BY DEF AvbTxInv, Order
  <2>3. Fifo!Oldest(queued + 1, "stack")
    BY <1>1, <2>1, <2>2 DEF Fifo!Oldest, Stage
  <2>4. Fifo!Accept(queued + 1)
    BY <2>1, <2>3 DEF Fifo!Accept, Fifo!Move
  <2> QED
    BY <2>1, <2>4 DEF Fifo!Next
<1>3. CASE CleanPacket
  <2> DEFINE n == content[packet[call.first]]
  <2>1. place' = [place EXCEPT ![n] = "freed"]
    BY <1>3 DEF CleanPacket
  <2>2. First = call.first /\ call.first \in Slots /\ Dist(First, call.first) = 0
        /\ InRing = tx_pkt_queued /\ InRing > 0 /\ eop[call.first] # NONE /\ ~own[eop[call.first]]
    <3>1. First = call.first /\ call.first \in Slots /\ InRing = tx_pkt_queued
          /\ tx_pkt_queued > 0 /\ eop[call.first] # NONE /\ ~own[eop[call.first]]
      BY <1>3 DEF AvbTxInv, TypeOK, CleanPacket, Ready, First, InRing
    <3>2. Dist(First, call.first) = 0
      BY <3>1 DEF Dist, Slots
    <3> QED
      BY <3>1, <3>2
  <2>3. DmaAt > 0 /\ n = Freed + 1
    BY <1>1, <2>2 DEF AvbTxInv, Window, Order
  <2>4. n \in Sends
    BY <1>1, <2>2, <2>3 DEF Sends
  <2> HIDE DEF n
  <2>5. Fifo!Oldest(n, "sent")
    BY <1>1, <2>3, <2>4 DEF Fifo!Oldest, Stage
  <2>6. Fifo!Release(n)
    BY <2>1, <2>5 DEF Fifo!Release, Fifo!Move
  <2> QED
    BY <2>4, <2>6 DEF Fifo!Next
<1>4. CASE DmaFetch
  <2> DEFINE n == content[packet[dma.idx]]
  <2>1. place' = [place EXCEPT ![n] = "sent"] /\ ~dma.busy /\ own[dma.idx] /\ dma.idx \in Slots
    BY <1>4 DEF DmaFetch, Usable, AvbTxInv, TypeOK
  <2>2. DmaAt < InRing /\ n = Freed + DmaAt + 1
    BY <2>1 DEF AvbTxInv, Window, Order, DmaAt
  <2>3. n \in Sends
    BY <1>1, <2>2 DEF Sends
  <2> HIDE DEF n
  <2>4. Fifo!Oldest(n, "held")
    BY <1>1, <2>1, <2>2, <2>3 DEF Fifo!Oldest, Stage
  <2>5. Fifo!Send(n)
    BY <2>1, <2>4 DEF Fifo!Send, Fifo!Move
  <2> QED
    BY <2>3, <2>5 DEF Fifo!Next
<1>5. CASE /\ ~Xmit /\ ~CleanPacket /\ ~DmaFetch
  <2>1. UNCHANGED place
    BY <1>5 DEF Next, Talker, Dma, Cleanup, Trigger, XmitRefused, LeaveLoop, CleanCall, CleanReturn,
           Reuse, Drain, FreeBuffer, Detach, Interrupt, DmaSuspend, DmaWriteBack, vars
  <2> QED
    BY <2>1
<1> QED
  BY <1>2, <1>3, <1>4, <1>5

\* The ring of the talker implements the queue of TxFifo: packets are accepted
\* and sent in the order they are queued, and a packet returns to the talker
\* after it was sent, once and in the same order.
THEOREM TalkerImplementsFifo == Spec => ImplementsFifo
<1>1. Init => Fifo!Init
  BY FifoInit
<1>2. AvbTxInv /\ AvbTxInv' /\ [Next]_vars => [Fifo!Next]_place
  BY FifoStep
<1> QED
  BY <1>1, <1>2, TalkerInvariant, PTL DEF Spec, ImplementsFifo, Fifo!Spec

=============================================================================
