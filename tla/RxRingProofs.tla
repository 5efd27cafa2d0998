---------------------------- MODULE RxRingProofs ----------------------------
(***************************************************************************)
(* For every ring size, refill threshold, budget share and mix of frames,  *)
(* as long as fewer refills failed than the ring can bear: the type        *)
(* invariant of RxRing, the window of the poll, who may use an skb, which  *)
(* frame a time stamp belongs to, and that the ring implements RxFifo.     *)
(***************************************************************************)
EXTENDS RxRing, TLAPS

\* The failed refills the ring can bear: with the descriptors a poll consumes
\* before it refills them they never cover the ring.
Bearable == MaxLost + MIN_RX_DESC_CNT < RX_DESC_CNT

-----------------------------------------------------------------------------
(* Ring arithmetic.                                                        *)

LEMMA AdvanceType ==
    ASSUME NEW i \in Slots, NEW k \in 0 .. RX_DESC_CNT
    PROVE  Advance(i, k) \in Slots
BY RxAssumption DEF Advance, Slots

LEMMA AdvanceOne ==
    ASSUME NEW i \in Slots
    PROVE  Advance(i, 1) \in Slots
BY RxAssumption DEF Advance, Slots

LEMMA RetreatType ==
    ASSUME NEW i \in Slots
    PROVE  Retreat(i) \in Slots
BY RxAssumption DEF Retreat, Slots

LEMMA DistType ==
    ASSUME NEW i \in Slots, NEW j \in Slots
    PROVE  Dist(i, j) \in Slots
BY RxAssumption DEF Dist, Slots

\* Slots at the same distance are the same slot.
LEMMA DistInjective ==
    ASSUME NEW from \in Slots, NEW i \in Slots, NEW j \in Slots,
           Dist(from, i) = Dist(from, j)
    PROVE  i = j
BY RxAssumption DEF Dist, Slots

\* The slot after a window of n slots is at distance n.
LEMMA DistAdvance ==
    ASSUME NEW from \in Slots, NEW n \in 0 .. RX_DESC_CNT - 1
    PROVE  Dist(from, Advance(from, n)) = n
BY RxAssumption DEF Dist, Advance, Slots

LEMMA AdvanceNext ==
    ASSUME NEW from \in Slots, NEW n \in 0 .. RX_DESC_CNT - 1
    PROVE  Advance(Advance(from, n), 1) = Advance(from, n + 1)
BY RxAssumption DEF Advance, Slots

LEMMA AdvancePrevious ==
    ASSUME NEW from \in Slots, NEW n \in 1 .. RX_DESC_CNT
    PROVE  Retreat(Advance(from, n)) = Advance(from, n - 1)
BY RxAssumption DEF Advance, Retreat, Slots

\* A window that gives up its first slot.
LEMMA AdvanceFrom ==
    ASSUME NEW from \in Slots, NEW n \in 1 .. RX_DESC_CNT
    PROVE  Advance(Advance(from, 1), n - 1) = Advance(from, n)
BY RxAssumption DEF Advance, Slots

LEMMA DistFrom ==
    ASSUME NEW from \in Slots, NEW i \in Slots
    PROVE  Dist(Advance(from, 1), i) =
              IF i = from THEN RX_DESC_CNT - 1 ELSE Dist(from, i) - 1
BY RxAssumption DEF Advance, Dist, Slots

-----------------------------------------------------------------------------
(* The inductive invariant.  It says, beyond the properties themselves, how *)
(* many consumed descriptors each place of the poll may leave (Consumed),   *)
(* that the descriptors between skb_realloc_idx and cur_rx are not the      *)
(* DMA's and all others have an skb (Window), and that the skb in hand      *)
(* while a time stamp is awaited can be put back where it came from         *)
(* (InHand).                                                                *)

\* dirty_rx is below the threshold whenever the loop looks at a descriptor.
Consumed ==
    /\ pc = "idle" => dirty_rx = 0
    /\ pc \in {"loop", "oops"} => dirty_rx < MIN_RX_DESC_CNT
    /\ pc = "stamp" => dirty_rx >= 1 /\ dirty_rx <= MIN_RX_DESC_CNT
    /\ pc = "refill" => poll.i <= dirty_rx
    /\ dma.left > 0 \/ dma.owes => Len(frames) > 0

\* n slots from the slot "from" on are not the DMA's; every other slot has an
\* skb, and a frame the DMA has completed there is still in it.
Covers(d, b, m, from, n) ==
    \A i \in Slots :
        IF Dist(from, i) < n
        THEN ~d[i].own
        ELSE /\ b[i] # 0 /\ d[i].addr = b[i]
             /\ d[i].ld => m[b[i]] = d[i].of

Window == Covers(desc, buf, mem, skb_realloc_idx, Behind)

InHand ==
    pc = "stamp" =>
        /\ poll.skb \in 1 .. Len(mem)
        /\ \A i \in Slots : buf[i] # poll.skb
        /\ \A n \in DOMAIN delivered : delivered[n].skb # poll.skb
        /\ mem[poll.skb] = poll.of
        /\ desc[Retreat(cur_rx)].addr = poll.skb
        /\ desc[Retreat(cur_rx)].of = poll.of
        /\ ~desc[Retreat(cur_rx)].own

\* Every skb was allocated.
Allocated ==
    /\ \A i \in Slots : buf[i] <= Len(mem)
    /\ \A n \in DOMAIN delivered : delivered[n].skb \in 1 .. Len(mem)

RxInv ==
    /\ RingTypes /\ Consumed /\ WindowKept /\ Window
    /\ Allocated /\ SkbsApart /\ InHand /\ StackIntact

-----------------------------------------------------------------------------
(* What the poll, the refill and the DMA do to the window.                 *)

\* The poll takes the slot after the window.
LEMMA CoversConsume ==
    ASSUME NEW d, NEW b, NEW b2, NEW m,
           NEW from \in Slots, NEW n \in 0 .. RX_DESC_CNT - 1, NEW c,
           Covers(d, b, m, from, n), c = Advance(from, n), ~d[c].own,
           \A i \in Slots : i # c => b2[i] = b[i]
    PROVE  Covers(d, b2, m, from, n + 1)
<1> SUFFICES ASSUME NEW i \in Slots
             PROVE  IF Dist(from, i) < n + 1 THEN ~d[i].own
                    ELSE b2[i] # 0 /\ d[i].addr = b2[i] /\ (d[i].ld => m[b2[i]] = d[i].of)
  BY DEF Covers
<1>1. c \in Slots /\ Dist(from, c) = n
  BY RxAssumption, AdvanceType, DistAdvance
<1>2. Dist(from, i) \in Nat
  BY DistType DEF Slots
<1>3. CASE i = c
  BY <1>1, <1>3
<1>4. CASE i # c
  <2>1. Dist(from, i) # n
    BY <1>1, <1>4, DistInjective
  <2>2. Dist(from, i) < n + 1 => Dist(from, i) < n
    BY <1>2, <2>1
  <2>3. ~(Dist(from, i) < n + 1) => ~(Dist(from, i) < n)
    BY <1>2
  <2> QED
    BY <1>4, <2>2, <2>3 DEF Covers
<1> QED
  BY <1>3, <1>4

\* The poll puts the last slot of the window back.
LEMMA CoversPutBack ==
    ASSUME NEW d, NEW b \in [Slots -> Nat], NEW m, NEW skb,
           NEW from \in Slots, NEW n \in 1 .. RX_DESC_CNT, NEW c,
           Covers(d, b, m, from, n), c = Advance(from, n - 1),
           skb # 0, d[c].addr = skb, m[skb] = d[c].of
    PROVE  Covers(d, [b EXCEPT ![c] = skb], m, from, n - 1)
<1> SUFFICES ASSUME NEW i \in Slots
             PROVE  LET b2 == [b EXCEPT ![c] = skb]
                    IN  IF Dist(from, i) < n - 1 THEN ~d[i].own
                        ELSE b2[i] # 0 /\ d[i].addr = b2[i] /\ (d[i].ld => m[b2[i]] = d[i].of)
  BY DEF Covers
<1>1. c \in Slots /\ Dist(from, c) = n - 1
  BY RxAssumption, AdvanceType, DistAdvance
<1>2. Dist(from, i) \in Nat
  BY DistType DEF Slots
<1>3. CASE i = c
  BY <1>1, <1>3
<1>4. CASE i # c
  <2>1. Dist(from, i) # n - 1
    BY <1>1, <1>4, DistInjective
  <2>2. (Dist(from, i) < n - 1) = (Dist(from, i) < n)
    BY <1>2, <2>1
  <2> QED
    BY <1>4, <2>2 DEF Covers
<1> QED
  BY <1>3, <1>4

\* The refill arms the first slot of the window.
LEMMA CoversRefill ==
    ASSUME NEW d \in [Slots -> DescType], NEW b \in [Slots -> Nat], NEW m, NEW m2, NEW skb,
           NEW from \in Slots, NEW n \in 1 .. RX_DESC_CNT,
           Covers(d, b, m, from, n), skb # 0,
           \A i \in Slots : b[i] # 0 => m2[b[i]] = m[b[i]]
    PROVE  Covers([d EXCEPT ![from] = Armed(skb)], [b EXCEPT ![from] = skb], m2,
                  Advance(from, 1), n - 1)
<1> DEFINE d2 == [d EXCEPT ![from] = Armed(skb)]
           b2 == [b EXCEPT ![from] = skb]
<1> SUFFICES ASSUME NEW i \in Slots
             PROVE  IF Dist(Advance(from, 1), i) < n - 1 THEN ~d2[i].own
                    ELSE b2[i] # 0 /\ d2[i].addr = b2[i] /\ (d2[i].ld => m2[b2[i]] = d2[i].of)
  BY DEF Covers
<1>1. Dist(from, i) \in Nat
  BY DistType DEF Slots
<1>2. CASE i = from
  <2>1. Dist(Advance(from, 1), i) = RX_DESC_CNT - 1
    BY <1>2, DistFrom
  <2>2. ~(Dist(Advance(from, 1), i) < n - 1)
    BY <2>1, RxAssumption
  <2> QED
    BY <1>2, <2>2, skb # 0 DEF Armed
<1>3. CASE i # from
  <2>1. Dist(Advance(from, 1), i) = Dist(from, i) - 1
    BY <1>3, DistFrom
  <2>2. (Dist(Advance(from, 1), i) < n - 1) = (Dist(from, i) < n)
    BY <1>1, <2>1
  <2>3. d2[i] = d[i] /\ b2[i] = b[i]
    BY <1>3
  <2> QED
    BY <2>2, <2>3 DEF Covers
<1> QED
  BY <1>2, <1>3

\* The DMA completes a slot of its own, which is outside the window.
LEMMA CoversDma ==
    ASSUME NEW d \in [Slots -> DescType], NEW b \in [Slots -> Nat], NEW m, NEW m2, NEW r,
           NEW from \in Slots, NEW n, NEW j \in Slots,
           Covers(d, b, m, from, n), d[j].own,
           ~r.own, r.addr = d[j].addr, r.ld => m2[b[j]] = r.of,
           \A i \in Slots : i # j /\ b[i] # 0 => m2[b[i]] = m[b[i]]
    PROVE  Covers([d EXCEPT ![j] = r], b, m2, from, n)
BY DEF Covers

\* The DMA owns no slot of the window.
LEMMA CoversOwned ==
    ASSUME NEW d, NEW b, NEW m, NEW from, NEW n, NEW j \in Slots,
           Covers(d, b, m, from, n), d[j].own
    PROVE  b[j] # 0 /\ d[j].addr = b[j]
BY DEF Covers

\* The slot after the window has an skb.
LEMMA CoversNext ==
    ASSUME NEW d, NEW b, NEW m, NEW from \in Slots, NEW n \in 0 .. RX_DESC_CNT - 1, NEW c,
           Covers(d, b, m, from, n), c = Advance(from, n)
    PROVE  /\ c \in Slots /\ b[c] # 0 /\ d[c].addr = b[c]
           /\ d[c].ld => m[b[c]] = d[c].of
<1>1. c \in Slots /\ Dist(from, c) = n
  BY RxAssumption, AdvanceType, DistAdvance
<1>2. ~(Dist(from, c) < n)
  BY <1>1
<1> QED
  BY <1>1, <1>2 DEF Covers

-----------------------------------------------------------------------------
(* The initial state.                                                      *)

LEMMA ArmedType ==
    ASSUME NEW skb \in Nat
    PROVE  Armed(skb) \in DescType
BY DEF Armed, DescType

LEMMA RxInit == Init => RxInv
<1> SUFFICES ASSUME Init PROVE RxInv
  OBVIOUS
<1> USE RxAssumption
<1>1. 0 \in Slots /\ RX_DESC_CNT - 1 \in Slots
  BY DEF Slots
<1>2. mem \in [1 .. RX_DESC_CNT -> Nat] /\ mem \in Seq(Nat) /\ Len(mem) = RX_DESC_CNT
  BY DEF Init
<1>3. desc \in [Slots -> DescType] /\ buf \in [Slots -> Nat]
  BY ArmedType DEF Init, Slots
<1>4. <<>> \in Seq(Kinds) /\ <<>> \in Seq([of : Int, skb : Nat, stamp : Int])
  OBVIOUS
<1>5. poll \in PollType /\ dma \in DmaType
  BY <1>1 DEF Init, PollType, DmaType
<1>6. RingTypes
  <2>1. /\ pc = "idle" /\ cur_rx = 0 /\ dirty_rx = 0 /\ skb_realloc_idx = 0
        /\ hwts_rx_en = FALSE /\ frames = <<>> /\ delivered = <<>> /\ lost = 0
        /\ fate \in [Frames -> {"wire", "ring", "stack", "lost"}]
    BY DEF Init
  <2>2. 0 \in 0 .. MIN_RX_DESC_CNT + 1 /\ 0 \in 0 .. MaxLost
    OBVIOUS
  <2> QED
    BY <1>1, <1>2, <1>3, <1>4, <1>5, <2>1, <2>2 DEF RingTypes
<1>7. Consumed /\ InHand
  BY DEF Init, Consumed, InHand
<1>8. Behind = 0 /\ Front = 0
  BY DEF Init, Behind, Front
<1>9. WindowKept
  BY <1>8 DEF Init, WindowKept, Advance
<1>10. \A i \in Slots : Dist(0, i) \in Nat
  BY <1>1, DistType DEF Slots
<1>11. Window
  <2>1. ASSUME NEW i \in Slots
        PROVE  ~(Dist(0, i) < 0) /\ buf[i] # 0 /\ desc[i].addr = buf[i] /\ ~desc[i].ld
    BY <1>10 DEF Init, Armed, Slots
  <2>2. skb_realloc_idx = 0
    BY DEF Init
  <2> QED
    BY <1>8, <2>1, <2>2 DEF Window, Covers
<1>12. \A i \in Slots : buf[i] = i + 1
  BY DEF Init
<1>13. delivered = <<>>
  BY DEF Init
<1>14. Allocated
  BY <1>2, <1>12, <1>13 DEF Allocated, Slots
<1>15. SkbsApart /\ StackIntact
  BY <1>12, <1>13 DEF SkbsApart, StackIntact, Slots
<1> QED
  BY <1>6, <1>7, <1>9, <1>11, <1>14, <1>15 DEF RxInv

-----------------------------------------------------------------------------
(* Every step keeps the types and the counts of consumed descriptors.      *)

LEMMA NextDescriptorType ==
    ASSUME RingTypes, dirty_rx \in 0 .. MIN_RX_DESC_CNT, NEW n \in Nat, NextDescriptor(n)
    PROVE  /\ dirty_rx' = dirty_rx + 1
           /\ dirty_rx' \in 1 .. MIN_RX_DESC_CNT + 1
           /\ pc' \in {"loop", "refill"}
           /\ poll' \in PollType
           /\ cur_rx' \in Slots
           /\ pc' = "loop" => dirty_rx' < MIN_RX_DESC_CNT
           /\ pc' = "refill" => poll'.i = 0
<1> USE RxAssumption
<1>1. Advance(cur_rx, 1) \in Slots
  BY AdvanceOne DEF RingTypes
<1>2. poll \in PollType /\ cur_rx \in Slots
  BY DEF RingTypes
<1>3. dirty_rx' = dirty_rx + 1 /\ dirty_rx + 1 \in 1 .. MIN_RX_DESC_CNT + 1
  BY DEF NextDescriptor
<1>4. CASE dirty_rx + 1 >= MIN_RX_DESC_CNT
  <2>1. /\ pc' = "refill" /\ cur_rx' = cur_rx
        /\ poll' = [poll EXCEPT !.received = n, !.i = 0, !.then = "loop"]
    BY <1>4 DEF NextDescriptor
  <2>2. poll' \in PollType /\ poll'.i = 0
    BY <1>2, <2>1 DEF PollType
  <2> QED
    BY <1>2, <1>3, <2>1, <2>2
<1>5. CASE dirty_rx + 1 < MIN_RX_DESC_CNT
  <2>1. /\ pc' = "loop" /\ poll' = [poll EXCEPT !.received = n]
        /\ cur_rx' = Advance(cur_rx, 1)
    BY <1>5 DEF NextDescriptor
  <2>2. poll' \in PollType
    BY <1>2, <2>1 DEF PollType
  <2> QED
    BY <1>1, <1>3, <1>5, <2>1, <2>2
<1> QED
  BY <1>4, <1>5

LEMMA LoopEndsType ==
    ASSUME RingTypes, NEW n \in Nat, LoopEnds(n)
    PROVE  /\ pc' \in {"idle", "refill"} /\ poll' \in PollType
           /\ pc' = "idle" => n = 0
           /\ pc' = "refill" => poll'.i = 0
<1>1. poll \in PollType
  BY DEF RingTypes
<1>2. CASE n > 0
  <2>1. pc' = "refill" /\ poll' = [poll EXCEPT !.i = 0, !.then = "idle"]
    BY <1>2 DEF LoopEnds
  <2>2. poll' \in PollType /\ poll'.i = 0
    BY <1>1, <2>1 DEF PollType
  <2> QED
    BY <2>1, <2>2
<1>3. CASE ~(n > 0)
  BY <1>1, <1>3 DEF LoopEnds
<1> QED
  BY <1>2, <1>3

LEMMA ReceiveType ==
    ASSUME RingTypes, NEW f \in Int, NEW skb \in Nat, NEW stamp \in Int, ReceiveSkb(f, skb, stamp)
    PROVE  /\ delivered' \in Seq([of : Int, skb : Nat, stamp : Int])
           /\ fate' \in [Frames -> {"wire", "ring", "stack", "lost"}]
<1> DEFINE r == [of |-> f, skb |-> skb, stamp |-> stamp]
           R == [of : Int, skb : Nat, stamp : Int]
<1>1. r \in R
  OBVIOUS
<1>2. delivered \in Seq(R) /\ fate \in [Frames -> {"wire", "ring", "stack", "lost"}]
  BY DEF RingTypes
<1>3. delivered' = Append(delivered, r) /\ fate' = [fate EXCEPT ![f] = "stack"]
  BY DEF ReceiveSkb
<1> HIDE DEF r, R
<1>4. delivered' \in Seq(R)
  BY <1>1, <1>2, <1>3
<1> QED
  BY <1>2, <1>3, <1>4 DEF R

LEMMA SlotTypes ==
    ASSUME RingTypes, NEW i \in Slots
    PROVE  desc[i] \in DescType /\ buf[i] \in Nat /\ desc[i].of \in Int /\ desc[i].addr \in Nat
BY DEF RingTypes, DescType

LEMMA ArrivesType ==
    ASSUME RingTypes, NEW k \in Kinds, NEW where \in {"ring", "lost"}, Arrives(k, where)
    PROVE  /\ frames' \in Seq(Kinds) /\ Len(frames') > 0
           /\ fate' \in [Frames -> {"wire", "ring", "stack", "lost"}]
<1>1. frames \in Seq(Kinds) /\ fate \in [Frames -> {"wire", "ring", "stack", "lost"}]
  BY DEF RingTypes
<1>2. frames' = Append(frames, k) /\ fate' = [fate EXCEPT ![Len(frames) + 1] = where]
  BY DEF Arrives
<1>3. frames' \in Seq(Kinds) /\ Len(frames') = Len(frames) + 1 /\ Len(frames) \in Nat
  BY <1>1, <1>2
<1>4. fate' \in [Frames -> {"wire", "ring", "stack", "lost"}]
  BY <1>1, <1>2
<1> QED
  BY <1>3, <1>4

LEMMA MemEdit ==
    ASSUME NEW m \in Seq(Nat), NEW a, NEW f \in Nat
    PROVE  [m EXCEPT ![a] = f] \in Seq(Nat) /\ Len([m EXCEPT ![a] = f]) = Len(m)
<1>1. m \in [1 .. Len(m) -> Nat]
  OBVIOUS
<1>2. [m EXCEPT ![a] = f] \in [1 .. Len(m) -> Nat]
  BY <1>1
<1> QED
  BY <1>2

\* A turn of the loop that moves on to the next descriptor.
LEMMA MovedOnType ==
    ASSUME RingTypes, Consumed, dirty_rx \in 0 .. MIN_RX_DESC_CNT,
           NEW n \in Nat, NextDescriptor(n),
           buf' \in [Slots -> Nat],
           delivered' \in Seq([of : Int, skb : Nat, stamp : Int]),
           fate' \in [Frames -> {"wire", "ring", "stack", "lost"}],
           UNCHANGED <<desc, skb_realloc_idx, hwts_rx_en, dma, mem, frames, lost>>
    PROVE  RingTypes' /\ Consumed'
<1>1. /\ dirty_rx' \in 1 .. MIN_RX_DESC_CNT + 1 /\ pc' \in {"loop", "refill"}
      /\ poll' \in PollType /\ cur_rx' \in Slots
      /\ pc' = "loop" => dirty_rx' < MIN_RX_DESC_CNT
      /\ pc' = "refill" => poll'.i = 0
  BY NextDescriptorType
<1>2. dirty_rx' \in 0 .. MIN_RX_DESC_CNT + 1 /\ 0 <= dirty_rx'
  BY <1>1, RxAssumption
<1>3. RingTypes'
  BY <1>1, <1>2 DEF RingTypes
<1>4. Consumed'
  BY <1>1, <1>2 DEF Consumed
<1> QED
  BY <1>3, <1>4

\* A step that ends the loop, with n descriptors consumed.
LEMMA LoopEndedType ==
    ASSUME RingTypes, Consumed, NEW n \in 0 .. MIN_RX_DESC_CNT + 1,
           LoopEnds(n), dirty_rx' = n,
           buf' \in [Slots -> Nat], cur_rx' \in Slots,
           UNCHANGED <<desc, skb_realloc_idx, hwts_rx_en, dma, mem, frames, fate,
                       delivered, lost>>
    PROVE  RingTypes' /\ Consumed'
<1>1. /\ pc' \in {"idle", "refill"} /\ poll' \in PollType
      /\ pc' = "idle" => n = 0
      /\ pc' = "refill" => poll'.i = 0
  BY LoopEndsType
<1>2. 0 <= n
  BY RxAssumption
<1>3. RingTypes'
  BY <1>1 DEF RingTypes
<1>4. Consumed'
  BY <1>1, <1>2 DEF Consumed
<1> QED
  BY <1>3, <1>4

LEMMA RxTypeStep == RxInv /\ [Next]_vars => RingTypes' /\ Consumed'
<1> SUFFICES ASSUME RingTypes, Consumed, [Next]_vars PROVE RingTypes' /\ Consumed'
  BY DEF RxInv
<1> USE RxAssumption
<1>0. /\ cur_rx \in Slots /\ poll \in PollType /\ dirty_rx \in Nat
      /\ poll.received \in Nat /\ poll.skb \in Nat /\ poll.of \in Int /\ poll.i \in Nat
  BY DEF RingTypes, PollType
<1>1. CASE PollStart
  <2>1. [poll EXCEPT !.received = 0] \in PollType
    BY <1>0 DEF PollType
  <2> QED
    BY <1>1, <2>1 DEF PollStart, ring, RingTypes, Consumed
<1>2. CASE RxGood
  <2>1. pc = "loop" /\ dirty_rx \in 0 .. MIN_RX_DESC_CNT
    BY <1>0, <1>2 DEF RxGood, Available, Consumed
  <2>2. ReceiveSkb(desc[cur_rx].of, buf[cur_rx], 0) /\ NextDescriptor(poll.received + 1)
    BY <1>2 DEF RxGood
  <2>3. /\ delivered' \in Seq([of : Int, skb : Nat, stamp : Int])
        /\ fate' \in [Frames -> {"wire", "ring", "stack", "lost"}]
    BY <1>0, <2>2, SlotTypes, ReceiveType
  <2>4. buf' \in [Slots -> Nat]
    BY <1>2 DEF RxGood, RingTypes
  <2>5. UNCHANGED <<desc, skb_realloc_idx, hwts_rx_en, dma, mem, frames, lost>>
    BY <1>2 DEF RxGood
  <2>6. poll.received + 1 \in Nat
    BY <1>0
  <2> QED
    BY <2>1, <2>2, <2>3, <2>4, <2>5, <2>6, MovedOnType
<1>3. CASE RxBad
  <2>1. pc = "loop" /\ dirty_rx \in 0 .. MIN_RX_DESC_CNT
    BY <1>0, <1>3 DEF RxBad, Available, Consumed
  <2>2. NextDescriptor(poll.received)
    BY <1>3 DEF RxBad
  <2>3. fate' \in [Frames -> {"wire", "ring", "stack", "lost"}]
    BY <1>3 DEF RxBad, RingTypes
  <2>4. buf' \in [Slots -> Nat] /\ delivered' \in Seq([of : Int, skb : Nat, stamp : Int])
    BY <1>3 DEF RxBad, RingTypes
  <2>5. UNCHANGED <<desc, skb_realloc_idx, hwts_rx_en, dma, mem, frames, lost>>
    BY <1>3 DEF RxBad
  <2> QED
    BY <1>0, <2>1, <2>2, <2>3, <2>4, <2>5, MovedOnType
<1>4. CASE RxStampOops \/ RxWantStamp
  <2>1. TakeStamped /\ dirty_rx < MIN_RX_DESC_CNT
    BY <1>4 DEF RxStampOops, RxWantStamp, TakeStamped, Available, Consumed
  <2>2. [poll EXCEPT !.skb = buf[cur_rx], !.of = desc[cur_rx].of] \in PollType
    BY <1>0, SlotTypes DEF PollType
  <2>3. /\ buf' \in [Slots -> Nat] /\ poll' \in PollType
        /\ UNCHANGED <<desc, skb_realloc_idx, hwts_rx_en, dma, mem, frames, fate, delivered, lost>>
    BY <2>1, <2>2 DEF TakeStamped, RingTypes
  <2>4. cur_rx' \in Slots
    BY <1>0, <1>4, AdvanceOne DEF RxStampOops, RxWantStamp
  <2>5. /\ dirty_rx' \in 0 .. MIN_RX_DESC_CNT + 1
        /\ pc' = "stamp" => dirty_rx' >= 1 /\ dirty_rx' <= MIN_RX_DESC_CNT
        /\ pc' = "oops" => dirty_rx' < MIN_RX_DESC_CNT
    BY <1>0, <1>4, <2>1 DEF RxStampOops, RxWantStamp
  <2>6. pc' \in {"stamp", "oops"}
    BY <1>4 DEF RxStampOops, RxWantStamp
  <2>7. RingTypes'
    BY <2>3, <2>4, <2>5, <2>6 DEF RingTypes
  <2>8. Consumed'
    BY <2>3, <2>5, <2>6 DEF Consumed
  <2> QED
    BY <2>7, <2>8
<1>5. CASE RxStamp
  <2>1. dirty_rx \in 0 .. MIN_RX_DESC_CNT
    BY <1>0, <1>5 DEF RxStamp, Consumed
  <2> DEFINE stamp == IF desc[cur_rx].corrupt THEN 0 ELSE desc[cur_rx].of
  <2>2. ReceiveSkb(poll.of, poll.skb, stamp) /\ NextDescriptor(poll.received + 1)
    BY <1>5 DEF RxStamp
  <2>3. stamp \in Int
    BY <1>0, SlotTypes
  <2>4. /\ delivered' \in Seq([of : Int, skb : Nat, stamp : Int])
        /\ fate' \in [Frames -> {"wire", "ring", "stack", "lost"}]
    BY <1>0, <2>2, <2>3, ReceiveType
  <2>5. buf' \in [Slots -> Nat]
    BY <1>5 DEF RxStamp, RingTypes
  <2>6. UNCHANGED <<desc, skb_realloc_idx, hwts_rx_en, dma, mem, frames, lost>>
    BY <1>5 DEF RxStamp
  <2>7. poll.received + 1 \in Nat
    BY <1>0
  <2> QED
    BY <2>1, <2>2, <2>4, <2>5, <2>6, <2>7, MovedOnType
<1>6. CASE RxStampLate
  <2>1. dirty_rx - 1 \in Nat /\ dirty_rx - 1 \in 0 .. MIN_RX_DESC_CNT + 1
    BY <1>0, <1>6 DEF RxStampLate, Consumed
  <2>2. buf' \in [Slots -> Nat] /\ cur_rx' \in Slots
    BY <1>0, <1>6, RetreatType DEF RxStampLate, RingTypes
  <2>3. LoopEnds(dirty_rx - 1) /\ dirty_rx' = dirty_rx - 1
    BY <1>6 DEF RxStampLate
  <2>4. UNCHANGED <<desc, skb_realloc_idx, hwts_rx_en, dma, mem, frames, fate,
                    delivered, lost>>
    BY <1>6 DEF RxStampLate
  <2> QED
    BY <2>1, <2>2, <2>3, <2>4, LoopEndedType
<1>7. CASE RxEnd
  <2>1. LoopEnds(dirty_rx) /\ dirty_rx' = dirty_rx
    BY <1>7 DEF RxEnd, ring
  <2>2. dirty_rx \in 0 .. MIN_RX_DESC_CNT + 1
    BY DEF RingTypes
  <2>3. buf' \in [Slots -> Nat] /\ cur_rx' \in Slots
    BY <1>0, <1>7 DEF RxEnd, ring, RingTypes
  <2>4. UNCHANGED <<desc, skb_realloc_idx, hwts_rx_en, dma, mem, frames, fate,
                    delivered, lost>>
    BY <1>7 DEF RxEnd, ring
  <2> QED
    BY <2>1, <2>2, <2>3, <2>4, LoopEndedType
<1>8. CASE RefillOne
  <2> DEFINE new == buf[skb_realloc_idx] = 0
             skb == IF new THEN Len(mem) + 1 ELSE buf[skb_realloc_idx]
  <2>1. skb \in Nat /\ skb_realloc_idx \in Slots /\ mem \in Seq(Nat)
    BY DEF RingTypes
  <2>2. Armed(skb) \in DescType
    BY <2>1, ArmedType
  <2>3. mem' \in Seq(Nat)
    BY <1>8, <2>1 DEF RefillOne
  <2> HIDE DEF skb
  <2>4. /\ buf' = [buf EXCEPT ![skb_realloc_idx] = skb]
        /\ desc' = [desc EXCEPT ![skb_realloc_idx] = Armed(skb)]
    BY <1>8 DEF RefillOne, Rearmed, skb
  <2>5. buf' \in [Slots -> Nat] /\ desc' \in [Slots -> DescType]
    BY <2>1, <2>2, <2>4 DEF RingTypes
  <2>6. skb_realloc_idx' \in Slots
    <3>1. skb_realloc_idx' = Advance(skb_realloc_idx, 1)
      BY <1>8 DEF RefillOne
    <3> QED
      BY <2>1, <3>1, AdvanceOne
  <2>7. poll' = [poll EXCEPT !.i = @ + 1] /\ poll.i < dirty_rx /\ poll' \in PollType
    <3>1. poll' = [poll EXCEPT !.i = @ + 1] /\ poll.i < dirty_rx
      BY <1>8 DEF RefillOne
    <3>2. [poll EXCEPT !.i = @ + 1] \in PollType
      BY <1>0 DEF PollType
    <3> QED
      BY <3>1, <3>2
  <2>8. poll'.i = poll.i + 1
    BY <1>0, <2>7 DEF PollType
  <2>9. poll'.i <= dirty_rx
    BY <1>0, <2>7, <2>8
  <2>10. pc = "refill" /\ UNCHANGED <<pc, cur_rx, dirty_rx, hwts_rx_en, dma, frames, fate,
                                      delivered, lost>>
    BY <1>8 DEF RefillOne
  <2>11. RingTypes'
    BY <2>3, <2>5, <2>6, <2>7, <2>10 DEF RingTypes
  <2>12. Consumed'
    BY <2>9, <2>10 DEF Consumed
  <2> QED
    BY <2>11, <2>12
<1>9. CASE RefillEnd \/ RefillFails
  <2>1. RefillDone
    BY <1>9 DEF RefillEnd, RefillFails
  <2>2. lost' \in 0 .. MaxLost
    <3>1. lost \in 0 .. MaxLost
      BY DEF RingTypes
    <3>2. CASE RefillEnd
      BY <3>1, <3>2 DEF RefillEnd
    <3>3. CASE RefillFails
      BY <1>0, <3>1, <3>3 DEF RefillFails
    <3> QED
      BY <1>9, <3>2, <3>3
  <2>3. [dma EXCEPT !.run = TRUE, !.tail = Retreat(skb_realloc_idx)] \in DmaType
    BY RetreatType DEF RingTypes, DmaType
  <2>4. cur_rx' \in Slots
    BY <1>0, <2>1, AdvanceOne DEF RefillDone
  <2>5. dma'.left = dma.left /\ dma'.owes = dma.owes
    BY <2>1 DEF RefillDone, RingTypes, DmaType
  <2>6. pc' \in {"idle", "loop"} /\ dirty_rx' = 0
    BY <1>0, <2>1 DEF RefillDone, PollType
  <2>7. /\ dma' = [dma EXCEPT !.run = TRUE, !.tail = Retreat(skb_realloc_idx)]
        /\ UNCHANGED <<poll, desc, buf, skb_realloc_idx, hwts_rx_en, mem, frames, fate,
                       delivered>>
    BY <2>1 DEF RefillDone
  <2>8. RingTypes'
    <3>1. dma' \in DmaType
      BY <2>3, <2>7
    <3>2. /\ dirty_rx' \in 0 .. MIN_RX_DESC_CNT + 1
          /\ pc' \in {"idle", "loop", "stamp", "refill", "oops"}
      BY <2>6
    <3>3. /\ poll' = poll /\ desc' = desc /\ buf' = buf /\ skb_realloc_idx' = skb_realloc_idx
          /\ hwts_rx_en' = hwts_rx_en /\ mem' = mem /\ frames' = frames /\ fate' = fate
          /\ delivered' = delivered
      BY <2>7
    <3> QED
      BY <2>2, <2>4, <3>1, <3>2, <3>3 DEF RingTypes
  <2>9. Consumed'
    BY <2>5, <2>6, <2>7 DEF Consumed
  <2> QED
    BY <2>8, <2>9
<1>10. CASE HwtstampIoctl
  BY <1>10 DEF HwtstampIoctl, ring, RingTypes, Consumed
<1>11. ASSUME NEW k \in Kinds, FrameEnters(k) PROVE RingTypes' /\ Consumed'
  <2>1. k.descs \in Nat
    BY DEF KindType
  <2>2. [dma EXCEPT !.left = k.descs] \in DmaType
    BY <2>1 DEF RingTypes, DmaType
  <2>3. Arrives(k, "ring")
    BY <1>11 DEF FrameEnters
  <2> QED
    BY <1>11, <2>2, <2>3, ArrivesType DEF FrameEnters, Arrives, ring, RingTypes, Consumed
<1>12. ASSUME NEW k \in Kinds, FrameMissed(k) PROVE RingTypes' /\ Consumed'
  <2>1. Arrives(k, "lost")
    BY <1>12 DEF FrameMissed
  <2> QED
    BY <1>12, <2>1, ArrivesType DEF FrameMissed, Arrives, ring, RingTypes, Consumed
<1>13. CASE DmaSuspend
  <2>1. [dma EXCEPT !.run = FALSE] \in DmaType
    BY DEF RingTypes, DmaType
  <2>2. dma'.left = dma.left /\ dma'.owes = dma.owes
    BY <1>13 DEF DmaSuspend, RingTypes, DmaType
  <2> QED
    BY <1>13, <2>1, <2>2 DEF DmaSuspend, ring, RingTypes, Consumed
<1>14. CASE DmaData
  <2> DEFINE f == Len(frames)
             k == frames[f]
             last == dma.left = 1
             stamped == last /\ k.stamp # "none"
             addr == desc[dma.idx].addr
             r == [own |-> FALSE, addr |-> addr, ctxt |-> FALSE, ld |-> last,
                   es |-> last /\ k.es, tsa |-> stamped, corrupt |-> FALSE, of |-> f]
  <2>1. dma.left > 0 /\ f > 0 /\ f \in Nat /\ k \in Kinds /\ dma.idx \in Slots
    <3>1. frames \in Seq(Kinds) /\ dma.left \in Nat /\ dma.idx \in Slots
      BY DEF RingTypes, DmaType
    <3>2. dma.left > 0
      BY <1>14 DEF DmaData
    <3>3. f > 0
      BY <3>2 DEF Consumed
    <3> QED
      BY <3>1, <3>2, <3>3
  <2>2. k.es \in BOOLEAN
    BY <2>1 DEF KindType
  <2>3. addr \in Nat
    BY <2>1, SlotTypes
  <2>4. r \in DescType
    BY <2>1, <2>2, <2>3 DEF DescType
  <2>5. [dma EXCEPT !.idx = Advance(@, 1), !.left = @ - 1, !.owes = stamped] \in DmaType
    <3>1. stamped \in BOOLEAN
      BY <2>1
    <3>2. Advance(dma.idx, 1) \in Slots /\ dma.left - 1 \in Nat /\ dma \in DmaType
      BY <2>1, AdvanceOne DEF RingTypes, DmaType
    <3> HIDE DEF stamped
    <3> QED
      BY <3>1, <3>2 DEF DmaType
  <2>6. mem' \in Seq(Nat)
    BY <1>14, <2>1, MemEdit DEF DmaData, RingTypes
  <2>7. desc' = [desc EXCEPT ![dma.idx] = r]
    BY <1>14 DEF DmaData, WriteBack
  <2>8. desc' \in [Slots -> DescType]
    BY <2>4, <2>7 DEF RingTypes
  <2> QED
    BY <1>14, <2>1, <2>5, <2>6, <2>8 DEF DmaData, WriteBack, ring, RingTypes, Consumed
<1>15. CASE DmaStamp
  <2> DEFINE f == Len(frames)
             r == [own |-> FALSE, addr |-> desc[dma.idx].addr, ctxt |-> TRUE, ld |-> FALSE,
                   es |-> FALSE, tsa |-> FALSE, corrupt |-> frames[f].stamp = "corrupt", of |-> f]
  <2>1. dma.owes /\ f > 0 /\ f \in Nat /\ dma.idx \in Slots
    BY <1>15 DEF DmaStamp, Consumed, RingTypes, DmaType
  <2>2. r \in DescType
    BY <2>1, SlotTypes DEF DescType
  <2>3. [dma EXCEPT !.idx = Advance(@, 1), !.owes = FALSE] \in DmaType
    BY <2>1, AdvanceOne DEF RingTypes, DmaType
  <2>4. desc' = [desc EXCEPT ![dma.idx] = r]
    BY <1>15 DEF DmaStamp, WriteBack
  <2>5. desc' \in [Slots -> DescType]
    BY <2>2, <2>4 DEF RingTypes
  <2> QED
    BY <1>15, <2>1, <2>3, <2>5 DEF DmaStamp, WriteBack, ring, RingTypes, Consumed
<1>16. CASE UNCHANGED vars
  BY <1>16 DEF vars, ring, RingTypes, Consumed
<1> QED
  BY <1>1, <1>2, <1>3, <1>4, <1>5, <1>6, <1>7, <1>8, <1>9, <1>10, <1>11, <1>12,
     <1>13, <1>14, <1>15, <1>16
  DEF Next, Rx, Refill, Wire, Dma

-----------------------------------------------------------------------------
(* The four ways a step may move the window.                               *)

\* The poll takes the slot at the front.
Takes ==
    /\ Front = cur_rx /\ Behind \in 0 .. RX_DESC_CNT - 1
    /\ Behind' = Behind + 1 /\ Front' = Advance(Front, 1)
    /\ skb_realloc_idx' = skb_realloc_idx

\* The poll puts the slot behind the front back.
PutsBack ==
    /\ Front = cur_rx /\ Behind \in 1 .. RX_DESC_CNT
    /\ Behind' = Behind - 1 /\ Front' = Retreat(Front)
    /\ skb_realloc_idx' = skb_realloc_idx

\* The refill arms the first slot.
Arms ==
    /\ Behind \in 1 .. RX_DESC_CNT
    /\ Behind' = Behind - 1 /\ Front' = Front
    /\ skb_realloc_idx' = Advance(skb_realloc_idx, 1)

Stays == Behind' = Behind /\ Front' = Front /\ skb_realloc_idx' = skb_realloc_idx

\* Outside a refill Behind and Front say what the counters say.
LEMMA NotRefilling ==
    ASSUME RxInv, pc \notin {"refill", "oops"}
    PROVE  /\ Behind = lost + dirty_rx /\ Front = cur_rx
           /\ Behind \in 0 .. RX_DESC_CNT /\ cur_rx = Advance(skb_realloc_idx, Behind)
<1>1. Behind = lost + dirty_rx /\ Front = cur_rx
  BY DEF Behind, Front
<1>2. lost \in Nat /\ dirty_rx \in Nat
  BY RxAssumption DEF RxInv, RingTypes
<1>3. Behind <= RX_DESC_CNT /\ cur_rx = Advance(skb_realloc_idx, Behind)
  BY <1>1 DEF RxInv, WindowKept
<1> QED
  BY <1>1, <1>2, <1>3, RxAssumption

LEMMA NextDescriptorTakes ==
    ASSUME Bearable, RxInv, pc \in {"loop", "stamp"}, dirty_rx <= MIN_RX_DESC_CNT,
           NEW n \in Nat, NextDescriptor(n), UNCHANGED <<skb_realloc_idx, lost>>
    PROVE  Takes
<1> USE RxAssumption
<1>1. /\ Behind = lost + dirty_rx /\ Front = cur_rx
      /\ lost \in 0 .. MaxLost /\ dirty_rx \in 0 .. MIN_RX_DESC_CNT
  BY NotRefilling DEF RxInv, RingTypes
<1>2. Behind \in 0 .. RX_DESC_CNT - 1
  BY <1>1 DEF Bearable
<1>3. dirty_rx' = dirty_rx + 1
  BY DEF NextDescriptor
<1>4. CASE dirty_rx + 1 >= MIN_RX_DESC_CNT
  <2>1. pc' = "refill" /\ poll'.i = 0 /\ poll'.then = "loop" /\ cur_rx' = cur_rx
    BY <1>4 DEF NextDescriptor, RxInv, RingTypes, PollType
  <2>2. Behind' = lost + (dirty_rx + 1 - 0) /\ Front' = Advance(cur_rx, 1)
    BY <1>3, <2>1 DEF Behind, Front, Advance
  <2> QED
    BY <1>1, <1>2, <2>2 DEF Takes
<1>5. CASE ~(dirty_rx + 1 >= MIN_RX_DESC_CNT)
  <2>1. pc' = "loop" /\ cur_rx' = Advance(cur_rx, 1)
    BY <1>5 DEF NextDescriptor
  <2>2. Behind' = lost + (dirty_rx + 1) /\ Front' = Advance(cur_rx, 1)
    BY <1>3, <2>1 DEF Behind, Front
  <2> QED
    BY <1>1, <1>2, <2>2 DEF Takes
<1> QED
  BY <1>4, <1>5

LEMMA RxTakes ==
    ASSUME Bearable, RxInv, RxGood \/ RxBad \/ RxStampOops \/ RxWantStamp \/ RxStamp
    PROVE  Takes
<1> USE RxAssumption
<1>1. pc \in {"loop", "stamp"} /\ dirty_rx <= MIN_RX_DESC_CNT /\ poll.received \in Nat
  <2>1. pc = "loop" \/ pc = "stamp"
    BY DEF RxGood, RxBad, RxStampOops, RxWantStamp, TakeStamped, RxStamp, Available
  <2>2. dirty_rx \in Nat /\ poll.received \in Nat
    BY DEF RxInv, RingTypes, PollType
  <2> QED
    BY <2>1, <2>2 DEF RxInv, Consumed
<1>2. CASE RxGood
  BY <1>1, <1>2, NextDescriptorTakes DEF RxGood
<1>3. CASE RxBad
  BY <1>1, <1>3, NextDescriptorTakes DEF RxBad
<1>4. CASE RxStamp
  BY <1>1, <1>4, NextDescriptorTakes DEF RxStamp
<1>5. CASE RxStampOops \/ RxWantStamp
  <2>0. TakeStamped
    BY <1>5 DEF RxStampOops, RxWantStamp
  <2>1. /\ Behind = lost + dirty_rx /\ Front = cur_rx
        /\ lost \in 0 .. MaxLost /\ dirty_rx \in 0 .. MIN_RX_DESC_CNT - 1
    <3>1. pc = "loop"
      BY <2>0 DEF TakeStamped, Available
    <3>2. lost \in 0 .. MaxLost /\ dirty_rx \in Nat /\ dirty_rx < MIN_RX_DESC_CNT
      BY <3>1 DEF RxInv, RingTypes, Consumed
    <3> QED
      BY <3>1, <3>2, NotRefilling
  <2>2. Behind \in 0 .. RX_DESC_CNT - 1
    BY <2>1 DEF Bearable
  <2>3. lost' = lost /\ skb_realloc_idx' = skb_realloc_idx
    BY <2>0 DEF TakeStamped
  <2>4. Behind' = lost + (dirty_rx + 1) /\ Front' = Advance(cur_rx, 1)
    <3>1. CASE RxStampOops
      <4>1. pc' = "oops" /\ dirty_rx' = dirty_rx /\ cur_rx' = cur_rx
        BY <3>1 DEF RxStampOops
      <4> QED
        BY <2>3, <4>1 DEF Behind, Front, Advance
    <3>2. CASE RxWantStamp
      <4>1. pc' = "stamp" /\ dirty_rx' = dirty_rx + 1 /\ cur_rx' = Advance(cur_rx, 1)
        BY <3>2 DEF RxWantStamp
      <4> QED
        BY <2>3, <4>1 DEF Behind, Front
    <3> QED
      BY <1>5, <3>1, <3>2
  <2> QED
    BY <2>1, <2>2, <2>3, <2>4 DEF Takes
<1> QED
  BY <1>2, <1>3, <1>4, <1>5

\* The end of the loop starts a refill of all that was consumed, or none.
LEMMA LoopEndsBehind ==
    ASSUME RingTypes, NEW n \in Nat, LoopEnds(n), dirty_rx' = n, lost' = lost
    PROVE  Behind' = lost + n /\ Front' = cur_rx'
<1>1. CASE n > 0
  <2>1. pc' = "refill" /\ poll'.i = 0 /\ poll'.then = "idle"
    BY <1>1 DEF LoopEnds, RingTypes, PollType
  <2>2. Behind' = lost + (n - 0)
    BY <2>1 DEF Behind
  <2>3. Front' = cur_rx'
    BY <2>1 DEF Front
  <2> QED
    BY <2>2, <2>3
<1>2. CASE ~(n > 0)
  <2>1. pc' = "idle"
    BY <1>2 DEF LoopEnds
  <2> QED
    BY <2>1 DEF Behind, Front
<1> QED
  BY <1>1, <1>2

LEMMA StampLatePutsBack ==
    ASSUME RxInv, RxStampLate
    PROVE  PutsBack
<1>1. /\ Behind = lost + dirty_rx /\ Front = cur_rx /\ Behind \in 0 .. RX_DESC_CNT
      /\ lost \in Nat /\ dirty_rx \in Nat /\ dirty_rx >= 1
  BY NotRefilling, RxAssumption DEF RxStampLate, RxInv, RingTypes, Consumed
<1>2. dirty_rx - 1 \in Nat /\ Behind \in 1 .. RX_DESC_CNT
  BY <1>1, RxAssumption
<1>3. /\ LoopEnds(dirty_rx - 1) /\ dirty_rx' = dirty_rx - 1 /\ lost' = lost
      /\ cur_rx' = Retreat(cur_rx) /\ skb_realloc_idx' = skb_realloc_idx
  BY DEF RxStampLate
<1>4. Behind' = lost + (dirty_rx - 1) /\ Front' = Retreat(cur_rx)
  BY <1>2, <1>3, LoopEndsBehind DEF RxInv
<1> QED
  BY <1>1, <1>2, <1>3, <1>4 DEF PutsBack

LEMMA RefillArms ==
    ASSUME RxInv, RefillOne
    PROVE  Arms
<1>1. /\ lost \in Nat /\ dirty_rx \in Nat /\ poll.i \in Nat /\ poll.i < dirty_rx
      /\ pc = "refill" /\ pc' = "refill" /\ lost' = lost /\ dirty_rx' = dirty_rx
      /\ cur_rx' = cur_rx /\ poll'.i = poll.i + 1 /\ poll'.then = poll.then
      /\ skb_realloc_idx' = Advance(skb_realloc_idx, 1)
  BY RxAssumption DEF RefillOne, RxInv, RingTypes, PollType
<1>2. Behind = lost + (dirty_rx - poll.i) /\ Behind' = lost + (dirty_rx - (poll.i + 1))
  BY <1>1 DEF Behind
<1>3. Behind <= RX_DESC_CNT
  BY DEF RxInv, WindowKept
<1>4. Front' = Front
  BY <1>1 DEF Front
<1> QED
  BY <1>1, <1>2, <1>3, <1>4, RxAssumption DEF Arms

LEMMA RefillDoneStays ==
    ASSUME RxInv, RefillEnd \/ RefillFails
    PROVE  Stays
<1>1. /\ lost \in Nat /\ dirty_rx \in Nat /\ poll.i \in Nat /\ pc = "refill"
      /\ dirty_rx' = 0 /\ pc' = poll.then /\ poll.then \in {"idle", "loop"}
      /\ cur_rx' = IF poll.then = "loop" THEN Advance(cur_rx, 1) ELSE cur_rx
      /\ skb_realloc_idx' = skb_realloc_idx
  BY RxAssumption DEF RefillEnd, RefillFails, RefillDone, RxInv, RingTypes, PollType
<1>2. Behind = lost + (dirty_rx - poll.i) /\ Behind' = lost' + 0
  BY <1>1 DEF Behind
<1>3. Front' = Front
  BY <1>1 DEF Front
<1>4. lost' = lost + (dirty_rx - poll.i)
  BY <1>1 DEF RefillEnd, RefillFails
<1> QED
  BY <1>1, <1>2, <1>3, <1>4 DEF Stays

LEMMA OthersStay ==
    ASSUME RxInv,
           \/ PollStart \/ RxEnd \/ HwtstampIoctl \/ Wire \/ Dma \/ UNCHANGED vars
    PROVE  Stays
<1>1. CASE PollStart
  <2>1. pc = "idle" /\ pc' = "loop" /\ UNCHANGED <<lost, dirty_rx, cur_rx, skb_realloc_idx>>
    BY <1>1 DEF PollStart, ring
  <2> QED
    BY <2>1 DEF Stays, Behind, Front
<1>2. CASE RxEnd
  <2>1. /\ LoopEnds(dirty_rx) /\ pc = "loop" /\ UNCHANGED <<lost, dirty_rx, cur_rx, skb_realloc_idx>>
    BY <1>2 DEF RxEnd, ring
  <2>2. dirty_rx \in Nat
    BY RxAssumption DEF RxInv, RingTypes
  <2>3. Behind' = lost + dirty_rx /\ Front' = cur_rx
    BY <2>1, <2>2, LoopEndsBehind DEF RxInv
  <2>4. Behind = lost + dirty_rx /\ Front = cur_rx
    BY <2>1 DEF Behind, Front
  <2> QED
    BY <2>1, <2>3, <2>4 DEF Stays
<1>3. CASE HwtstampIoctl \/ Wire \/ Dma \/ UNCHANGED vars
  <2>1. UNCHANGED <<pc, poll, lost, dirty_rx, cur_rx, skb_realloc_idx>>
    BY <1>3 DEF HwtstampIoctl, Wire, FrameEnters, FrameMissed, Arrives, Dma, DmaSuspend,
       DmaData, DmaStamp, WriteBack, vars, ring
  <2> QED
    BY <2>1 DEF Stays, Behind, Front, Advance
<1> QED
  BY <1>1, <1>2, <1>3

LEMMA RxMoves ==
    ASSUME Bearable, RxInv, [Next]_vars
    PROVE  Takes \/ PutsBack \/ Arms \/ Stays
BY RxTakes, StampLatePutsBack, RefillArms, RefillDoneStays, OthersStay
DEF Next, Rx, Refill

LEMMA RxWindowKeptStep ==
    ASSUME Bearable, RxInv, [Next]_vars
    PROVE  WindowKept'
<1> USE RxAssumption
<1>1. /\ skb_realloc_idx \in Slots /\ Behind <= RX_DESC_CNT
      /\ Front = Advance(skb_realloc_idx, Behind)
  BY DEF RxInv, RingTypes, WindowKept
<1>2. CASE Takes
  <2>1. /\ Behind \in 0 .. RX_DESC_CNT - 1
        /\ Behind' = Behind + 1 /\ skb_realloc_idx' = skb_realloc_idx
        /\ Front' = Advance(Advance(skb_realloc_idx, Behind), 1)
    BY <1>1, <1>2 DEF Takes
  <2>2. Front' = Advance(skb_realloc_idx, Behind + 1)
    BY <1>1, <2>1, AdvanceNext
  <2> QED
    BY <1>1, <2>1, <2>2 DEF WindowKept, Advance, Slots
<1>3. CASE PutsBack
  <2>1. /\ Behind \in 1 .. RX_DESC_CNT
        /\ Behind' = Behind - 1 /\ skb_realloc_idx' = skb_realloc_idx
        /\ Front' = Retreat(Advance(skb_realloc_idx, Behind))
    BY <1>1, <1>3 DEF PutsBack
  <2>2. Front' = Advance(skb_realloc_idx, Behind - 1)
    BY <1>1, <2>1, AdvancePrevious
  <2> QED
    BY <1>1, <2>1, <2>2 DEF WindowKept, Advance, Slots
<1>4. CASE Arms
  <2>1. /\ Behind \in 1 .. RX_DESC_CNT
        /\ Behind' = Behind - 1 /\ Front' = Advance(skb_realloc_idx, Behind)
        /\ skb_realloc_idx' = Advance(skb_realloc_idx, 1)
    BY <1>1, <1>4 DEF Arms
  <2>2. Advance(skb_realloc_idx, 1) \in Slots
    BY <1>1, AdvanceOne
  <2>3. Front' = Advance(Advance(skb_realloc_idx, 1), Behind - 1)
    BY <1>1, <2>1, AdvanceFrom
  <2> DEFINE next == Advance(skb_realloc_idx, 1)
  <2> HIDE DEF next
  <2>4. next \in Slots /\ Front' = Advance(next, Behind - 1) /\ skb_realloc_idx' = next
    BY <2>1, <2>2, <2>3 DEF next
  <2> QED
    BY <1>1, <2>1, <2>4 DEF WindowKept, Advance, Slots
<1>5. CASE Stays
  BY <1>1, <1>5 DEF Stays, WindowKept, Advance
<1> QED
  BY <1>2, <1>3, <1>4, <1>5, RxMoves

-----------------------------------------------------------------------------
(* What the descriptors of the window and the skbs have become.            *)

LEMMA WindowNext ==
    ASSUME Covers(desc', buf', mem', skb_realloc_idx', Behind')
    PROVE  Window'
BY DEF Window, Covers, Dist

\* Every skb of the ring was allocated, and appending to mem keeps its contents.
LEMMA Contents ==
    ASSUME RxInv
    PROVE  /\ mem \in Seq(Nat) /\ Len(mem) \in Nat
           /\ \A i \in Slots : buf[i] \in Nat /\ (buf[i] # 0 => buf[i] \in 1 .. Len(mem))
           /\ \A k \in 1 .. Len(mem) : Append(mem, 0)[k] = mem[k]
           /\ Len(Append(mem, 0)) = Len(mem) + 1
BY DEF RxInv, RingTypes, Allocated

\* What a step of the refill does.
LEMMA RefillEffect ==
    ASSUME RxInv, RefillOne
    PROVE  \E skb \in Nat :
              /\ buf' = [buf EXCEPT ![skb_realloc_idx] = skb]
              /\ desc' = [desc EXCEPT ![skb_realloc_idx] = Armed(skb)]
              /\ \/ skb = Len(mem) + 1 /\ mem' = Append(mem, 0)
                 \/ skb = buf[skb_realloc_idx] /\ skb # 0 /\ mem' = mem
<1>1. skb_realloc_idx \in Slots
  BY DEF RxInv, RingTypes
<1>2. CASE buf[skb_realloc_idx] = 0
  <2> DEFINE skb == Len(mem) + 1
  <2>1. /\ buf' = [buf EXCEPT ![skb_realloc_idx] = skb]
        /\ desc' = [desc EXCEPT ![skb_realloc_idx] = Armed(skb)]
        /\ mem' = Append(mem, 0)
    BY <1>2 DEF RefillOne, Rearmed
  <2>2. skb \in Nat
    BY Contents
  <2> QED
    BY <2>1, <2>2
<1>3. CASE buf[skb_realloc_idx] # 0
  BY <1>1, <1>3, Contents DEF RefillOne, Rearmed
<1> QED
  BY <1>2, <1>3

\* What a step of the DMA does to the descriptor it owns, and to its buffer.
LEMMA DmaEffect ==
    ASSUME RxInv, DmaData \/ DmaStamp
    PROVE  \E r : /\ dma.idx \in Slots /\ desc[dma.idx].own
                  /\ buf[dma.idx] # 0 /\ desc[dma.idx].addr = buf[dma.idx]
                  /\ desc' = [desc EXCEPT ![dma.idx] = r]
                  /\ ~r.own /\ r.addr = desc[dma.idx].addr
                  /\ \/ ~r.ld /\ mem' = mem
                     \/ mem' = [mem EXCEPT ![buf[dma.idx]] = r.of]
                  /\ UNCHANGED <<pc, poll, buf, ring, delivered, lost>>
<1>1. dma.idx \in Slots /\ desc[dma.idx].own
  BY DEF DmaData, DmaStamp, WriteBack, RxInv, RingTypes, DmaType
<1>2. buf[dma.idx] # 0 /\ desc[dma.idx].addr = buf[dma.idx]
  BY <1>1, CoversOwned DEF RxInv, Window
<1>3. CASE DmaData
  <2> DEFINE f == Len(frames)
             last == dma.left = 1
             stamped == last /\ frames[f].stamp # "none"
             r == [own |-> FALSE, addr |-> desc[dma.idx].addr, ctxt |-> FALSE, ld |-> last,
                   es |-> last /\ frames[f].es, tsa |-> stamped, corrupt |-> FALSE, of |-> f]
  <2>1. /\ desc' = [desc EXCEPT ![dma.idx] = r]
        /\ mem' = [mem EXCEPT ![desc[dma.idx].addr] = f]
        /\ UNCHANGED <<pc, poll, buf, ring, delivered, lost>>
    BY <1>3 DEF DmaData, WriteBack
  <2>2. ~r.own /\ r.addr = desc[dma.idx].addr /\ r.of = f
    OBVIOUS
  <2> HIDE DEF r, f
  <2> QED
    BY <1>1, <1>2, <2>1, <2>2
<1>4. CASE DmaStamp
  <2> DEFINE f == Len(frames)
             r == [own |-> FALSE, addr |-> desc[dma.idx].addr, ctxt |-> TRUE, ld |-> FALSE,
                   es |-> FALSE, tsa |-> FALSE, corrupt |-> frames[f].stamp = "corrupt",
                   of |-> f]
  <2>1. /\ desc' = [desc EXCEPT ![dma.idx] = r] /\ mem' = mem
        /\ UNCHANGED <<pc, poll, buf, ring, delivered, lost>>
    BY <1>4 DEF DmaStamp, WriteBack
  <2>2. ~r.own /\ r.addr = desc[dma.idx].addr /\ ~r.ld
    OBVIOUS
  <2> HIDE DEF r, f
  <2> QED
    BY <1>1, <1>2, <2>1, <2>2
<1> QED
  BY <1>3, <1>4

\* The steps that leave descriptors and skbs alone.
LEMMA QuietEffect ==
    ASSUME \/ PollStart \/ RxEnd \/ RefillEnd \/ RefillFails
           \/ HwtstampIoctl \/ Wire \/ DmaSuspend \/ UNCHANGED vars
    PROVE  UNCHANGED <<desc, buf, mem, delivered>>
BY DEF PollStart, RxEnd, RefillEnd, RefillFails, RefillDone, HwtstampIoctl, Wire, FrameEnters,
   FrameMissed, Arrives, DmaSuspend, vars, ring

LEMMA RxWindowStep ==
    ASSUME Bearable, RxInv, [Next]_vars
    PROVE  Window'
<1> USE RxAssumption
<1>0. /\ skb_realloc_idx \in Slots /\ cur_rx \in Slots
      /\ desc \in [Slots -> DescType] /\ buf \in [Slots -> Nat]
      /\ Covers(desc, buf, mem, skb_realloc_idx, Behind)
      /\ Front = Advance(skb_realloc_idx, Behind)
  BY DEF RxInv, RingTypes, Window, WindowKept
<1>1. CASE RxGood \/ RxBad \/ RxStampOops \/ RxWantStamp \/ RxStamp
  <2>1. /\ cur_rx = Advance(skb_realloc_idx, Behind) /\ Behind \in 0 .. RX_DESC_CNT - 1
        /\ Behind' = Behind + 1 /\ skb_realloc_idx' = skb_realloc_idx
    BY <1>0, <1>1, RxTakes DEF Takes
  <2>2. ~desc[cur_rx].own /\ desc' = desc /\ mem' = mem
    BY <1>1 DEF RxGood, RxBad, RxStampOops, RxWantStamp, TakeStamped, RxStamp, Available,
       StampReady
  <2>3. \A i \in Slots : i # cur_rx => buf'[i] = buf[i]
    BY <1>0, <1>1 DEF RxGood, RxBad, RxStampOops, RxWantStamp, TakeStamped, RxStamp
  <2>4. Covers(desc, buf', mem, skb_realloc_idx, Behind + 1)
    BY <1>0, <2>1, <2>2, <2>3, CoversConsume
  <2> QED
    BY <2>1, <2>2, <2>4, WindowNext
<1>2. CASE RxStampLate
  <2> DEFINE c == Retreat(cur_rx)
  <2>1. /\ cur_rx = Advance(skb_realloc_idx, Behind) /\ Behind \in 1 .. RX_DESC_CNT
        /\ Behind' = Behind - 1 /\ skb_realloc_idx' = skb_realloc_idx
    BY <1>0, <1>2, StampLatePutsBack DEF PutsBack
  <2>2. c = Advance(skb_realloc_idx, Behind - 1)
    BY <1>0, <2>1, AdvancePrevious
  <2>3. /\ desc' = desc /\ mem' = mem /\ buf' = [buf EXCEPT ![c] = poll.skb]
        /\ pc = "stamp"
    BY <1>2 DEF RxStampLate
  <2>4. /\ poll.skb # 0 /\ desc[c].addr = poll.skb /\ mem[poll.skb] = desc[c].of
    BY <2>3, Contents DEF RxInv, InHand
  <2> HIDE DEF c
  <2>5. Covers(desc, [buf EXCEPT ![c] = poll.skb], mem, skb_realloc_idx, Behind - 1)
    BY <1>0, <2>1, <2>2, <2>4, CoversPutBack
  <2> QED
    BY <2>1, <2>3, <2>5, WindowNext
<1>3. CASE RefillOne
  <2>1. PICK skb \in Nat :
              /\ buf' = [buf EXCEPT ![skb_realloc_idx] = skb]
              /\ desc' = [desc EXCEPT ![skb_realloc_idx] = Armed(skb)]
              /\ \/ skb = Len(mem) + 1 /\ mem' = Append(mem, 0)
                 \/ skb = buf[skb_realloc_idx] /\ skb # 0 /\ mem' = mem
    BY <1>3, RefillEffect
  <2>2. skb # 0
    BY <2>1, Contents
  <2>3. \A i \in Slots : buf[i] # 0 => mem'[buf[i]] = mem[buf[i]]
    BY <2>1, Contents
  <2>4. /\ Behind \in 1 .. RX_DESC_CNT /\ Behind' = Behind - 1
        /\ skb_realloc_idx' = Advance(skb_realloc_idx, 1)
    BY <1>3, RefillArms DEF Arms
  <2>5. Covers(desc', buf', mem', Advance(skb_realloc_idx, 1), Behind - 1)
    BY <1>0, <2>1, <2>2, <2>3, <2>4, CoversRefill
  <2> QED
    BY <2>4, <2>5, WindowNext
<1>4. CASE DmaData \/ DmaStamp
  <2>1. PICK r : /\ dma.idx \in Slots /\ desc[dma.idx].own
                 /\ buf[dma.idx] # 0 /\ desc[dma.idx].addr = buf[dma.idx]
                 /\ desc' = [desc EXCEPT ![dma.idx] = r]
                 /\ ~r.own /\ r.addr = desc[dma.idx].addr
                 /\ \/ ~r.ld /\ mem' = mem
                    \/ mem' = [mem EXCEPT ![buf[dma.idx]] = r.of]
                 /\ UNCHANGED <<pc, poll, buf, ring, delivered, lost>>
    BY <1>4, DmaEffect
  <2>2. \A i \in Slots : i # dma.idx /\ buf[i] # 0 => buf[i] # buf[dma.idx]
    BY <2>1 DEF RxInv, SkbsApart
  <2>3. \A i \in Slots : i # dma.idx /\ buf[i] # 0 => mem'[buf[i]] = mem[buf[i]]
    BY <2>1, <2>2, Contents
  <2>4. r.ld => mem'[buf[dma.idx]] = r.of
    BY <2>1, Contents
  <2>5. Covers(desc', buf, mem', skb_realloc_idx, Behind)
    BY <1>0, <2>1, <2>3, <2>4, CoversDma
  <2>6. Stays /\ buf' = buf
    BY <1>4, <2>1, OthersStay DEF Dma
  <2> QED
    BY <2>5, <2>6, WindowNext DEF Stays
<1>5. CASE \/ PollStart \/ RxEnd \/ RefillEnd \/ RefillFails
           \/ HwtstampIoctl \/ Wire \/ DmaSuspend \/ UNCHANGED vars
  <2>1. Stays /\ UNCHANGED <<desc, buf, mem>>
    BY <1>5, QuietEffect, OthersStay, RefillDoneStays DEF Dma
  <2> QED
    BY <1>0, <2>1, WindowNext DEF Stays
<1> QED
  BY <1>1, <1>2, <1>3, <1>4, <1>5 DEF Next, Rx, Refill, Dma

\* What the stack has after one more frame.
LEMMA DeliveredNext ==
    ASSUME RxInv, NEW f \in Int, NEW skb \in Nat, NEW stamp, ReceiveSkb(f, skb, stamp),
           NEW n \in DOMAIN delivered'
    PROVE  \/ n \in DOMAIN delivered /\ delivered'[n] = delivered[n]
           \/ delivered'[n].skb = skb /\ delivered'[n].of = f
<1> DEFINE r == [of |-> f, skb |-> skb, stamp |-> stamp]
<1>1. delivered' = Append(delivered, r) /\ r.skb = skb /\ r.of = f
  BY DEF ReceiveSkb
<1> DEFINE R == [of : Int, skb : Nat, stamp : Int]
<1>2. delivered \in Seq(R)
  BY DEF RxInv, RingTypes
<1> HIDE DEF r, R
<1>3. Len(delivered) \in Nat /\ DOMAIN delivered' = 1 .. Len(delivered) + 1
  BY <1>1, <1>2
<1>4. CASE n = Len(delivered) + 1
  BY <1>1, <1>2, <1>4
<1>5. CASE n # Len(delivered) + 1
  <2>1. n \in DOMAIN delivered
    BY <1>2, <1>3, <1>5
  <2> QED
    BY <1>1, <1>2, <2>1
<1> QED
  BY <1>4, <1>5

\* The frame the poll takes is in the skb of its last descriptor.
LEMMA TakenFrame ==
    ASSUME Bearable, RxInv, RxGood \/ RxStampOops \/ RxWantStamp
    PROVE  buf[cur_rx] # 0 /\ mem[buf[cur_rx]] = desc[cur_rx].of
<1>1. Front = cur_rx /\ Behind \in 0 .. RX_DESC_CNT - 1
  BY RxTakes DEF Takes
<1>2. /\ cur_rx = Advance(skb_realloc_idx, Behind) /\ skb_realloc_idx \in Slots
      /\ Covers(desc, buf, mem, skb_realloc_idx, Behind)
  BY <1>1 DEF RxInv, WindowKept, Window, RingTypes
<1>3. desc[cur_rx].ld
  BY DEF RxGood, RxStampOops, RxWantStamp, TakeStamped, Good
<1>4. /\ buf[cur_rx] # 0
      /\ desc[cur_rx].ld => mem[buf[cur_rx]] = desc[cur_rx].of
  BY <1>1, <1>2, CoversNext
<1> QED
  BY <1>3, <1>4

\* Who has which skb, action by action.
LEMMA RxSkbStep ==
    ASSUME Bearable, RxInv, [Next]_vars
    PROVE  Allocated' /\ SkbsApart'
<1> USE RxAssumption
<1>0. /\ skb_realloc_idx \in Slots /\ cur_rx \in Slots
      /\ buf \in [Slots -> Nat] /\ Len(mem) \in Nat
      /\ poll.skb \in Nat /\ poll.of \in Int
  BY Contents DEF RxInv, RingTypes, PollType
<1>a. \A i \in Slots : buf[i] <= Len(mem)
  BY DEF RxInv, Allocated
<1>b. \A n \in DOMAIN delivered : delivered[n].skb \in 1 .. Len(mem)
  BY DEF RxInv, Allocated
<1>c. \A i, j \in Slots : buf[i] # 0 /\ buf[i] = buf[j] => i = j
  BY DEF RxInv, SkbsApart
<1>d. \A n \in DOMAIN delivered, i \in Slots : delivered[n].skb # buf[i]
  BY DEF RxInv, SkbsApart
<1>1. CASE RxGood
  <2>2. buf[cur_rx] # 0
    BY <1>1, TakenFrame
  <2>3. /\ ReceiveSkb(desc[cur_rx].of, buf[cur_rx], 0) /\ mem' = mem
        /\ buf' = [buf EXCEPT ![cur_rx] = 0] /\ desc[cur_rx].of \in Int
    BY <1>0, <1>1, SlotTypes DEF RxGood, RxInv
  <2>4. ASSUME NEW n \in DOMAIN delivered'
        PROVE  \/ n \in DOMAIN delivered /\ delivered'[n] = delivered[n]
               \/ delivered'[n].skb = buf[cur_rx]
    BY <1>0, <2>3, <2>4, DeliveredNext
  <2>5. buf[cur_rx] \in 1 .. Len(mem)
    BY <1>0, <1>a, <2>2
  <2>6. Allocated'
    BY <1>0, <1>a, <1>b, <2>3, <2>4, <2>5 DEF Allocated
  <2>7. ASSUME NEW n \in DOMAIN delivered', NEW i \in Slots PROVE delivered'[n].skb # buf'[i]
    <3>1. i # cur_rx => buf'[i] = buf[i] /\ buf[i] # buf[cur_rx]
      BY <1>0, <1>c, <2>2, <2>3
    <3>2. i = cur_rx => buf'[i] = 0
      BY <1>0, <2>3
    <3> QED
      BY <1>b, <1>d, <2>2, <2>4, <2>7, <3>1, <3>2
  <2>8. \A i, j \in Slots : buf'[i] # 0 /\ buf'[i] = buf'[j] => i = j
    BY <1>0, <1>c, <2>3
  <2> QED
    BY <2>6, <2>7, <2>8 DEF SkbsApart
<1>2. CASE RxBad
  BY <1>2, <1>a, <1>b, <1>c, <1>d DEF RxBad, Allocated, SkbsApart
<1>3. CASE RxStampOops \/ RxWantStamp
  <2>1. buf' = [buf EXCEPT ![cur_rx] = 0] /\ mem' = mem /\ delivered' = delivered
    BY <1>3 DEF RxStampOops, RxWantStamp, TakeStamped
  <2>2. Allocated'
    BY <1>0, <1>a, <1>b, <2>1 DEF Allocated
  <2>3. SkbsApart'
    BY <1>0, <1>b, <1>c, <1>d, <2>1 DEF SkbsApart
  <2> QED
    BY <2>2, <2>3
<1>4. CASE RxStamp
  <2>1. /\ poll.skb \in 1 .. Len(mem) /\ \A i \in Slots : buf[i] # poll.skb
    BY <1>4 DEF RxStamp, RxInv, InHand
  <2>2. /\ mem' = mem /\ buf' = buf
        /\ ReceiveSkb(poll.of, poll.skb, IF desc[cur_rx].corrupt THEN 0 ELSE desc[cur_rx].of)
    BY <1>4 DEF RxStamp
  <2>3. ASSUME NEW n \in DOMAIN delivered'
        PROVE  \/ n \in DOMAIN delivered /\ delivered'[n] = delivered[n]
               \/ delivered'[n].skb = poll.skb
    BY <1>0, <2>2, <2>3, DeliveredNext
  <2>4. Allocated'
    BY <1>0, <1>a, <1>b, <2>1, <2>2, <2>3 DEF Allocated
  <2>5. SkbsApart'
    BY <1>c, <1>d, <2>1, <2>2, <2>3 DEF SkbsApart
  <2> QED
    BY <2>4, <2>5
<1>5. CASE RxStampLate
  <2>1. /\ poll.skb \in 1 .. Len(mem) /\ \A i \in Slots : buf[i] # poll.skb
        /\ \A n \in DOMAIN delivered : delivered[n].skb # poll.skb
    BY <1>5 DEF RxStampLate, RxInv, InHand
  <2>2. /\ mem' = mem /\ delivered' = delivered
        /\ buf' = [buf EXCEPT ![Retreat(cur_rx)] = poll.skb]
    BY <1>5 DEF RxStampLate
  <2>3. Allocated'
    BY <1>0, <1>a, <1>b, <2>1, <2>2 DEF Allocated
  <2>4. SkbsApart'
    BY <1>0, <1>c, <1>d, <2>1, <2>2 DEF SkbsApart
  <2> QED
    BY <2>3, <2>4
<1>6. CASE RefillOne
  <2>1. PICK skb \in Nat :
              /\ buf' = [buf EXCEPT ![skb_realloc_idx] = skb]
              /\ desc' = [desc EXCEPT ![skb_realloc_idx] = Armed(skb)]
              /\ \/ skb = Len(mem) + 1 /\ mem' = Append(mem, 0)
                 \/ skb = buf[skb_realloc_idx] /\ skb # 0 /\ mem' = mem
    BY <1>6, RefillEffect
  <2>2. delivered' = delivered
    BY <1>6 DEF RefillOne
  <2>3. CASE skb = Len(mem) + 1 /\ mem' = Append(mem, 0)
    <3>1. Len(mem') = Len(mem) + 1
      BY <2>3, Contents
    <3>2. Allocated'
      BY <1>0, <1>a, <1>b, <2>1, <2>2, <2>3, <3>1 DEF Allocated
    <3>3. SkbsApart'
      BY <1>0, <1>a, <1>b, <1>c, <1>d, <2>1, <2>2, <2>3 DEF SkbsApart
    <3> QED
      BY <3>2, <3>3
  <2>4. CASE skb = buf[skb_realloc_idx] /\ skb # 0 /\ mem' = mem
    <3>1. buf' = buf
      BY <1>0, <2>1, <2>4
    <3> QED
      BY <1>a, <1>b, <1>c, <1>d, <2>2, <2>4, <3>1 DEF Allocated, SkbsApart
  <2> QED
    BY <2>1, <2>3, <2>4
<1>7. CASE DmaData \/ DmaStamp
  <2>1. PICK r : /\ dma.idx \in Slots
                 /\ \/ mem' = mem
                    \/ mem' = [mem EXCEPT ![buf[dma.idx]] = r.of]
                 /\ buf' = buf /\ delivered' = delivered
    BY <1>7, DmaEffect
  <2>2. Len(mem') = Len(mem)
    BY <2>1, Contents
  <2> QED
    BY <1>a, <1>b, <1>c, <1>d, <2>1, <2>2 DEF Allocated, SkbsApart
<1>8. CASE \/ PollStart \/ RxEnd \/ RefillEnd \/ RefillFails
           \/ HwtstampIoctl \/ Wire \/ DmaSuspend \/ UNCHANGED vars
  BY <1>8, <1>a, <1>b, <1>c, <1>d, QuietEffect DEF Allocated, SkbsApart
<1> QED
  BY <1>1, <1>2, <1>3, <1>4, <1>5, <1>6, <1>7, <1>8 DEF Next, Rx, Refill, Dma

LEMMA RetreatAdvance ==
    ASSUME NEW i \in Slots
    PROVE  Retreat(Advance(i, 1)) = i
BY RxAssumption DEF Retreat, Advance, Slots

\* The skb in hand, and the skbs of the stack, action by action.
LEMMA RxHeldStep ==
    ASSUME Bearable, RxInv, [Next]_vars
    PROVE  InHand' /\ StackIntact'
<1> USE RxAssumption
<1>0. /\ cur_rx \in Slots /\ skb_realloc_idx \in Slots
      /\ buf \in [Slots -> Nat] /\ Len(mem) \in Nat /\ mem \in Seq(Nat)
      /\ poll.skb \in Nat /\ poll.of \in Int /\ poll \in PollType
  BY Contents DEF RxInv, RingTypes, PollType
<1>a. \A n \in DOMAIN delivered : delivered[n].skb \in 1 .. Len(mem)
  BY DEF RxInv, Allocated
<1>b. \A n \in DOMAIN delivered, i \in Slots : delivered[n].skb # buf[i]
  BY DEF RxInv, SkbsApart
<1>c. \A n \in DOMAIN delivered : mem[delivered[n].skb] = delivered[n].of
  BY DEF RxInv, StackIntact
<1>1. CASE RxGood
  <2>2. desc[cur_rx].ld /\ mem' = mem /\ pc' # "stamp"
    BY <1>1 DEF RxGood, Good, NextDescriptor
  <2>3. mem[buf[cur_rx]] = desc[cur_rx].of
    BY <1>1, TakenFrame
  <2>4. /\ ReceiveSkb(desc[cur_rx].of, buf[cur_rx], 0)
        /\ desc[cur_rx].of \in Int /\ buf[cur_rx] \in Nat
    BY <1>0, <1>1, SlotTypes DEF RxGood, RxInv
  <2>5. ASSUME NEW n \in DOMAIN delivered'
        PROVE  mem[delivered'[n].skb] = delivered'[n].of
    BY <1>c, <2>3, <2>4, <2>5, DeliveredNext
  <2> QED
    BY <2>2, <2>5 DEF InHand, StackIntact
<1>2. CASE RxStamp
  <2>1. mem[poll.skb] = poll.of
    BY <1>2 DEF RxStamp, RxInv, InHand
  <2>2. /\ mem' = mem /\ pc' # "stamp"
        /\ ReceiveSkb(poll.of, poll.skb, IF desc[cur_rx].corrupt THEN 0 ELSE desc[cur_rx].of)
    BY <1>2 DEF RxStamp, NextDescriptor
  <2>3. ASSUME NEW n \in DOMAIN delivered'
        PROVE  mem[delivered'[n].skb] = delivered'[n].of
    <3>1. \/ n \in DOMAIN delivered /\ delivered'[n] = delivered[n]
          \/ delivered'[n].skb = poll.skb /\ delivered'[n].of = poll.of
      BY <1>0, <2>2, <2>3, DeliveredNext
    <3> QED
      BY <1>c, <2>1, <3>1
  <2> QED
    BY <2>2, <2>3 DEF InHand, StackIntact
<1>3. CASE RxBad \/ RxStampOops \/ RxStampLate
  <2>1. pc' # "stamp" /\ mem' = mem /\ delivered' = delivered
    BY <1>3 DEF RxBad, RxStampOops, TakeStamped, RxStampLate, NextDescriptor, LoopEnds
  <2> QED
    BY <1>c, <2>1 DEF InHand, StackIntact
<1>4. CASE RxWantStamp
  <2>2. /\ desc' = desc /\ mem' = mem /\ delivered' = delivered
        /\ buf' = [buf EXCEPT ![cur_rx] = 0] /\ cur_rx' = Advance(cur_rx, 1)
        /\ poll' = [poll EXCEPT !.skb = buf[cur_rx], !.of = desc[cur_rx].of]
        /\ ~desc[cur_rx].own
    BY <1>4 DEF RxWantStamp, TakeStamped, Available
  <2>3. /\ buf[cur_rx] # 0 /\ desc[cur_rx].addr = buf[cur_rx]
        /\ mem[buf[cur_rx]] = desc[cur_rx].of
    <3>1. buf[cur_rx] # 0 /\ mem[buf[cur_rx]] = desc[cur_rx].of
      BY <1>4, TakenFrame
    <3>2. /\ Behind \in 0 .. RX_DESC_CNT - 1 /\ cur_rx = Front
      BY <1>4, RxTakes DEF Takes
    <3>3. /\ cur_rx = Advance(skb_realloc_idx, Behind)
          /\ Covers(desc, buf, mem, skb_realloc_idx, Behind)
      BY <3>2 DEF RxInv, WindowKept, Window
    <3>4. desc[cur_rx].addr = buf[cur_rx]
      BY <1>0, <3>2, <3>3, CoversNext
    <3> QED
      BY <3>1, <3>4
  <2>4. poll'.skb = buf[cur_rx] /\ poll'.of = desc[cur_rx].of
    BY <1>0, <2>2 DEF PollType
  <2>5. Retreat(cur_rx') = cur_rx
    BY <1>0, <2>2, RetreatAdvance
  <2>6. buf[cur_rx] \in 1 .. Len(mem)
    BY <1>0, <2>3, Contents
  <2>7. ASSUME NEW i \in Slots PROVE buf'[i] # buf[cur_rx]
    BY <1>0, <2>2, <2>3 DEF RxInv, SkbsApart
  <2>8. InHand'
    <3>1. /\ poll'.skb \in 1 .. Len(mem') /\ mem'[poll'.skb] = poll'.of
          /\ \A i \in Slots : buf'[i] # poll'.skb
          /\ \A n \in DOMAIN delivered' : delivered'[n].skb # poll'.skb
      BY <1>0, <1>b, <2>2, <2>3, <2>4, <2>6, <2>7
    <3>2. /\ desc'[Retreat(cur_rx')].addr = poll'.skb
          /\ desc'[Retreat(cur_rx')].of = poll'.of
          /\ ~desc'[Retreat(cur_rx')].own
      BY <2>2, <2>3, <2>4, <2>5
    <3> QED
      BY <3>1, <3>2 DEF InHand, Retreat
  <2> QED
    BY <1>c, <2>2, <2>8 DEF StackIntact
<1>5. CASE RefillOne
  <2>1. mem' = mem \/ mem' = Append(mem, 0)
    BY <1>5, RefillEffect
  <2>2. pc' # "stamp" /\ delivered' = delivered
    BY <1>5 DEF RefillOne
  <2>3. \A n \in DOMAIN delivered : mem'[delivered[n].skb] = mem[delivered[n].skb]
    BY <1>a, <2>1, Contents
  <2> QED
    BY <1>c, <2>2, <2>3 DEF InHand, StackIntact
<1>6. CASE DmaData \/ DmaStamp
  <2>1. PICK r : /\ dma.idx \in Slots /\ desc[dma.idx].own
                 /\ desc' = [desc EXCEPT ![dma.idx] = r]
                 /\ \/ mem' = mem
                    \/ mem' = [mem EXCEPT ![buf[dma.idx]] = r.of]
                 /\ UNCHANGED <<pc, poll, buf, ring, delivered, lost>>
    BY <1>6, DmaEffect
  <2>2. Len(mem') = Len(mem)
    BY <2>1, Contents
  <2>3. \A n \in DOMAIN delivered : mem'[delivered[n].skb] = mem[delivered[n].skb]
    BY <1>0, <1>a, <1>b, <2>1
  <2>4. InHand'
    <3>1. CASE pc = "stamp"
      <4>1. /\ poll.skb \in 1 .. Len(mem) /\ \A i \in Slots : buf[i] # poll.skb
            /\ \A n \in DOMAIN delivered : delivered[n].skb # poll.skb
            /\ mem[poll.skb] = poll.of
            /\ desc[Retreat(cur_rx)].addr = poll.skb
            /\ desc[Retreat(cur_rx)].of = poll.of
            /\ ~desc[Retreat(cur_rx)].own
        BY <3>1 DEF RxInv, InHand
      <4>2. mem'[poll.skb] = mem[poll.skb]
        BY <1>0, <2>1, <4>1
      <4>3. desc'[Retreat(cur_rx)] = desc[Retreat(cur_rx)]
        <5>1. Retreat(cur_rx) \in Slots /\ desc \in [Slots -> DescType]
          BY <1>0, RetreatType DEF RxInv, RingTypes
        <5> QED
          BY <2>1, <4>1, <5>1
      <4>4. cur_rx' = cur_rx /\ poll' = poll /\ buf' = buf /\ delivered' = delivered
        BY <2>1 DEF ring
      <4> QED
        BY <2>2, <4>1, <4>2, <4>3, <4>4 DEF InHand, Retreat
    <3>2. CASE pc # "stamp"
      BY <2>1, <3>2 DEF InHand
    <3> QED
      BY <3>1, <3>2
  <2> QED
    BY <1>c, <2>1, <2>3, <2>4 DEF StackIntact
<1>7. CASE \/ PollStart \/ RxEnd \/ RefillEnd \/ RefillFails
  <2>1. pc' # "stamp"
    BY <1>7 DEF PollStart, RxEnd, LoopEnds, RefillEnd, RefillFails, RefillDone, RxInv, RingTypes,
       PollType
  <2>2. UNCHANGED <<mem, delivered>>
    BY <1>7, QuietEffect
  <2> QED
    BY <1>c, <2>1, <2>2 DEF InHand, StackIntact
<1>8. CASE HwtstampIoctl \/ Wire \/ DmaSuspend \/ UNCHANGED vars
  <2>1. UNCHANGED <<desc, buf, mem, delivered>>
    BY <1>8, QuietEffect
  <2>2. UNCHANGED <<pc, poll, cur_rx>>
    BY <1>8 DEF HwtstampIoctl, Wire, FrameEnters, FrameMissed, Arrives, DmaSuspend, vars, ring
  <2>3. InHand
    BY DEF RxInv
  <2> QED
    BY <1>c, <2>1, <2>2, <2>3 DEF InHand, StackIntact, Retreat
<1> QED
  BY <1>1, <1>2, <1>3, <1>4, <1>5, <1>6, <1>7, <1>8 DEF Next, Rx, Refill, Dma

-----------------------------------------------------------------------------
(* The theorems.                                                           *)

LEMMA RxInvariant == ASSUME Bearable PROVE Spec => []RxInv
<1>1. RxInv /\ [Next]_vars => RxInv'
  BY RxTypeStep, RxWindowKeptStep, RxWindowStep, RxSkbStep, RxHeldStep DEF RxInv
<1> QED
  BY RxInit, <1>1, PTL DEF Spec

\* Every variable of the receive queue keeps its type.
THEOREM RxTypeCorrect == ASSUME Bearable PROVE Spec => []TypeOK
<1>1. Init => due \in BOOLEAN
  BY DEF Init
<1>2. RxInv /\ due \in BOOLEAN /\ [Next]_vars => (due \in BOOLEAN)'
  <2> SUFFICES ASSUME RxInv, due \in BOOLEAN, [Next]_vars PROVE due' \in BOOLEAN
    OBVIOUS
  <2>1. CASE PollStart
    BY <2>1 DEF PollStart
  <2>2. CASE Rx
    BY <2>2 DEF Rx, RxGood, RxBad, RxStampOops, RxWantStamp, TakeStamped, RxStamp, RxStampLate,
       RxEnd
  <2>3. CASE Refill
    BY <2>3 DEF Refill, RefillOne, RefillEnd, RefillFails, RefillDone
  <2>4. CASE HwtstampIoctl \/ Wire
    BY <2>4 DEF HwtstampIoctl, Wire, FrameEnters, FrameMissed, Arrives
  <2>5. CASE Dma
    BY <2>5, RxAssumption DEF Dma, DmaSuspend, DmaData, DmaStamp
  <2>6. CASE UNCHANGED vars
    BY <2>6 DEF vars
  <2> QED
    BY <2>1, <2>2, <2>3, <2>4, <2>5, <2>6 DEF Next
<1>3. RxInv => RingTypes
  BY DEF RxInv
<1> QED
  BY RxInvariant, <1>1, <1>2, <1>3, PTL DEF Spec, TypeOK

\* The refill index, dirty_rx and cur_rx of clean_rx_irq, get_rx_hwtstamp and
\* re_alloc_skb stay consistent, refills that failed included.
THEOREM RxWindowCorrect == ASSUME Bearable PROVE Spec => []WindowKept
<1>1. RxInv => WindowKept
  BY DEF RxInv
<1> QED
  BY RxInvariant, <1>1, PTL

\* The DMA writes only into the skb of a descriptor it owns.
THEOREM RxOwnedCorrect == ASSUME Bearable PROVE Spec => []OwnedBuffer
<1>1. RxInv => OwnedBuffer
  BY CoversOwned DEF RxInv, Window, OwnedBuffer
<1> QED
  BY RxInvariant, <1>1, PTL

\* No skb is used twice: not by two descriptors, not by a descriptor and the stack.
THEOREM RxSkbsCorrect == ASSUME Bearable PROVE Spec => []SkbsApart
<1>1. RxInv => SkbsApart
  BY DEF RxInv
<1> QED
  BY RxInvariant, <1>1, PTL

\* What the stack got is what arrived, and stays so.
THEOREM RxStackCorrect == ASSUME Bearable PROVE Spec => []StackIntact
<1>1. RxInv => StackIntact
  BY DEF RxInv
<1> QED
  BY RxInvariant, <1>1, PTL

\* The counters of clean_rx_irq and re_alloc_skb agree, for every ring size.
THEOREM RxRingKept == ASSUME Bearable PROVE Spec => []RingKept
  BY RxTypeCorrect, RxWindowCorrect, PTL DEF RingKept

\* Descriptor, buffer table, DMA and stack agree about who has which skb.
THEOREM RxSkbsSafe == ASSUME Bearable PROVE Spec => []SkbsSafe
  BY RxOwnedCorrect, RxSkbsCorrect, RxStackCorrect, PTL DEF SkbsSafe

\* A descriptor clean_rx_irq takes as data has an skb.
THEOREM RxTakenCorrect == ASSUME Bearable PROVE Spec => []TakenHasSkb
<1>1. RxInv => TakenHasSkb
  <2> SUFFICES ASSUME RxInv, Available PROVE buf[cur_rx] # 0
    BY DEF TakenHasSkb
  <2>1. pc = "loop" /\ dirty_rx < MIN_RX_DESC_CNT
    BY DEF Available, RxInv, Consumed
  <2>2. /\ Behind = lost + dirty_rx /\ cur_rx = Advance(skb_realloc_idx, Behind)
    BY <2>1, NotRefilling
  <2>3. Behind \in 0 .. RX_DESC_CNT - 1
    BY <2>1, <2>2, RxAssumption DEF Bearable, RxInv, RingTypes
  <2> QED
    BY <2>2, <2>3, CoversNext DEF RxInv, RingTypes, Window
<1> QED
  BY RxInvariant, <1>1, PTL

-----------------------------------------------------------------------------
(* What lies between the poll and the channel.  Places are counted from the *)
(* descriptor the poll takes next; the channel comes to place "at".         *)

Ahead(i) == Dist(Front, i)

\* Descriptors the poll has not passed.
Room == RX_DESC_CNT - Behind

\* The channel has written the first at of them and owns the others.
Handed(at) ==
    /\ dma.idx = Advance(Front, at)
    /\ \A i \in Slots : desc[i].own <=> at <= Ahead(i) /\ Ahead(i) < Room

\* What a written descriptor says of the frame it belongs to.
Status(d) ==
    /\ d.of \in 1 .. Len(frames)
    /\ ~(d.ld /\ d.ctxt) /\ (d.tsa => d.ld)
    /\ d.ld => d.es = frames[d.of].es /\ fate[d.of] = "ring"

Reported(at) == \A i \in Slots : Ahead(i) < at => Status(desc[i])

\* At place p is the time stamp of frame f, or the channel is about to write it
\* there.
StampAt(at, p, f) ==
    /\ p <= at
    /\ p = at => dma.owes /\ f = Len(frames)
    /\ \A j \in Slots : Ahead(j) = p /\ p < at => desc[j].ctxt /\ desc[j].of = f

\* The time stamp follows the frame that says it has one.
Stamped(at) ==
    /\ \A i \in Slots : Ahead(i) < at /\ desc[i].tsa => StampAt(at, Ahead(i) + 1, desc[i].of)
    /\ pc = "stamp" => StampAt(at, 0, poll.of)
    /\ dma.owes => dma.left = 0

\* Complete frames lie in the order they arrived, the one being written last.
Rising(at) ==
    /\ \A i, j \in Slots : Ahead(i) < Ahead(j) /\ Ahead(j) < at /\ desc[i].ld /\ desc[j].ld =>
          desc[i].of < desc[j].of
    /\ dma.left > 0 => \A i \in Slots : Ahead(i) < at /\ desc[i].ld => desc[i].of < Len(frames)

\* The frame that waits for its time stamp.
Waiting(at) ==
    pc = "stamp" =>
        /\ poll.of \in 1 .. Len(frames) /\ fate[poll.of] = "ring" /\ ~frames[poll.of].es
        /\ dma.left > 0 => poll.of < Len(frames)
        /\ \A i \in Slots : Ahead(i) < at /\ desc[i].ld => poll.of < desc[i].of
        /\ \A i \in Slots : i = Retreat(cur_rx) =>
              desc[i].ld /\ ~desc[i].ctxt /\ ~desc[i].es /\ desc[i].tsa

\* Where the frames are that the driver or the channel still has.
Located(at) ==
    /\ Len(frames) <= NumFrames
    /\ \A f \in Frames : fate[f] = "wire" <=> f > Len(frames)
    /\ dma.left > 0 => fate[Len(frames)] = "ring"
    /\ \A f \in Frames : fate[f] = "ring" =>
          \/ \E i \in Slots : Ahead(i) < at /\ desc[i].ld /\ desc[i].of = f
          \/ dma.left > 0 /\ f = Len(frames)
          \/ pc \in {"stamp", "oops"} /\ f = poll.of

LaidOut(at) ==
    Handed(at) /\ Reported(at) /\ Stamped(at) /\ Rising(at) /\ Waiting(at) /\ Located(at)

\* The inductive invariant of StampRight and of the refinement.
RxOrder == RxInv /\ StampRight /\ \E at \in 0 .. Room : LaidOut(at)

LEMMA Ground ==
    ASSUME RxInv
    PROVE  /\ Front \in Slots /\ Behind \in Nat /\ Behind <= RX_DESC_CNT
           /\ Room \in Nat /\ Room <= RX_DESC_CNT /\ RX_DESC_CNT \in Nat \ {0, 1}
           /\ Slots = 0 .. RX_DESC_CNT - 1
           /\ \A i \in Slots : Ahead(i) \in Nat /\ Ahead(i) < RX_DESC_CNT
           /\ \A i, j \in Slots : Ahead(i) = Ahead(j) => i = j
           /\ desc \in [Slots -> DescType] /\ frames \in Seq(Kinds) /\ Len(frames) \in Nat
           /\ fate \in [Frames -> {"wire", "ring", "stack", "lost"}]
           /\ dma.idx \in Slots /\ dma.left \in Nat /\ dma.owes \in BOOLEAN
           /\ dma.left > 0 \/ dma.owes => Len(frames) > 0
           /\ poll.of \in Int /\ cur_rx \in Slots /\ skb_realloc_idx \in Slots
<1>1. /\ desc \in [Slots -> DescType] /\ frames \in Seq(Kinds) /\ Len(frames) \in Nat
      /\ fate \in [Frames -> {"wire", "ring", "stack", "lost"}]
      /\ dma.idx \in Slots /\ dma.left \in Nat /\ dma.owes \in BOOLEAN
      /\ poll.of \in Int /\ cur_rx \in Slots /\ skb_realloc_idx \in Slots
  BY DEF RxInv, RingTypes, DmaType, PollType
<1>2. dma.left > 0 \/ dma.owes => Len(frames) > 0
  BY DEF RxInv, Consumed
<1>3. Front \in Slots
  BY <1>1, AdvanceOne DEF Front
<1>4. Behind \in Nat /\ Behind <= RX_DESC_CNT
  <2>1. lost \in Nat /\ dirty_rx \in Nat /\ poll.i \in Nat /\ Behind <= RX_DESC_CNT
        /\ (pc = "refill" => poll.i <= dirty_rx)
    BY DEF RxInv, RingTypes, PollType, WindowKept, Consumed
  <2> QED
    BY <2>1 DEF Behind
<1>5. \A i \in Slots : Ahead(i) \in Slots
  BY <1>3, DistType DEF Ahead
<1>6. \A i, j \in Slots : Ahead(i) = Ahead(j) => i = j
  BY <1>3, DistInjective DEF Ahead
<1>7. RX_DESC_CNT \in Nat \ {0, 1}
  BY RxAssumption
<1>8. Room \in Nat /\ Room <= RX_DESC_CNT
  BY <1>4, <1>7 DEF Room
<1>9. \A i \in Slots : i \in Nat /\ i < RX_DESC_CNT
  BY <1>7 DEF Slots
<1>10. Slots = 0 .. RX_DESC_CNT - 1
  BY DEF Slots
<1> QED
  BY <1>1, <1>2, <1>3, <1>4, <1>5, <1>6, <1>7, <1>8, <1>9, <1>10

LEMMA PlaceAt ==
    ASSUME RxInv, NEW p \in 0 .. RX_DESC_CNT - 1
    PROVE  Advance(Front, p) \in Slots /\ Ahead(Advance(Front, p)) = p
<1>1. Front \in Slots /\ p \in 0 .. RX_DESC_CNT
  BY Ground
<1> QED
  BY <1>1, AdvanceType, DistAdvance DEF Ahead

\* The descriptor the poll takes next.
LEMMA FrontFirst ==
    ASSUME RxInv
    PROVE  Ahead(Front) = 0
BY Ground, RxAssumption DEF Ahead, Dist

\* The channel's next descriptor.
LEMMA Comes ==
    ASSUME RxInv, NEW at \in 0 .. Room, Handed(at), at < RX_DESC_CNT
    PROVE  Ahead(dma.idx) = at
BY PlaceAt, Ground DEF Handed

\* A descriptor the poll may take, or the channel, is where the other stops.
LEMMA NotOwned ==
    ASSUME RxInv, NEW at \in 0 .. Room, Handed(at), Room > 0, ~desc[Front].own
    PROVE  at \in Nat /\ at > 0
BY Ground, FrontFirst DEF Handed

LEMMA DmaPlace ==
    ASSUME RxInv, NEW at \in 0 .. Room, Handed(at), desc[dma.idx].own
    PROVE  at \in Nat /\ Ahead(dma.idx) = at /\ at < Room
<1>1. at \in Nat /\ Room \in Nat /\ dma.idx \in Slots /\ Room <= RX_DESC_CNT
  BY Ground
<1>2. at <= Ahead(dma.idx) /\ Ahead(dma.idx) < Room /\ Ahead(dma.idx) \in Nat
  BY <1>1, Ground DEF Handed
<1>3. at < RX_DESC_CNT
  BY <1>1, <1>2, Ground
<1> QED
  BY <1>1, <1>2, <1>3, Comes

-----------------------------------------------------------------------------
(* The poll passes a descriptor.                                            *)

Pass ==
    /\ Takes /\ Room > 0 /\ ~desc[Front].own
    /\ UNCHANGED <<desc, dma, frames>>

LEMMA PassPlaces ==
    ASSUME RxInv, NEW at \in 0 .. Room, Handed(at), Pass
    PROVE  /\ at \in Nat /\ at > 0 /\ Room' = Room - 1
           /\ \A i \in Slots : Ahead(i)' = IF i = Front THEN RX_DESC_CNT - 1 ELSE Ahead(i) - 1
           /\ \A i \in Slots : i # Front => Ahead(i) > 0
           /\ \A i \in Slots : Ahead(i)' < at - 1 <=> i # Front /\ Ahead(i) < at
<1>1. at \in Nat /\ at > 0
  BY NotOwned DEF Pass
<1>2. Room' = Room - 1
  BY Ground DEF Pass, Takes, Room
<1>3. \A i \in Slots : Ahead(i)' = IF i = Front THEN RX_DESC_CNT - 1 ELSE Ahead(i) - 1
  <2> SUFFICES ASSUME NEW i \in Slots
               PROVE  Ahead(i)' = IF i = Front THEN RX_DESC_CNT - 1 ELSE Ahead(i) - 1
    OBVIOUS
  <2>1. Ahead(i)' = Dist(Advance(Front, 1), i)
    BY DEF Ahead, Pass, Takes, Dist
  <2> QED
    BY <2>1, Ground, DistFrom DEF Ahead
<1>4. \A i \in Slots : i # Front => Ahead(i) > 0
  BY Ground, FrontFirst
<1>5. at <= RX_DESC_CNT /\ \A i \in Slots : Ahead(i) \in Nat
  BY Ground
<1>6. ASSUME NEW i \in Slots PROVE Ahead(i)' < at - 1 <=> i # Front /\ Ahead(i) < at
  <2>1. Ahead(i) \in Nat /\ RX_DESC_CNT \in Nat
    BY <1>5, RxAssumption
  <2>2. CASE i = Front
    <3>1. Ahead(i)' = RX_DESC_CNT - 1
      BY <1>3, <2>2
    <3> QED
      BY <1>1, <1>5, <2>1, <2>2, <3>1
  <2>3. CASE i # Front
    <3>1. Ahead(i)' = Ahead(i) - 1
      BY <1>3, <2>3
    <3> QED
      BY <1>1, <2>1, <2>3, <3>1
  <2> QED
    BY <2>2, <2>3
<1> QED
  BY <1>1, <1>2, <1>3, <1>4, <1>6

LEMMA PassHanded ==
    ASSUME RxInv, NEW at \in 0 .. Room, Handed(at), Pass
    PROVE  at - 1 \in 0 .. Room' /\ Handed(at - 1)'
<1>1. /\ at \in Nat /\ at > 0 /\ Room' = Room - 1
      /\ \A i \in Slots : Ahead(i)' = IF i = Front THEN RX_DESC_CNT - 1 ELSE Ahead(i) - 1
      /\ \A i \in Slots : i # Front => Ahead(i) > 0
  BY PassPlaces
<1>2. Room \in Nat /\ at <= Room /\ Room <= RX_DESC_CNT
  BY Ground
<1>3. dma'.idx = Advance(Front', at - 1)
  <2>1. Advance(Advance(Front, 1), at - 1) = Advance(Front, at)
    BY <1>1, <1>2, Ground, AdvanceFrom
  <2> QED
    BY <2>1 DEF Pass, Takes, Handed
<1>4. ASSUME NEW i \in Slots
      PROVE  desc'[i].own <=> at - 1 <= Ahead(i)' /\ Ahead(i)' < Room'
  <2>1. desc'[i].own <=> at <= Ahead(i) /\ Ahead(i) < Room
    BY DEF Handed, Pass
  <2>2. CASE i = Front
    <3>1. ~desc'[i].own
      BY <2>2 DEF Pass
    <3>2. ~(Ahead(i)' < Room')
      BY <1>1, <1>2, <2>2, Ground
    <3> QED
      BY <3>1, <3>2
  <2>3. CASE i # Front
    <3>1. Ahead(i)' = Ahead(i) - 1 /\ Ahead(i) \in Nat /\ Room' = Room - 1
      BY <1>1, <2>3, Ground
    <3>2. at - 1 <= Ahead(i)' /\ Ahead(i)' < Room' <=> at <= Ahead(i) /\ Ahead(i) < Room
      BY <1>1, <1>2, <3>1
    <3> QED
      BY <2>1, <3>2
  <2> QED
    BY <2>2, <2>3
<1>5. dma'.idx = Advance(Front, at - 1)'
  BY <1>3 DEF Advance
<1> QED
  BY <1>1, <1>2, <1>4, <1>5 DEF Handed

LEMMA PassStamp ==
    ASSUME RxInv, NEW at \in 0 .. Room, Handed(at), Pass, NEW p \in Nat, NEW f,
           StampAt(at, p + 1, f)
    PROVE  StampAt(at - 1, p, f)'
<1>1. /\ at \in Nat /\ at > 0
      /\ \A i \in Slots : Ahead(i)' = IF i = Front THEN RX_DESC_CNT - 1 ELSE Ahead(i) - 1
      /\ at <= RX_DESC_CNT
  BY PassPlaces, Ground
<1>2. /\ p <= at - 1
      /\ p = at - 1 => dma'.owes /\ f = Len(frames')
  BY <1>1 DEF StampAt, Pass
<1>3. ASSUME NEW j \in Slots, Ahead(j)' = p, p < at - 1
      PROVE  desc'[j].ctxt /\ desc'[j].of = f
  <2>1. j # Front
    BY <1>1, <1>3, Ground
  <2>2. Ahead(j) = p + 1 /\ p + 1 < at
    BY <1>1, <1>3, <2>1, Ground
  <2> QED
    BY <2>2 DEF StampAt, Pass
<1> QED
  BY <1>2, <1>3 DEF StampAt

LEMMA PassStamped ==
    ASSUME RxInv, NEW at \in 0 .. Room, Handed(at), Pass, Stamped(at),
           pc' # "stamp" \/ (desc[Front].tsa /\ poll'.of = desc[Front].of)
    PROVE  Stamped(at - 1)'
<1>1. ASSUME NEW i \in Slots, (Ahead(i) < at - 1)', desc'[i].tsa
      PROVE  StampAt(at - 1, Ahead(i) + 1, desc[i].of)'
  <2>1. i # Front /\ Ahead(i) < at /\ Ahead(i)' = Ahead(i) - 1 /\ Ahead(i) \in Nat \ {0}
    BY <1>1, PassPlaces, Ground
  <2>2. desc' = desc
    BY DEF Pass
  <2>3. PICK p, f : p \in Nat /\ p = Ahead(i) /\ f = desc[i].of
    BY <2>1
  <2>4. StampAt(at, p + 1, f)
    BY <1>1, <2>1, <2>2, <2>3 DEF Stamped
  <2>5. StampAt(at - 1, p, f)'
    BY <2>3, <2>4, PassStamp
  <2>6. Ahead(i)' + 1 = p /\ desc'[i].of = f
    BY <2>1, <2>2, <2>3
  <2> QED
    BY <2>5, <2>6 DEF StampAt
<1>2. ASSUME pc' = "stamp" PROVE StampAt(at - 1, 0, poll.of)'
  <2>1. desc[Front].tsa /\ poll'.of = desc[Front].of /\ Ahead(Front) < at /\ Ahead(Front) = 0
    BY <1>2, PassPlaces, FrontFirst
  <2>2. PICK f : f = desc[Front].of
    OBVIOUS
  <2>3. StampAt(at, 0 + 1, f)
    BY <2>1, <2>2, Ground DEF Stamped
  <2>4. StampAt(at - 1, 0, f)'
    BY <2>3, PassStamp
  <2> QED
    BY <2>1, <2>2, <2>4 DEF StampAt
<1>3. dma'.owes => dma'.left = 0
  BY DEF Stamped, Pass
<1> QED
  BY <1>1, <1>2, <1>3 DEF Stamped

LEMMA PassRising ==
    ASSUME RxInv, NEW at \in 0 .. Room, Handed(at), Pass, Rising(at)
    PROVE  Rising(at - 1)'
<1>1. /\ \A i \in Slots : Ahead(i)' < at - 1 => Ahead(i) < at /\ Ahead(i)' = Ahead(i) - 1
      /\ \A i \in Slots : i # Front => Ahead(i)' = Ahead(i) - 1 /\ Ahead(i) \in Nat
      /\ \A i \in Slots : i = Front => Ahead(i)' = RX_DESC_CNT - 1
      /\ \A i \in Slots : Ahead(i) \in Nat /\ Ahead(i) < RX_DESC_CNT
  BY PassPlaces, Ground
<1>2. desc' = desc /\ frames' = frames /\ dma' = dma
  BY DEF Pass
<1>3. ASSUME NEW i \in Slots, NEW j \in Slots, Ahead(i)' < Ahead(j)', Ahead(j)' < at - 1,
             desc[i].ld, desc[j].ld
      PROVE  desc[i].of < desc[j].of
  <2>1. at \in Nat /\ at <= RX_DESC_CNT
    BY Ground
  <2>2. i # Front
    BY <1>1, <1>3, <2>1, Ground
  <2>3. Ahead(i) < Ahead(j) /\ Ahead(j) < at
    BY <1>1, <1>3, <2>2
  <2> QED
    BY <1>3, <2>3 DEF Rising
<1> QED
  BY <1>1, <1>2, <1>3 DEF Rising

\* What the descriptor the poll takes says, and who else speaks of its frame.
LEMMA FrontSays ==
    ASSUME RxInv, NEW at \in 0 .. Room, LaidOut(at), Room > 0, ~desc[Front].own
    PROVE  /\ Status(desc[Front]) /\ at \in Nat /\ at > 0
           /\ desc[Front].ld => /\ dma.left > 0 => desc[Front].of < Len(frames)
                                /\ \A i \in Slots : i # Front /\ Ahead(i) < at /\ desc[i].ld =>
                                      desc[Front].of < desc[i].of
<1>1. at \in Nat /\ at > 0
  BY NotOwned DEF LaidOut
<1>2. Ahead(Front) = 0 /\ Front \in Slots /\ \A i \in Slots : i # Front => Ahead(i) > 0
  BY FrontFirst, Ground
<1>3. Status(desc[Front])
  BY <1>1, <1>2 DEF LaidOut, Reported
<1> QED
  BY <1>1, <1>2, <1>3 DEF LaidOut, Rising

\* The poll settles the frame f, which no other descriptor completes.
Settles(f, at) ==
    /\ f \in 1 .. Len(frames) /\ fate[f] = "ring"
    /\ \E where \in {"stack", "lost"} : fate' = [fate EXCEPT ![f] = where]
    /\ pc' # "stamp"
    /\ dma.left > 0 => f < Len(frames)
    /\ \A i \in Slots : Ahead(i) < at /\ desc[i].ld => i = Front \/ f < desc[i].of
    /\ desc[Front].ld => f = desc[Front].of
    /\ pc \in {"stamp", "oops"} => f = poll.of

\* The poll passes a part of a frame.
Skips == fate' = fate /\ pc \notin {"stamp", "oops"} /\ pc' # "stamp" /\ ~desc[Front].ld

\* The poll keeps the frame in hand until its time stamp is there, or dies.
Awaits ==
    /\ fate' = fate /\ pc \notin {"stamp", "oops"} /\ pc' \in {"stamp", "oops"}
    /\ desc[Front].ld /\ ~desc[Front].es /\ desc[Front].tsa
    /\ poll'.of = desc[Front].of /\ (pc' = "stamp" => cur_rx' = Front')

LEMMA PollKinds ==
    ASSUME Bearable, RxInv, NEW at \in 0 .. Room, LaidOut(at),
           RxGood \/ RxBad \/ RxStampOops \/ RxWantStamp \/ RxStamp
    PROVE  Pass /\ ((\E f : Settles(f, at)) \/ Skips \/ Awaits)
<1>1. Takes /\ Front = cur_rx
  BY RxTakes DEF Takes
<1>2. Room > 0
  BY <1>1, Ground DEF Takes, Room
<1>3. ~desc[Front].own /\ UNCHANGED <<desc, dma, frames>>
  BY <1>1 DEF RxGood, RxBad, RxStampOops, RxWantStamp, TakeStamped, RxStamp, Available, StampReady
<1>4. Pass
  BY <1>1, <1>2, <1>3 DEF Pass
<1>5. /\ Status(desc[Front]) /\ at \in Nat /\ at > 0
      /\ desc[Front].ld => /\ dma.left > 0 => desc[Front].of < Len(frames)
                           /\ \A i \in Slots : i # Front /\ Ahead(i) < at /\ desc[i].ld =>
                                 desc[Front].of < desc[i].of
  BY <1>2, <1>3, FrontSays
<1>6. CASE RxGood
  <2>1. /\ fate' = [fate EXCEPT ![desc[Front].of] = "stack"] /\ desc[Front].ld
        /\ pc = "loop" /\ pc' # "stamp"
    BY <1>1, <1>6 DEF RxGood, ReceiveSkb, Good, Available, NextDescriptor
  <2>2. Settles(desc[Front].of, at)
    BY <1>5, <2>1 DEF Settles, Status
  <2> QED
    BY <1>4, <2>2
<1>7. CASE RxBad
  <2>1. /\ fate' = IF desc[Front].ld THEN [fate EXCEPT ![desc[Front].of] = "lost"] ELSE fate
        /\ pc = "loop" /\ pc' # "stamp"
    BY <1>1, <1>7 DEF RxBad, Available, NextDescriptor
  <2>2. CASE desc[Front].ld
    <3>1. Settles(desc[Front].of, at)
      BY <1>5, <2>1, <2>2 DEF Settles, Status
    <3> QED
      BY <1>4, <3>1
  <2>3. CASE ~desc[Front].ld
    BY <1>4, <2>1, <2>3 DEF Skips
  <2> QED
    BY <2>2, <2>3
<1>8. CASE RxStampOops \/ RxWantStamp
  <2>1. TakeStamped
    BY <1>8 DEF RxStampOops, RxWantStamp
  <2>2. /\ fate' = fate /\ pc = "loop" /\ desc[Front].ld /\ ~desc[Front].es /\ desc[Front].tsa
    BY <1>1, <2>1 DEF TakeStamped, Available, Good, WantsStamp
  <2>3. poll'.of = desc[Front].of
    BY <1>1, <2>1 DEF TakeStamped, RxInv, RingTypes, PollType
  <2>4. pc' \in {"stamp", "oops"} /\ (pc' = "stamp" => cur_rx' = Front')
    BY <1>8 DEF RxStampOops, RxWantStamp, Front
  <2> QED
    BY <1>4, <2>2, <2>3, <2>4 DEF Awaits
<1>9. CASE RxStamp
  <2>1. /\ fate' = [fate EXCEPT ![poll.of] = "stack"] /\ desc[Front].ctxt
        /\ pc = "stamp" /\ pc' # "stamp"
    BY <1>1, <1>9 DEF RxStamp, ReceiveSkb, StampReady, NextDescriptor
  <2>2. ~desc[Front].ld
    BY <1>5, <2>1 DEF Status
  <2>3. /\ poll.of \in 1 .. Len(frames) /\ fate[poll.of] = "ring"
        /\ dma.left > 0 => poll.of < Len(frames)
        /\ \A i \in Slots : Ahead(i) < at /\ desc[i].ld => poll.of < desc[i].of
    BY <2>1 DEF LaidOut, Waiting
  <2>4. Settles(poll.of, at)
    BY <2>1, <2>2, <2>3 DEF Settles
  <2> QED
    BY <1>4, <2>4
<1> QED
  BY <1>6, <1>7, <1>8, <1>9

LEMMA PassReported ==
    ASSUME RxInv, NEW at \in 0 .. Room, LaidOut(at), Pass,
           (\E f : Settles(f, at)) \/ Skips \/ Awaits
    PROVE  Reported(at - 1)'
<1>1. UNCHANGED <<desc, frames>>
  BY DEF Pass
<1>2. \A i \in Slots : Ahead(i)' < at - 1 => i # Front /\ Ahead(i) < at
  BY PassPlaces DEF LaidOut
<1>3. ASSUME NEW i \in Slots, (Ahead(i) < at - 1)' PROVE Status(desc[i])'
  <2>1. i # Front /\ Ahead(i) < at /\ Status(desc[i])
    BY <1>2, <1>3 DEF LaidOut, Reported
  <2>2. desc[i].ld => fate'[desc[i].of] = fate[desc[i].of]
    <3>1. CASE fate' = fate
      BY <3>1
    <3>2. ASSUME NEW f, Settles(f, at) PROVE desc[i].ld => fate'[desc[i].of] = fate[desc[i].of]
      <4>1. desc[i].ld => f < desc[i].of
        BY <2>1, <3>2 DEF Settles
      <4>2. desc[i].ld => f # desc[i].of
        BY <2>1, <3>2, <4>1 DEF Settles, Status
      <4> QED
        BY <3>2, <4>2 DEF Settles
    <3> QED
      BY <3>1, <3>2 DEF Skips, Awaits
  <2> QED
    BY <1>1, <2>1, <2>2 DEF Status
<1> QED
  BY <1>3 DEF Reported

LEMMA PassWaiting ==
    ASSUME RxInv, NEW at \in 0 .. Room, LaidOut(at), Pass,
           (\E f : Settles(f, at)) \/ Skips \/ Awaits
    PROVE  Waiting(at - 1)'
<1> SUFFICES ASSUME Awaits, pc' = "stamp" PROVE Waiting(at - 1)'
  BY DEF Settles, Skips, Waiting
<1>1. UNCHANGED <<desc, frames, dma>> /\ fate' = fate
  BY DEF Pass, Awaits
<1>2. \A i \in Slots : Ahead(i)' < at - 1 => i # Front /\ Ahead(i) < at
  BY PassPlaces DEF LaidOut
<1>3. /\ Status(desc[Front]) /\ desc[Front].ld
      /\ dma.left > 0 => desc[Front].of < Len(frames)
      /\ \A i \in Slots : i # Front /\ Ahead(i) < at /\ desc[i].ld => desc[Front].of < desc[i].of
  BY FrontSays DEF Pass, Awaits
<1>4. Retreat(cur_rx') = Front
  BY Ground, RetreatAdvance DEF Awaits, Pass, Takes
<1>5. PICK f : f = desc[Front].of
  OBVIOUS
<1>6. poll'.of = f
  BY <1>5 DEF Awaits
<1>7. f \in 1 .. Len(frames') /\ fate'[f] = "ring" /\ ~frames'[f].es
  BY <1>1, <1>3, <1>5 DEF Status, Awaits
<1>8. \A i \in Slots : Ahead(i)' < at - 1 /\ desc'[i].ld => f < desc'[i].of
  BY <1>1, <1>2, <1>3, <1>5
<1>9. \A i \in Slots : i = Retreat(cur_rx)' =>
         desc'[i].ld /\ ~desc'[i].ctxt /\ ~desc'[i].es /\ desc'[i].tsa
  BY <1>1, <1>3, <1>4 DEF Status, Awaits, Retreat
<1> QED
  BY <1>1, <1>3, <1>5, <1>6, <1>7, <1>8, <1>9 DEF Waiting

LEMMA PassLocated ==
    ASSUME RxInv, NEW at \in 0 .. Room, LaidOut(at), Pass,
           (\E f : Settles(f, at)) \/ Skips \/ Awaits
    PROVE  Located(at - 1)'
<1>1. UNCHANGED <<desc, frames, dma>>
  BY DEF Pass
<1>2. \A i \in Slots : i # Front /\ Ahead(i) < at => Ahead(i)' < at - 1
  BY PassPlaces DEF LaidOut
<1>3. /\ Len(frames) <= NumFrames
      /\ \A f \in Frames : fate[f] = "wire" <=> f > Len(frames)
      /\ dma.left > 0 => fate[Len(frames)] = "ring"
      /\ \A f \in Frames : fate[f] = "ring" =>
            \/ \E i \in Slots : Ahead(i) < at /\ desc[i].ld /\ desc[i].of = f
            \/ dma.left > 0 /\ f = Len(frames)
            \/ pc \in {"stamp", "oops"} /\ f = poll.of
  BY DEF LaidOut, Located
<1>4. Len(frames) \in Nat /\ fate \in [Frames -> {"wire", "ring", "stack", "lost"}]
  BY Ground
<1>5. ASSUME NEW f, Settles(f, at) PROVE Located(at - 1)'
  <2>1. /\ f \in 1 .. Len(frames) /\ fate[f] = "ring"
        /\ dma.left > 0 => f < Len(frames)
        /\ desc[Front].ld => f = desc[Front].of
        /\ pc \in {"stamp", "oops"} => f = poll.of
    BY <1>5 DEF Settles
  <2>2. PICK where \in {"stack", "lost"} : fate' = [fate EXCEPT ![f] = where]
    BY <1>5 DEF Settles
  <2>3. f \in Frames
    BY <1>3, <1>4, <2>1, RxAssumption DEF Frames
  <2>4. \A g \in Frames : fate'[g] = "wire" <=> g > Len(frames)
    BY <1>3, <1>4, <2>1, <2>2, <2>3
  <2>5. dma.left > 0 => fate'[Len(frames)] = "ring"
    <3> SUFFICES ASSUME dma.left > 0 PROVE fate'[Len(frames)] = "ring"
      OBVIOUS
    <3>1. f # Len(frames)
      BY <1>4, <2>1
    <3> QED
      BY <1>3, <2>2, <3>1
  <2>6. ASSUME NEW g \in Frames, fate'[g] = "ring"
        PROVE  \/ \E i \in Slots : Ahead(i)' < at - 1 /\ desc[i].ld /\ desc[i].of = g
               \/ dma.left > 0 /\ g = Len(frames)
    <3>1. g # f /\ fate[g] = "ring"
      BY <1>4, <2>2, <2>3, <2>6
    <3> QED
      BY <1>2, <1>3, <2>1, <3>1
  <2> QED
    BY <1>1, <1>3, <2>4, <2>5, <2>6 DEF Located
<1>6. CASE Skips
  BY <1>1, <1>2, <1>3, <1>6 DEF Located, Skips
<1>7. CASE Awaits
  <2>1. ASSUME NEW g \in Frames, fate[g] = "ring"
        PROVE  \/ \E i \in Slots : Ahead(i)' < at - 1 /\ desc[i].ld /\ desc[i].of = g
               \/ dma.left > 0 /\ g = Len(frames)
               \/ pc' \in {"stamp", "oops"} /\ g = poll'.of
    BY <1>2, <1>3, <1>7, <2>1 DEF Awaits
  <2> QED
    BY <1>1, <1>3, <1>7, <2>1 DEF Located, Awaits
<1> QED
  BY <1>5, <1>6, <1>7

-----------------------------------------------------------------------------
(* The poll puts the frame back whose time stamp is late.                   *)

LEMMA BackPlaces ==
    ASSUME RxInv, NEW at \in 0 .. Room, LaidOut(at), RxStampLate
    PROVE  /\ at \in Nat /\ at < RX_DESC_CNT /\ Room' = Room + 1
           /\ UNCHANGED <<desc, dma, frames, fate>> /\ pc = "stamp" /\ pc' # "stamp"
           /\ Front' \in Slots /\ Front' = Retreat(cur_rx) /\ Advance(Front', 1) = Front
           /\ \A i \in Slots : i = Front' => Ahead(i)' = 0 /\ Ahead(i) = RX_DESC_CNT - 1
           /\ \A i \in Slots : i # Front' => Ahead(i)' = Ahead(i) + 1
<1>1. PutsBack
  BY StampLatePutsBack
<1>2. at \in Nat /\ at < RX_DESC_CNT /\ Room' = Room + 1
  BY <1>1, Ground DEF PutsBack, Room
<1>3. /\ UNCHANGED <<desc, dma, frames, fate>> /\ pc = "stamp" /\ pc' # "stamp"
  BY DEF RxStampLate, LoopEnds
<1>4. Front' \in Slots /\ Front' = Retreat(cur_rx) /\ Advance(Front', 1) = Front
  <2>1. Front' = Retreat(Front) /\ Front = cur_rx /\ Front \in Slots
    BY <1>1, Ground DEF PutsBack
  <2>2. Advance(Retreat(Front), 1) = Front
    BY <2>1, Ground DEF Advance, Retreat
  <2> QED
    BY <2>1, <2>2, RetreatType
<1>5. \A i \in Slots : Ahead(i) = IF i = Front' THEN RX_DESC_CNT - 1 ELSE Ahead(i)' - 1
  <2>1. \A i \in Slots : Dist(Advance(Front', 1), i) =
                            IF i = Front' THEN RX_DESC_CNT - 1 ELSE Dist(Front', i) - 1
    BY <1>4, DistFrom
  <2>2. \A i \in Slots : Ahead(i)' = Dist(Front', i)
    BY DEF Ahead, Dist
  <2> QED
    BY <1>4, <2>1, <2>2 DEF Ahead
<1>6. \A i \in Slots : Ahead(i)' \in Nat /\ (i = Front' => Ahead(i)' = 0)
  <2>1. \A i \in Slots : Ahead(i)' = Dist(Front', i)
    BY DEF Ahead, Dist
  <2>2. \A i \in Slots : Dist(Front', i) \in Slots /\ Dist(i, i) = 0
    BY <1>4, DistType DEF Dist, Slots
  <2> QED
    BY <1>4, <2>1, <2>2, Ground
<1>7. ASSUME NEW i \in Slots, i = Front' PROVE Ahead(i)' = 0 /\ Ahead(i) = RX_DESC_CNT - 1
  BY <1>5, <1>6, <1>7
<1>8. ASSUME NEW i \in Slots, i # Front' PROVE Ahead(i)' = Ahead(i) + 1
  <2>1. Ahead(i) = Ahead(i)' - 1 /\ Ahead(i)' \in Nat
    BY <1>5, <1>6, <1>8
  <2> QED
    BY <2>1
<1> QED
  BY <1>2, <1>3, <1>4, <1>7, <1>8

LEMMA BackHanded ==
    ASSUME RxInv, NEW at \in 0 .. Room, LaidOut(at), RxStampLate
    PROVE  at + 1 \in 0 .. Room' /\ Handed(at + 1)'
<1>1. /\ at \in Nat /\ at < RX_DESC_CNT /\ Room' = Room + 1 /\ Room \in Nat
      /\ UNCHANGED <<desc, dma>>
      /\ Front' \in Slots /\ Front' = Retreat(cur_rx) /\ Advance(Front', 1) = Front
      /\ \A i \in Slots : i = Front' => Ahead(i)' = 0
      /\ \A i \in Slots : i # Front' => Ahead(i)' = Ahead(i) + 1
  BY BackPlaces, Ground
<1>2. dma'.idx = Advance(Front', at + 1)
  <2>1. at + 1 \in 1 .. RX_DESC_CNT /\ (at + 1) - 1 = at
    BY <1>1, Ground
  <2>2. Advance(Advance(Front', 1), at) = Advance(Front', at + 1)
    BY <1>1, <2>1, AdvanceFrom
  <2> QED
    BY <1>1, <2>2 DEF LaidOut, Handed
<1>3. ASSUME NEW i \in Slots
      PROVE  desc'[i].own <=> at + 1 <= Ahead(i)' /\ Ahead(i)' < Room'
  <2>1. CASE i = Front'
    <3>1. ~desc'[i].own
      BY <1>1, <2>1 DEF RxInv, InHand, RxStampLate
    <3>2. ~(at + 1 <= Ahead(i)')
      BY <1>1, <2>1
    <3> QED
      BY <3>1, <3>2
  <2>2. CASE i # Front'
    <3>1. desc'[i].own <=> at <= Ahead(i) /\ Ahead(i) < Room
      BY <1>1 DEF LaidOut, Handed
    <3>2. Ahead(i)' = Ahead(i) + 1 /\ Ahead(i) \in Nat
      BY <1>1, <2>2, Ground
    <3>3. at + 1 <= Ahead(i)' /\ Ahead(i)' < Room' <=> at <= Ahead(i) /\ Ahead(i) < Room
      BY <1>1, <3>2
    <3> QED
      BY <3>1, <3>3
  <2> QED
    BY <2>1, <2>2
<1>4. dma'.idx = Advance(Front, at + 1)'
  BY <1>2 DEF Advance
<1> QED
  BY <1>1, <1>3, <1>4 DEF Handed

LEMMA BackStamp ==
    ASSUME RxInv, NEW at \in 0 .. Room, LaidOut(at), RxStampLate, NEW p \in Nat, NEW f,
           StampAt(at, p, f)
    PROVE  StampAt(at + 1, p + 1, f)'
<1>1. /\ at \in Nat /\ at < RX_DESC_CNT /\ UNCHANGED <<desc, dma, frames>>
      /\ \A i \in Slots : i = Front' => Ahead(i)' = 0
      /\ \A i \in Slots : i # Front' => Ahead(i)' = Ahead(i) + 1
  BY BackPlaces
<1>2. p + 1 <= at + 1 /\ (p + 1 = at + 1 => dma'.owes /\ f = Len(frames'))
  BY <1>1 DEF StampAt
<1>3. ASSUME NEW j \in Slots, Ahead(j)' = p + 1, p + 1 < at + 1
      PROVE  desc'[j].ctxt /\ desc'[j].of = f
  <2>1. j # Front' /\ Ahead(j) \in Nat
    BY <1>1, <1>3, Ground
  <2>2. Ahead(j) = p /\ p < at
    BY <1>1, <1>3, <2>1
  <2> QED
    BY <1>1, <2>2 DEF StampAt
<1> QED
  BY <1>2, <1>3 DEF StampAt

LEMMA BackLaid ==
    ASSUME RxInv, NEW at \in 0 .. Room, LaidOut(at), RxStampLate
    PROVE  LaidOut(at + 1)'
<1>1. /\ at \in Nat /\ at < RX_DESC_CNT
      /\ UNCHANGED <<desc, dma, frames, fate>> /\ pc = "stamp" /\ pc' # "stamp"
      /\ Front' \in Slots /\ Front' = Retreat(cur_rx)
      /\ \A i \in Slots : i = Front' => Ahead(i)' = 0
      /\ \A i \in Slots : i # Front' => Ahead(i)' = Ahead(i) + 1
      /\ \A i \in Slots : Ahead(i) \in Nat
  BY BackPlaces, Ground
<1>2. PICK b \in Slots : b = Front'
  BY <1>1
<1>3. PICK f \in 1 .. Len(frames) : f = poll.of
  BY <1>1 DEF LaidOut, Waiting
<1>4. /\ fate[f] = "ring" /\ ~frames[f].es /\ (dma.left > 0 => f < Len(frames))
      /\ \A i \in Slots : Ahead(i) < at /\ desc[i].ld => f < desc[i].of
      /\ desc[b].ld /\ ~desc[b].ctxt /\ ~desc[b].es /\ desc[b].tsa
  BY <1>1, <1>2, <1>3 DEF LaidOut, Waiting
<1>5. desc[b].of = f
  BY <1>1, <1>2, <1>3 DEF RxInv, InHand
<1>6. \A i \in Slots : i # b => (Ahead(i)' < at + 1 <=> Ahead(i) < at) /\ Ahead(i)' = Ahead(i) + 1
  <2> SUFFICES ASSUME NEW i \in Slots, i # b
               PROVE  (Ahead(i)' < at + 1 <=> Ahead(i) < at) /\ Ahead(i)' = Ahead(i) + 1
    OBVIOUS
  <2>1. Ahead(i)' = Ahead(i) + 1 /\ Ahead(i) \in Nat
    BY <1>1, <1>2
  <2> QED
    BY <1>1, <2>1
<1>7. Ahead(b)' = 0
  BY <1>1, <1>2
<1>8. Reported(at + 1)'
  <2>1. ASSUME NEW i \in Slots, (Ahead(i) < at + 1)' PROVE Status(desc[i])'
    <3>1. CASE i = b
      <4>1. frames[f].es \in BOOLEAN /\ desc[b].es \in BOOLEAN
        <5>1. frames[f] \in Kinds /\ desc[b] \in DescType
          BY Ground
        <5> QED
          BY <5>1, RxAssumption DEF KindType, DescType
      <4> QED
        BY <1>1, <1>3, <1>4, <1>5, <3>1, <4>1 DEF Status
    <3>2. CASE i # b
      <4>1. Status(desc[i])
        BY <1>6, <2>1, <3>2 DEF LaidOut, Reported
      <4> QED
        BY <1>1, <4>1 DEF Status
    <3> QED
      BY <3>1, <3>2
  <2> QED
    BY <2>1 DEF Reported
<1>9. Stamped(at + 1)'
  <2>1. ASSUME NEW i \in Slots, (Ahead(i) < at + 1)', desc'[i].tsa
        PROVE  StampAt(at + 1, Ahead(i) + 1, desc[i].of)'
    <3>1. CASE i = b
      <4>1. StampAt(at, 0, f)
        BY <1>1, <1>3 DEF LaidOut, Stamped
      <4>2. StampAt(at + 1, 0 + 1, f)'
        BY <4>1, BackStamp
      <4> QED
        BY <1>1, <1>5, <1>7, <3>1, <4>2 DEF StampAt
    <3>2. CASE i # b
      <4>1. PICK p, g : p \in Nat /\ p = Ahead(i) + 1 /\ g = desc[i].of
        BY <1>1
      <4>2. StampAt(at, p, g)
        BY <1>1, <1>6, <2>1, <3>2, <4>1 DEF LaidOut, Stamped
      <4>3. StampAt(at + 1, p + 1, g)'
        BY <4>1, <4>2, BackStamp
      <4>4. (Ahead(i) + 1)' = p + 1 /\ (desc[i].of)' = g
        BY <1>1, <1>6, <3>2, <4>1
      <4> QED
        BY <4>3, <4>4 DEF StampAt
    <3> QED
      BY <3>1, <3>2
  <2>2. dma'.owes => dma'.left = 0
    BY <1>1 DEF LaidOut, Stamped
  <2> QED
    BY <1>1, <2>1, <2>2 DEF Stamped
<1>10. Rising(at + 1)'
  <2>1. ASSUME NEW i \in Slots, NEW j \in Slots, Ahead(i)' < Ahead(j)', Ahead(j)' < at + 1,
               desc[i].ld, desc[j].ld
        PROVE  desc[i].of < desc[j].of
    <3>1. j # b
      <4>1. Ahead(i)' \in Nat
        BY <1>1, <1>6, <1>7
      <4> QED
        BY <1>7, <2>1, <4>1
    <3>2. Ahead(j) < at
      BY <1>6, <2>1, <3>1
    <3>3. CASE i = b
      BY <1>4, <1>5, <2>1, <3>2, <3>3
    <3>4. CASE i # b
      <4>1. Ahead(i) < Ahead(j)
        BY <1>1, <1>6, <2>1, <3>1, <3>4
      <4> QED
        BY <2>1, <3>2, <4>1 DEF LaidOut, Rising
    <3> QED
      BY <3>3, <3>4
  <2>2. ASSUME dma.left > 0, NEW i \in Slots, Ahead(i)' < at + 1, desc[i].ld
        PROVE  desc[i].of < Len(frames)
    <3>1. CASE i = b
      BY <1>4, <1>5, <2>2, <3>1
    <3>2. CASE i # b
      BY <1>6, <2>2, <3>2 DEF LaidOut, Rising
    <3> QED
      BY <3>1, <3>2
  <2> QED
    BY <1>1, <2>1, <2>2 DEF Rising
<1>11. Waiting(at + 1)'
  BY <1>1 DEF Waiting
<1>12. Located(at + 1)'
  <2>1. ASSUME NEW g \in Frames, fate[g] = "ring"
        PROVE  \/ \E i \in Slots : Ahead(i)' < at + 1 /\ desc[i].ld /\ desc[i].of = g
               \/ dma.left > 0 /\ g = Len(frames)
    <3>1. CASE g = f
      <4>1. Ahead(b)' < at + 1 /\ desc[b].ld /\ desc[b].of = g
        BY <1>1, <1>4, <1>5, <1>7, <3>1
      <4> QED
        BY <4>1
    <3>2. ASSUME NEW i \in Slots, Ahead(i) < at, desc[i].ld, desc[i].of = g
          PROVE  \E j \in Slots : Ahead(j)' < at + 1 /\ desc[j].ld /\ desc[j].of = g
      <4>1. CASE i = b
        BY <1>1, <1>7, <3>2, <4>1
      <4>2. CASE i # b
        BY <1>6, <3>2, <4>2
      <4> QED
        BY <4>1, <4>2
    <3>3. \/ \E i \in Slots : Ahead(i) < at /\ desc[i].ld /\ desc[i].of = g
          \/ dma.left > 0 /\ g = Len(frames)
          \/ g = f
      BY <1>3, <2>1 DEF LaidOut, Located
    <3> QED
      BY <3>1, <3>2, <3>3
  <2> QED
    BY <1>1, <2>1 DEF LaidOut, Located
<1> QED
  BY <1>8, <1>9, <1>10, <1>11, <1>12, BackHanded DEF LaidOut

LEMMA PassLaid ==
    ASSUME Bearable, RxInv, NEW at \in 0 .. Room, LaidOut(at),
           RxGood \/ RxBad \/ RxStampOops \/ RxWantStamp \/ RxStamp
    PROVE  at - 1 \in 0 .. Room' /\ LaidOut(at - 1)'
<1>1. Pass /\ ((\E f : Settles(f, at)) \/ Skips \/ Awaits)
  BY PollKinds
<1>2. at - 1 \in 0 .. Room' /\ Handed(at - 1)'
  BY <1>1, PassHanded DEF LaidOut
<1>3. Reported(at - 1)' /\ Waiting(at - 1)' /\ Located(at - 1)'
  BY <1>1, PassReported, PassWaiting, PassLocated
<1>4. pc' # "stamp" \/ (desc[Front].tsa /\ poll'.of = desc[Front].of)
  BY <1>1 DEF Settles, Skips, Awaits
<1>5. Stamped(at - 1)' /\ Rising(at - 1)'
  BY <1>1, <1>4, PassStamped, PassRising DEF LaidOut
<1> QED
  BY <1>2, <1>3, <1>5 DEF LaidOut

-----------------------------------------------------------------------------
(* The steps that leave the poll's and the channel's frames alone.          *)

AsBefore(at) ==
    /\ Front' = Front /\ frames' = frames /\ fate' = fate
    /\ dma'.left = dma.left /\ dma'.owes = dma.owes
    /\ pc' = "stamp" <=> pc = "stamp"
    /\ pc' = "oops" <=> pc = "oops"
    /\ pc \in {"stamp", "oops"} => poll'.of = poll.of
    /\ pc = "stamp" => /\ cur_rx' = cur_rx
                       /\ \A i \in Slots : i = Retreat(cur_rx) => desc'[i] = desc[i]
    /\ \A i \in Slots : Ahead(i) < at => desc'[i] = desc[i]

LEMMA SameAhead ==
    ASSUME Front' = Front
    PROVE  \A i \in Slots : Ahead(i)' = Ahead(i)
BY DEF Ahead, Dist

LEMMA LaidAsBefore ==
    ASSUME RxInv, NEW at \in 0 .. Room, LaidOut(at), AsBefore(at)
    PROVE  Reported(at)' /\ Stamped(at)' /\ Rising(at)' /\ Waiting(at)' /\ Located(at)'
<1>1. \A i \in Slots : Ahead(i)' = Ahead(i)
  BY SameAhead DEF AsBefore
<1>2. \A i \in Slots : Ahead(i) < at => desc'[i] = desc[i]
  BY DEF AsBefore
<1>3. Reported(at)'
  <2>1. ASSUME NEW i \in Slots, (Ahead(i) < at)' PROVE Status(desc[i])'
    <3>1. desc'[i] = desc[i] /\ Status(desc[i])
      BY <1>1, <1>2, <2>1 DEF LaidOut, Reported
    <3> QED
      BY <3>1 DEF Status, AsBefore
  <2> QED
    BY <2>1 DEF Reported
<1>4. ASSUME NEW p, NEW f, StampAt(at, p, f) PROVE StampAt(at, p, f)'
  <2>1. p <= at /\ (p = at => dma'.owes /\ f = Len(frames'))
    BY <1>4 DEF StampAt, AsBefore
  <2>2. ASSUME NEW j \in Slots, Ahead(j)' = p, p < at PROVE desc'[j].ctxt /\ desc'[j].of = f
    BY <1>1, <1>2, <1>4, <2>2 DEF StampAt
  <2> QED
    BY <2>1, <2>2 DEF StampAt
<1>5. Stamped(at)'
  <2>1. ASSUME NEW i \in Slots, (Ahead(i) < at)', desc'[i].tsa
        PROVE  StampAt(at, Ahead(i) + 1, desc[i].of)'
    <3>1. PICK p, f : p = Ahead(i) + 1 /\ f = desc[i].of
      OBVIOUS
    <3>2. StampAt(at, p, f)
      BY <1>1, <1>2, <2>1, <3>1 DEF LaidOut, Stamped
    <3>3. StampAt(at, p, f)'
      BY <1>4, <3>2
    <3>4. Ahead(i)' + 1 = p /\ desc'[i].of = f
      BY <1>1, <1>2, <2>1, <3>1
    <3> QED
      BY <3>3, <3>4 DEF StampAt
  <2>2. ASSUME pc' = "stamp" PROVE StampAt(at, 0, poll.of)'
    <3>1. PICK f : f = poll.of
      OBVIOUS
    <3>2. StampAt(at, 0, f)
      BY <2>2, <3>1 DEF LaidOut, Stamped, AsBefore
    <3>3. StampAt(at, 0, f)' /\ poll'.of = f
      BY <1>4, <2>2, <3>1, <3>2 DEF AsBefore
    <3> QED
      BY <3>3 DEF StampAt
  <2>3. dma'.owes => dma'.left = 0
    BY DEF LaidOut, Stamped, AsBefore
  <2> QED
    BY <2>1, <2>2, <2>3 DEF Stamped
<1>6. Rising(at)'
  <2>1. /\ \A i, j \in Slots : Ahead(i) < Ahead(j) /\ Ahead(j) < at /\ desc[i].ld /\ desc[j].ld =>
              desc[i].of < desc[j].of
        /\ dma.left > 0 => \A i \in Slots : Ahead(i) < at /\ desc[i].ld => desc[i].of < Len(frames)
    BY DEF LaidOut, Rising
  <2>2. ASSUME NEW i \in Slots, NEW j \in Slots, Ahead(i)' < Ahead(j)', Ahead(j)' < at,
               desc'[i].ld, desc'[j].ld
        PROVE  desc'[i].of < desc'[j].of
    <3>1. Ahead(i) < Ahead(j) /\ Ahead(j) < at /\ Ahead(i) < at
      <4>1. Ahead(i) < Ahead(j) /\ Ahead(j) < at /\ Ahead(i) \in Nat /\ Ahead(j) \in Nat
        BY <1>1, <2>2, Ground
      <4> QED
        BY <4>1, Ground
    <3> QED
      BY <1>2, <2>1, <2>2, <3>1
  <2>3. ASSUME dma'.left > 0, NEW i \in Slots, Ahead(i)' < at, desc'[i].ld
        PROVE  desc'[i].of < Len(frames')
    BY <1>1, <1>2, <2>1, <2>3 DEF AsBefore
  <2> QED
    BY <2>2, <2>3 DEF Rising
<1>7. Waiting(at)'
  <2> SUFFICES ASSUME pc' = "stamp" PROVE Waiting(at)'
    BY DEF Waiting
  <2>1. /\ poll.of \in 1 .. Len(frames) /\ fate[poll.of] = "ring" /\ ~frames[poll.of].es
        /\ dma.left > 0 => poll.of < Len(frames)
        /\ \A i \in Slots : Ahead(i) < at /\ desc[i].ld => poll.of < desc[i].of
        /\ \A i \in Slots : i = Retreat(cur_rx) =>
              desc[i].ld /\ ~desc[i].ctxt /\ ~desc[i].es /\ desc[i].tsa
    BY DEF LaidOut, Waiting, AsBefore
  <2>2. /\ poll'.of = poll.of /\ Retreat(cur_rx)' = Retreat(cur_rx)
        /\ frames' = frames /\ fate' = fate /\ dma'.left = dma.left
        /\ \A i \in Slots : i = Retreat(cur_rx) => desc'[i] = desc[i]
    BY DEF AsBefore, Retreat
  <2>3. \A i \in Slots : Ahead(i)' < at /\ desc'[i].ld => poll'.of < desc'[i].of
    BY <1>1, <1>2, <2>1, <2>2
  <2>4. \A i \in Slots : i = Retreat(cur_rx)' =>
              desc'[i].ld /\ ~desc'[i].ctxt /\ ~desc'[i].es /\ desc'[i].tsa
    BY <2>1, <2>2
  <2> QED
    BY <2>1, <2>2, <2>3, <2>4 DEF Waiting
<1>8. Located(at)'
  <2>1. ASSUME NEW f \in Frames, fate[f] = "ring"
        PROVE  \/ \E i \in Slots : Ahead(i)' < at /\ desc'[i].ld /\ desc'[i].of = f
               \/ dma'.left > 0 /\ f = Len(frames)
               \/ pc' \in {"stamp", "oops"} /\ f = poll'.of
    BY <1>1, <1>2, <2>1 DEF LaidOut, Located, AsBefore
  <2> QED
    BY <2>1 DEF LaidOut, Located, AsBefore
<1> QED
  BY <1>3, <1>5, <1>6, <1>7, <1>8

LEMMA DistBack ==
    ASSUME NEW from \in Slots, NEW n \in 1 .. RX_DESC_CNT
    PROVE  Dist(Advance(from, n), from) = RX_DESC_CNT - n
BY RxAssumption DEF Dist, Advance, Slots

\* The refill arms the slot where the channel's slots end.
LEMMA RefillLaid ==
    ASSUME RxInv, NEW at \in 0 .. Room, LaidOut(at), RefillOne
    PROVE  at \in 0 .. Room' /\ LaidOut(at)'
<1>1. /\ Behind \in 1 .. RX_DESC_CNT /\ Behind' = Behind - 1 /\ Front' = Front
      /\ Front = Advance(skb_realloc_idx, Behind)
  BY RefillArms DEF Arms, RxInv, WindowKept
<1>2. Room \in Nat /\ at \in Nat /\ at <= Room /\ RX_DESC_CNT \in Nat /\ skb_realloc_idx \in Slots
  BY Ground
<1>3. Room' = Room + 1
  BY <1>1, <1>2 DEF Room
<1>4. PICK r \in Slots : r = skb_realloc_idx
  BY <1>2
<1>5. Ahead(r) = Room
  BY <1>1, <1>4, DistBack DEF Ahead, Room
<1>6. PICK skb \in Nat : desc' = [desc EXCEPT ![r] = Armed(skb)]
  BY <1>4, RefillEffect
<1>7. /\ UNCHANGED <<frames, fate, dma>> /\ pc = "refill" /\ pc' = "refill"
  BY DEF RefillOne
<1>8. \A i \in Slots : i # r => desc'[i] = desc[i]
  BY <1>6
<1>9. desc'[r].own
  BY <1>6, Ground DEF Armed
<1>10. AsBefore(at)
  <2>1. \A i \in Slots : Ahead(i) < at => i # r
    BY <1>2, <1>5
  <2> QED
    BY <1>1, <1>7, <1>8, <2>1 DEF AsBefore
<1>11. Handed(at)'
  <2>1. \A i \in Slots : Ahead(i)' = Ahead(i) /\ Ahead(i) \in Nat
    BY <1>1, SameAhead, Ground
  <2>2. \A i \in Slots : i # r => Ahead(i) # Room
    BY <1>5, Ground
  <2>3. ASSUME NEW i \in Slots PROVE desc'[i].own <=> at <= Ahead(i)' /\ Ahead(i)' < Room'
    <3>1. CASE i = r
      BY <1>2, <1>3, <1>5, <1>9, <2>1, <3>1
    <3>2. CASE i # r
      <4>1. desc'[i].own <=> at <= Ahead(i) /\ Ahead(i) < Room
        BY <1>8, <3>2 DEF LaidOut, Handed
      <4>2. Ahead(i) < Room <=> Ahead(i) < Room + 1
        <5>1. Ahead(i) \in Nat /\ Ahead(i) # Room
          BY <2>1, <2>2, <3>2
        <5> QED
          BY <1>2, <5>1
      <4> QED
        BY <1>3, <2>1, <4>1, <4>2
    <3> QED
      BY <3>1, <3>2
  <2>4. dma'.idx = Advance(Front, at)'
    BY <1>1, <1>7 DEF LaidOut, Handed, Advance
  <2> QED
    BY <2>3, <2>4 DEF Handed
<1> QED
  BY <1>2, <1>3, <1>10, <1>11, LaidAsBefore DEF LaidOut

LEMMA QuietLaid ==
    ASSUME RxInv, NEW at \in 0 .. Room, LaidOut(at),
           \/ PollStart \/ RxEnd \/ RefillEnd \/ RefillFails
           \/ HwtstampIoctl \/ DmaSuspend \/ UNCHANGED vars
    PROVE  at \in 0 .. Room' /\ LaidOut(at)'
<1>1. Stays
  BY RefillDoneStays, OthersStay DEF Dma
<1>2. UNCHANGED <<desc, frames, fate>>
  BY DEF PollStart, RxEnd, RefillEnd, RefillFails, RefillDone, HwtstampIoctl, DmaSuspend, vars
<1>3. dma'.idx = dma.idx /\ dma'.left = dma.left /\ dma'.owes = dma.owes
  <2>1. dma \in DmaType
    BY DEF RxInv, RingTypes
  <2>2. \/ dma' = dma
        \/ dma' = [dma EXCEPT !.run = FALSE]
        \/ dma' = [dma EXCEPT !.run = TRUE, !.tail = Retreat(skb_realloc_idx)]
    BY DEF PollStart, RxEnd, RefillEnd, RefillFails, RefillDone, HwtstampIoctl, DmaSuspend, vars
  <2> QED
    BY <2>1, <2>2 DEF DmaType
<1>4. \/ pc \notin {"stamp", "oops"} /\ pc' \notin {"stamp", "oops"}
      \/ UNCHANGED <<pc, poll, cur_rx>>
  <2>1. CASE HwtstampIoctl \/ DmaSuspend \/ UNCHANGED vars
    BY <2>1 DEF HwtstampIoctl, DmaSuspend, vars, ring
  <2>2. CASE PollStart \/ RxEnd \/ RefillEnd \/ RefillFails
    BY <2>2 DEF PollStart, RxEnd, LoopEnds, RefillEnd, RefillFails, RefillDone, RxInv, RingTypes,
       PollType
  <2> QED
    BY <2>1, <2>2
<1>5. AsBefore(at)
  BY <1>1, <1>2, <1>3, <1>4 DEF AsBefore, Stays
<1>6. Handed(at)' /\ Room' = Room
  <2>1. Room' = Room
    BY <1>1 DEF Stays, Room
  <2>2. \A i \in Slots : Ahead(i)' = Ahead(i)
    BY <1>1, SameAhead DEF Stays
  <2>3. dma'.idx = Advance(Front, at)'
    BY <1>1, <1>3 DEF Stays, LaidOut, Handed, Advance
  <2>4. \A i \in Slots : desc'[i].own <=> at <= Ahead(i)' /\ Ahead(i)' < Room'
    BY <1>2, <2>1, <2>2 DEF LaidOut, Handed
  <2> QED
    BY <2>1, <2>3, <2>4 DEF Handed
<1> QED
  BY <1>5, <1>6, LaidAsBefore DEF LaidOut

-----------------------------------------------------------------------------
(* A frame arrives.                                                         *)

LEMMA ArrivalFacts ==
    ASSUME RxInv, NEW at \in 0 .. Room, LaidOut(at),
           NEW k \in Kinds, FrameEnters(k) \/ FrameMissed(k)
    PROVE  /\ Len(frames) \in Nat /\ Len(frames) < NumFrames
           /\ frames' \in Seq(Kinds) /\ Len(frames') = Len(frames) + 1
           /\ \A f \in 1 .. Len(frames) : frames'[f] = frames[f] /\ fate'[f] = fate[f]
           /\ \A f \in Frames : f # Len(frames) + 1 => fate'[f] = fate[f]
           /\ Len(frames) + 1 \in Frames
           /\ \/ fate'[Len(frames) + 1] = "ring" /\ dma'.left > 0
              \/ fate'[Len(frames) + 1] = "lost" /\ dma'.left = 0
           /\ dma.left = 0 /\ ~dma.owes /\ ~dma'.owes /\ dma'.idx = dma.idx
           /\ Stays /\ UNCHANGED <<pc, poll, desc, cur_rx>>
<1> DEFINE n == Len(frames)
<1>1. n \in Nat /\ frames \in Seq(Kinds) /\ fate \in [Frames -> {"wire", "ring", "stack", "lost"}]
  BY Ground
<1>2. /\ n < NumFrames /\ frames' = Append(frames, k) /\ dma.left = 0 /\ ~dma.owes
      /\ UNCHANGED <<pc, poll, desc, cur_rx>>
  BY DEF FrameEnters, FrameMissed, Arrives, Between, ring
<1>3. n + 1 \in Frames
  BY <1>1, <1>2, RxAssumption DEF Frames
<1>4. PICK where \in {"ring", "lost"} :
         /\ fate' = [fate EXCEPT ![n + 1] = where]
         /\ \/ where = "ring" /\ dma' = [dma EXCEPT !.left = k.descs]
            \/ where = "lost" /\ dma' = dma
  BY DEF FrameEnters, FrameMissed, Arrives
<1>5. frames' \in Seq(Kinds) /\ Len(frames') = n + 1 /\ \A f \in 1 .. n : frames'[f] = frames[f]
  BY <1>1, <1>2
<1>6. \A f \in Frames : f # n + 1 => fate'[f] = fate[f]
  BY <1>1, <1>4
<1>7. fate'[n + 1] = where
  BY <1>1, <1>3, <1>4
<1>8. \A f \in 1 .. n : fate'[f] = fate[f]
  BY <1>1, <1>2, <1>6, RxAssumption DEF Frames
<1>9. k.descs \in Nat \ {0}
  BY RxAssumption DEF KindType
<1>10. dma \in DmaType
  BY DEF RxInv, RingTypes
<1>11. /\ ~dma'.owes /\ dma'.idx = dma.idx
       /\ where = "ring" => dma'.left > 0
       /\ where = "lost" => dma'.left = 0
  BY <1>2, <1>4, <1>9, <1>10 DEF DmaType
<1>12. Stays
  BY OthersStay DEF Wire
<1> QED
  BY <1>1, <1>2, <1>3, <1>4, <1>5, <1>6, <1>7, <1>8, <1>11, <1>12

LEMMA ArrivalLaid ==
    ASSUME RxInv, NEW at \in 0 .. Room, LaidOut(at),
           NEW k \in Kinds, FrameEnters(k) \/ FrameMissed(k)
    PROVE  at \in 0 .. Room' /\ LaidOut(at)'
<1> DEFINE n == Len(frames)
<1>1. /\ n \in Nat /\ n < NumFrames /\ Len(frames') = n + 1
      /\ \A f \in 1 .. n : frames'[f] = frames[f] /\ fate'[f] = fate[f]
      /\ \A f \in Frames : f # n + 1 => fate'[f] = fate[f]
      /\ n + 1 \in Frames
      /\ \/ fate'[n + 1] = "ring" /\ dma'.left > 0
         \/ fate'[n + 1] = "lost" /\ dma'.left = 0
      /\ dma.left = 0 /\ ~dma.owes /\ ~dma'.owes /\ dma'.idx = dma.idx
      /\ Stays /\ UNCHANGED <<pc, poll, desc, cur_rx>>
  BY ArrivalFacts
<1> HIDE DEF n
<1>2. \A i \in Slots : Ahead(i)' = Ahead(i)
  BY <1>1, SameAhead DEF Stays
<1>3. Room' = Room
  BY <1>1 DEF Stays, Room
<1>4. Handed(at)'
  <2>1. dma'.idx = Advance(Front, at)'
    BY <1>1 DEF Stays, LaidOut, Handed, Advance
  <2>2. \A i \in Slots : desc'[i].own <=> at <= Ahead(i)' /\ Ahead(i)' < Room'
    BY <1>1, <1>2, <1>3 DEF LaidOut, Handed
  <2> QED
    BY <2>1, <2>2 DEF Handed
<1>5. \A i \in Slots : Ahead(i) < at => Status(desc[i]) /\ desc[i].of \in 1 .. n
  BY DEF LaidOut, Reported, Status, n
<1>6. Reported(at)'
  <2>1. ASSUME NEW i \in Slots, (Ahead(i) < at)' PROVE Status(desc[i])'
    <3>1. Status(desc[i]) /\ desc[i].of \in 1 .. n /\ desc'[i] = desc[i]
      BY <1>1, <1>2, <1>5, <2>1
    <3>2. desc[i].of \in 1 .. Len(frames')
      BY <1>1, <3>1
    <3>3. frames'[desc[i].of] = frames[desc[i].of] /\ fate'[desc[i].of] = fate[desc[i].of]
      BY <1>1, <3>1
    <3> QED
      BY <3>1, <3>2, <3>3 DEF Status
  <2> QED
    BY <2>1 DEF Reported
<1>7. ASSUME NEW p, NEW f, StampAt(at, p, f) PROVE StampAt(at, p, f)'
  BY <1>1, <1>2, <1>7 DEF StampAt
<1>8. Stamped(at)'
  <2>1. ASSUME NEW i \in Slots, (Ahead(i) < at)', desc'[i].tsa
        PROVE  StampAt(at, Ahead(i) + 1, desc[i].of)'
    <3>1. PICK p, f : p = Ahead(i) + 1 /\ f = desc[i].of
      OBVIOUS
    <3>2. StampAt(at, p, f)
      BY <1>1, <1>2, <2>1, <3>1 DEF LaidOut, Stamped
    <3>3. StampAt(at, p, f)'
      BY <1>7, <3>2
    <3>4. Ahead(i)' + 1 = p /\ desc'[i].of = f
      BY <1>1, <1>2, <2>1, <3>1
    <3> QED
      BY <3>3, <3>4 DEF StampAt
  <2>2. ASSUME pc' = "stamp" PROVE StampAt(at, 0, poll.of)'
    <3>1. PICK f : f = poll.of
      OBVIOUS
    <3>2. StampAt(at, 0, f)
      BY <1>1, <2>2, <3>1 DEF LaidOut, Stamped
    <3>3. StampAt(at, 0, f)' /\ poll'.of = f
      BY <1>1, <1>7, <3>1, <3>2
    <3> QED
      BY <3>3 DEF StampAt
  <2> QED
    BY <1>1, <2>1, <2>2 DEF Stamped
<1>9. Rising(at)'
  <2>1. \A i, j \in Slots : (Ahead(i) < Ahead(j))' /\ (Ahead(j) < at)' /\ desc'[i].ld /\ desc'[j].ld =>
              desc'[i].of < desc'[j].of
    BY <1>1, <1>2 DEF LaidOut, Rising
  <2>2. \A i \in Slots : (Ahead(i) < at)' => desc'[i].of < Len(frames')
    BY <1>1, <1>2, <1>5
  <2> QED
    BY <2>1, <2>2 DEF Rising
<1>10. Waiting(at)'
  <2> SUFFICES ASSUME pc = "stamp" PROVE Waiting(at)'
    BY <1>1 DEF Waiting
  <2>1. /\ poll.of \in 1 .. n /\ fate[poll.of] = "ring" /\ ~frames[poll.of].es
        /\ \A i \in Slots : Ahead(i) < at /\ desc[i].ld => poll.of < desc[i].of
        /\ \A i \in Slots : i = Retreat(cur_rx) =>
              desc[i].ld /\ ~desc[i].ctxt /\ ~desc[i].es /\ desc[i].tsa
    BY DEF LaidOut, Waiting, n
  <2>2. poll'.of \in 1 .. Len(frames') /\ poll'.of < Len(frames')
    BY <1>1, <2>1
  <2>3. fate'[poll'.of] = "ring" /\ ~frames'[poll'.of].es
    BY <1>1, <2>1
  <2>4. \A i \in Slots : (Ahead(i) < at)' /\ desc'[i].ld => poll'.of < desc'[i].of
    BY <1>1, <1>2, <2>1
  <2>5. \A i \in Slots : i = Retreat(cur_rx)' =>
              desc'[i].ld /\ ~desc'[i].ctxt /\ ~desc'[i].es /\ desc'[i].tsa
    BY <1>1, <2>1 DEF Retreat
  <2> QED
    BY <2>2, <2>3, <2>4, <2>5 DEF Waiting
<1>11. Located(at)'
  <2>1. \A f \in Frames : fate[f] = "wire" <=> f > n
    BY DEF LaidOut, Located, n
  <2>2. \A f \in Frames : fate'[f] = "wire" <=> f > n + 1
    <3> SUFFICES ASSUME NEW f \in Frames PROVE fate'[f] = "wire" <=> f > n + 1
      OBVIOUS
    <3>1. f \in Nat
      BY RxAssumption DEF Frames
    <3>2. CASE f = n + 1
      BY <1>1, <3>1, <3>2
    <3>3. CASE f # n + 1
      BY <1>1, <2>1, <3>1, <3>3
    <3> QED
      BY <3>2, <3>3
  <2>3. ASSUME NEW f \in Frames, fate'[f] = "ring"
        PROVE  \/ \E i \in Slots : (Ahead(i) < at)' /\ desc'[i].ld /\ desc'[i].of = f
               \/ dma'.left > 0 /\ f = Len(frames')
               \/ pc' \in {"stamp", "oops"} /\ f = poll'.of
    <3>1. CASE f = n + 1
      BY <1>1, <2>3, <3>1
    <3>2. CASE f # n + 1
      <4>1. fate[f] = "ring"
        BY <1>1, <2>3, <3>2
      <4>2. \/ \E i \in Slots : Ahead(i) < at /\ desc[i].ld /\ desc[i].of = f
            \/ pc \in {"stamp", "oops"} /\ f = poll.of
        BY <1>1, <4>1 DEF LaidOut, Located
      <4> QED
        BY <1>1, <1>2, <4>2
    <3> QED
      BY <3>1, <3>2
  <2>4. Len(frames') <= NumFrames
    BY <1>1, RxAssumption
  <2>5. dma'.left > 0 => fate'[Len(frames')] = "ring"
    BY <1>1
  <2> QED
    BY <1>1, <2>2, <2>3, <2>4, <2>5 DEF Located
<1> QED
  BY <1>3, <1>4, <1>6, <1>8, <1>9, <1>10, <1>11 DEF LaidOut

-----------------------------------------------------------------------------
(* The channel writes the descriptor in place "at".                         *)

Writes(at, r) ==
    /\ at \in Nat /\ at < Room /\ Ahead(dma.idx) = at
    /\ Stays /\ UNCHANGED <<pc, poll, cur_rx, frames, fate>>
    /\ dma'.idx = Advance(dma.idx, 1)
    /\ desc' = [desc EXCEPT ![dma.idx] = r] /\ ~r.own /\ r.of = Len(frames)
    /\ Len(frames) \in 1 .. Len(frames)

LEMMA DataWrites ==
    ASSUME RxInv, NEW at \in 0 .. Room, LaidOut(at), DmaData
    PROVE  \E r : /\ Writes(at, r) /\ ~r.ctxt
                  /\ r.ld <=> dma.left = 1
                  /\ r.tsa => r.ld
                  /\ r.es <=> r.ld /\ frames[Len(frames)].es
                  /\ dma.left > 0 /\ dma'.left = dma.left - 1 /\ dma'.owes = r.tsa
<1> DEFINE f == Len(frames)
           last == dma.left = 1
           stamped == last /\ frames[f].stamp # "none"
           r == [own |-> FALSE, addr |-> desc[dma.idx].addr, ctxt |-> FALSE, ld |-> last,
                 es |-> last /\ frames[f].es, tsa |-> stamped, corrupt |-> FALSE, of |-> f]
<1>1. /\ desc' = [desc EXCEPT ![dma.idx] = r] /\ desc[dma.idx].own
      /\ dma' = [dma EXCEPT !.idx = Advance(@, 1), !.left = @ - 1, !.owes = stamped]
      /\ UNCHANGED <<pc, poll, cur_rx, frames, fate>> /\ dma.left > 0
  BY DEF DmaData, WriteBack, ring
<1>2. dma \in DmaType
  BY DEF RxInv, RingTypes
<1>3. dma'.idx = Advance(dma.idx, 1) /\ dma'.left = dma.left - 1 /\ dma'.owes = stamped
  BY <1>1, <1>2 DEF DmaType
<1>4. at \in Nat /\ Ahead(dma.idx) = at /\ at < Room
  BY <1>1, DmaPlace DEF LaidOut
<1>5. Stays
  BY OthersStay DEF Dma
<1>6. f \in 1 .. f
  BY <1>1, Ground
<1>7. /\ ~r.own /\ r.of = f /\ ~r.ctxt /\ r.ld = last /\ r.tsa = stamped
      /\ r.es = (last /\ frames[f].es)
  OBVIOUS
<1>8. stamped => last
  OBVIOUS
<1> HIDE DEF r, stamped
<1>9. Writes(at, r)
  BY <1>1, <1>3, <1>4, <1>5, <1>6, <1>7 DEF Writes
<1> QED
  BY <1>1, <1>3, <1>7, <1>8, <1>9

LEMMA StampWrites ==
    ASSUME RxInv, NEW at \in 0 .. Room, LaidOut(at), DmaStamp
    PROVE  \E r : /\ Writes(at, r) /\ r.ctxt /\ ~r.ld /\ ~r.tsa
                  /\ dma.owes /\ ~dma'.owes /\ dma'.left = dma.left /\ dma.left = 0
<1> DEFINE f == Len(frames)
           r == [own |-> FALSE, addr |-> desc[dma.idx].addr, ctxt |-> TRUE, ld |-> FALSE,
                 es |-> FALSE, tsa |-> FALSE, corrupt |-> frames[f].stamp = "corrupt",
                 of |-> f]
<1>1. /\ desc' = [desc EXCEPT ![dma.idx] = r] /\ desc[dma.idx].own
      /\ dma' = [dma EXCEPT !.idx = Advance(@, 1), !.owes = FALSE]
      /\ UNCHANGED <<pc, poll, cur_rx, frames, fate>> /\ dma.owes
  BY DEF DmaStamp, WriteBack, ring
<1>2. dma \in DmaType
  BY DEF RxInv, RingTypes
<1>3. dma'.idx = Advance(dma.idx, 1) /\ dma'.left = dma.left /\ ~dma'.owes
  BY <1>1, <1>2 DEF DmaType
<1>4. at \in Nat /\ Ahead(dma.idx) = at /\ at < Room
  BY <1>1, DmaPlace DEF LaidOut
<1>5. Stays
  BY OthersStay DEF Dma
<1>6. f \in 1 .. f
  BY <1>1, Ground
<1>7. ~r.own /\ r.of = f /\ r.ctxt /\ ~r.ld /\ ~r.tsa
  OBVIOUS
<1>8. dma.left = 0
  BY <1>1 DEF LaidOut, Stamped
<1> HIDE DEF r
<1>9. Writes(at, r)
  BY <1>1, <1>3, <1>4, <1>5, <1>6, <1>7 DEF Writes
<1> QED
  BY <1>1, <1>3, <1>7, <1>8, <1>9

LEMMA WriteFacts ==
    ASSUME RxInv, NEW at \in 0 .. Room, LaidOut(at), NEW r, Writes(at, r)
    PROVE  /\ dma.idx \in Slots /\ desc'[dma.idx] = r
           /\ \A i \in Slots : i # dma.idx => desc'[i] = desc[i] /\ Ahead(i) # at
           /\ \A i \in Slots : Ahead(i)' = Ahead(i)
           /\ \A i \in Slots : Ahead(i) < at + 1 /\ i # dma.idx => Ahead(i) < at
           /\ Room' = Room /\ at + 1 \in 0 .. Room' /\ Handed(at + 1)'
<1>1. /\ dma.idx \in Slots /\ desc \in [Slots -> DescType] /\ Room \in Nat /\ Room <= RX_DESC_CNT
      /\ RX_DESC_CNT \in Nat
      /\ at \in Nat /\ at < Room
      /\ \A i \in Slots : Ahead(i) \in Nat
      /\ \A i, j \in Slots : Ahead(i) = Ahead(j) => i = j
  BY Ground DEF Writes
<1>2. desc'[dma.idx] = r /\ \A i \in Slots : i # dma.idx => desc'[i] = desc[i]
  BY <1>1 DEF Writes
<1>3. \A i \in Slots : i # dma.idx => Ahead(i) # at
  BY <1>1 DEF Writes
<1>4. \A i \in Slots : Ahead(i)' = Ahead(i)
  BY SameAhead DEF Writes, Stays
<1>5. \A i \in Slots : Ahead(i) < at + 1 /\ i # dma.idx => Ahead(i) < at
  BY <1>1, <1>3
<1>6. Room' = Room
  BY DEF Writes, Stays, Room
<1>7. dma'.idx = Advance(Front, at + 1)'
  <2>1. at \in 0 .. RX_DESC_CNT - 1 /\ Front \in Slots
    BY <1>1, Ground
  <2>2. Advance(Advance(Front, at), 1) = Advance(Front, at + 1)
    BY <2>1, AdvanceNext
  <2> QED
    BY <2>2 DEF Writes, Stays, LaidOut, Handed, Advance
<1>8. ASSUME NEW i \in Slots
      PROVE  desc'[i].own <=> at + 1 <= Ahead(i)' /\ Ahead(i)' < Room'
  <2>1. CASE i = dma.idx
    <3>1. Ahead(i)' = at /\ ~desc'[i].own
      BY <1>2, <1>4, <2>1 DEF Writes
    <3> QED
      BY <1>1, <3>1
  <2>2. CASE i # dma.idx
    <3>1. desc'[i].own <=> at <= Ahead(i) /\ Ahead(i) < Room
      BY <1>2, <2>2 DEF LaidOut, Handed
    <3>2. at <= Ahead(i) <=> at + 1 <= Ahead(i)
      BY <1>1, <1>3, <2>2
    <3> QED
      BY <1>4, <1>6, <3>1, <3>2
  <2> QED
    BY <2>1, <2>2
<1> QED
  BY <1>1, <1>2, <1>3, <1>4, <1>5, <1>6, <1>7, <1>8 DEF Handed

\* What the step leaves of the frame that waits for its time stamp.
LEMMA WriteWaiting ==
    ASSUME RxInv, NEW at \in 0 .. Room, LaidOut(at), NEW r, Writes(at, r),
           r.ld => dma.left > 0, dma'.left > 0 => dma.left > 0
    PROVE  Waiting(at + 1)'
<1> SUFFICES ASSUME pc = "stamp" PROVE Waiting(at + 1)'
  BY DEF Waiting, Writes
<1>1. /\ dma.idx \in Slots /\ desc'[dma.idx] = r
      /\ \A i \in Slots : i # dma.idx => desc'[i] = desc[i]
      /\ \A i \in Slots : Ahead(i)' = Ahead(i)
      /\ \A i \in Slots : Ahead(i) < at + 1 /\ i # dma.idx => Ahead(i) < at
  BY WriteFacts
<1>2. /\ poll.of \in 1 .. Len(frames) /\ fate[poll.of] = "ring" /\ ~frames[poll.of].es
      /\ dma.left > 0 => poll.of < Len(frames)
      /\ \A i \in Slots : Ahead(i) < at /\ desc[i].ld => poll.of < desc[i].of
      /\ \A i \in Slots : i = Retreat(cur_rx) =>
            desc[i].ld /\ ~desc[i].ctxt /\ ~desc[i].es /\ desc[i].tsa
  BY DEF LaidOut, Waiting
<1>3. UNCHANGED <<pc, poll, cur_rx, frames, fate>> /\ r.of = Len(frames)
  BY DEF Writes
<1>4. dma.idx # Retreat(cur_rx)
  <2>1. desc[dma.idx].own
    <3>1. at \in Nat /\ at <= Ahead(dma.idx) /\ Ahead(dma.idx) < Room
      BY DEF Writes
    <3> QED
      BY <1>1, <3>1 DEF LaidOut, Handed
  <2>2. ~desc[Retreat(cur_rx)].own
    BY DEF RxInv, InHand
  <2> QED
    BY <2>1, <2>2
<1>5. ASSUME NEW i \in Slots, (Ahead(i) < at + 1)', desc'[i].ld PROVE poll.of < desc'[i].of
  <2>1. CASE i = dma.idx
    BY <1>1, <1>2, <1>3, <1>5, <2>1
  <2>2. CASE i # dma.idx
    BY <1>1, <1>2, <1>5, <2>2
  <2> QED
    BY <2>1, <2>2
<1>6. \A i \in Slots : i = Retreat(cur_rx)' =>
            desc'[i].ld /\ ~desc'[i].ctxt /\ ~desc'[i].es /\ desc'[i].tsa
  BY <1>1, <1>2, <1>3, <1>4 DEF Retreat
<1> QED
  BY <1>2, <1>3, <1>5, <1>6 DEF Waiting

LEMMA DataLaid ==
    ASSUME RxInv, NEW at \in 0 .. Room, LaidOut(at), DmaData
    PROVE  at + 1 \in 0 .. Room' /\ LaidOut(at + 1)'
<1>1. PICK r : /\ Writes(at, r) /\ ~r.ctxt
               /\ r.ld <=> dma.left = 1
               /\ r.tsa => r.ld
               /\ r.es <=> r.ld /\ frames[Len(frames)].es
               /\ dma.left > 0 /\ dma'.left = dma.left - 1 /\ dma'.owes = r.tsa
  BY DataWrites
<1>2. /\ dma.idx \in Slots /\ desc'[dma.idx] = r
      /\ \A i \in Slots : i # dma.idx => desc'[i] = desc[i] /\ Ahead(i) # at
      /\ \A i \in Slots : Ahead(i)' = Ahead(i)
      /\ \A i \in Slots : Ahead(i) < at + 1 /\ i # dma.idx => Ahead(i) < at
      /\ Room' = Room /\ at + 1 \in 0 .. Room' /\ Handed(at + 1)'
  BY <1>1, WriteFacts
<1>3. /\ UNCHANGED <<pc, poll, cur_rx, frames, fate>> /\ r.of = Len(frames)
      /\ at \in Nat /\ Ahead(dma.idx) = at /\ Len(frames) \in 1 .. Len(frames)
  BY <1>1 DEF Writes
<1>4. dma.left \in Nat /\ ~dma.owes /\ fate[Len(frames)] = "ring"
  BY <1>1, Ground DEF LaidOut, Stamped, Located
<1>5. Reported(at + 1)'
  <2>1. ASSUME NEW i \in Slots, (Ahead(i) < at + 1)' PROVE Status(desc[i])'
    <3>1. CASE i = dma.idx
      <4>1. /\ r.of \in 1 .. Len(frames) /\ ~(r.ld /\ r.ctxt) /\ (r.tsa => r.ld)
            /\ fate[r.of] = "ring"
        BY <1>1, <1>3, <1>4
      <4>2. r.ld => r.es = frames[r.of].es
        <5>1. frames[r.of].es \in BOOLEAN
          <6>1. frames[r.of] \in Kinds
            BY <1>3, Ground
          <6> QED
            BY <6>1, RxAssumption DEF KindType
        <5>2. r.es \in BOOLEAN
          <6>1. desc'[dma.idx] \in DescType
            BY <1>2, RxTypeStep DEF RingTypes, Next, Dma
          <6> QED
            BY <1>2, <6>1 DEF DescType
        <5> QED
          BY <1>1, <1>3, <5>1, <5>2
      <4> QED
        BY <1>2, <1>3, <3>1, <4>1, <4>2 DEF Status
    <3>2. CASE i # dma.idx
      <4>1. Status(desc[i]) /\ desc'[i] = desc[i]
        BY <1>2, <2>1, <3>2 DEF LaidOut, Reported
      <4> QED
        BY <1>3, <4>1 DEF Status
    <3> QED
      BY <3>1, <3>2
  <2> QED
    BY <2>1 DEF Reported
<1>6. ASSUME NEW p, NEW f, StampAt(at, p, f), p \in Int PROVE StampAt(at + 1, p, f)'
  <2>1. p < at
    BY <1>3, <1>4, <1>6 DEF StampAt
  <2>2. p <= at + 1 /\ p # at + 1
    BY <1>3, <1>6, <2>1
  <2>3. ASSUME NEW j \in Slots, Ahead(j)' = p PROVE desc'[j].ctxt /\ desc'[j].of = f
    <3>1. Ahead(j) = p /\ j # dma.idx
      BY <1>2, <1>3, <2>1, <2>3
    <3> QED
      BY <1>2, <1>6, <2>1, <3>1 DEF StampAt
  <2> QED
    BY <2>2, <2>3 DEF StampAt
<1>7. Stamped(at + 1)'
  <2>1. ASSUME NEW i \in Slots, (Ahead(i) < at + 1)', desc'[i].tsa
        PROVE  StampAt(at + 1, Ahead(i) + 1, desc[i].of)'
    <3>1. PICK p, f : p = Ahead(i) + 1 /\ f = desc'[i].of
      OBVIOUS
    <3>2. p \in Int
      BY <3>1, Ground
    <3>3. StampAt(at + 1, p, f)'
      <4>1. CASE i = dma.idx
        <5>1. p = at + 1 /\ f = Len(frames) /\ dma'.owes
          BY <1>1, <1>2, <1>3, <2>1, <3>1, <4>1
        <5> QED
          BY <1>3, <5>1 DEF StampAt
      <4>2. CASE i # dma.idx
        <5>1. StampAt(at, p, f)
          BY <1>2, <2>1, <3>1, <4>2 DEF LaidOut, Stamped
        <5> QED
          BY <1>6, <3>2, <5>1
      <4> QED
        BY <4>1, <4>2
    <3>4. Ahead(i)' + 1 = p /\ desc'[i].of = f
      BY <1>2, <3>1
    <3> QED
      BY <3>3, <3>4 DEF StampAt
  <2>2. ASSUME pc' = "stamp" PROVE StampAt(at + 1, 0, poll.of)'
    <3>1. PICK f : f = poll.of
      OBVIOUS
    <3>2. StampAt(at, 0, f)
      BY <1>3, <2>2, <3>1 DEF LaidOut, Stamped
    <3>3. StampAt(at + 1, 0, f)' /\ poll'.of = f
      BY <1>3, <1>6, <3>1, <3>2
    <3> QED
      BY <3>3 DEF StampAt
  <2>3. dma'.owes => dma'.left = 0
    BY <1>1, <1>4
  <2> QED
    BY <2>1, <2>2, <2>3 DEF Stamped
<1>8. /\ \A i, j \in Slots : Ahead(i) < Ahead(j) /\ Ahead(j) < at /\ desc[i].ld /\ desc[j].ld =>
            desc[i].of < desc[j].of
      /\ \A i \in Slots : Ahead(i) < at /\ desc[i].ld => desc[i].of < Len(frames)
  BY <1>1 DEF LaidOut, Rising
<1>9. Rising(at + 1)'
  <2>1. ASSUME NEW i \in Slots, NEW j \in Slots, Ahead(i) < Ahead(j), Ahead(j) < at + 1,
               desc'[i].ld, desc'[j].ld
        PROVE  desc'[i].of < desc'[j].of
    <3>1. i # dma.idx /\ Ahead(i) < at
      <4>1. Ahead(i) \in Nat /\ Ahead(j) \in Nat
        BY Ground
      <4> QED
        BY <1>2, <1>3, <2>1, <4>1
    <3>2. desc'[i] = desc[i]
      BY <1>2, <3>1
    <3>3. CASE j = dma.idx
      BY <1>2, <1>3, <1>8, <2>1, <3>1, <3>2, <3>3
    <3>4. CASE j # dma.idx
      <4>1. desc'[j] = desc[j] /\ Ahead(j) < at
        BY <1>2, <2>1, <3>4
      <4> QED
        BY <1>8, <2>1, <3>2, <4>1
    <3> QED
      BY <3>3, <3>4
  <2>2. ASSUME dma'.left > 0, NEW i \in Slots, Ahead(i) < at + 1, desc'[i].ld
        PROVE  desc'[i].of < Len(frames)
    <3>1. i # dma.idx
      BY <1>1, <1>2, <1>4, <2>2
    <3> QED
      BY <1>2, <1>8, <2>2, <3>1
  <2> QED
    BY <1>2, <1>3, <2>1, <2>2 DEF Rising
<1>10. Waiting(at + 1)'
  BY <1>1, WriteWaiting
<1>11. Located(at + 1)'
  <2>1. ASSUME NEW f \in Frames, fate[f] = "ring"
        PROVE  \/ \E i \in Slots : (Ahead(i) < at + 1)' /\ desc'[i].ld /\ desc'[i].of = f
               \/ dma'.left > 0 /\ f = Len(frames)
               \/ pc \in {"stamp", "oops"} /\ f = poll.of
    <3>1. \/ \E i \in Slots : Ahead(i) < at /\ desc[i].ld /\ desc[i].of = f
          \/ f = Len(frames)
          \/ pc \in {"stamp", "oops"} /\ f = poll.of
      BY <2>1 DEF LaidOut, Located
    <3>2. ASSUME NEW i \in Slots, Ahead(i) < at, desc[i].ld, desc[i].of = f
          PROVE  \E j \in Slots : (Ahead(j) < at + 1)' /\ desc'[j].ld /\ desc'[j].of = f
      <4>1. i # dma.idx
        BY <1>3, <3>2
      <4>2. Ahead(i)' < at + 1
        <5>1. Ahead(i) \in Nat
          BY Ground
        <5> QED
          BY <1>2, <1>3, <3>2, <5>1
      <4>3. desc'[i] = desc[i]
        BY <1>2, <4>1
      <4> QED
        BY <3>2, <4>2, <4>3
    <3>3. ASSUME f = Len(frames), dma'.left = 0
          PROVE  \E j \in Slots : (Ahead(j) < at + 1)' /\ desc'[j].ld /\ desc'[j].of = f
      <4>1. dma.left = 1
        BY <1>1, <1>4, <3>3
      <4>2. r.ld
        BY <1>1, <4>1
      <4>3. PICK d \in Slots : d = dma.idx
        BY <1>2
      <4>4. Ahead(d)' < at + 1
        BY <1>2, <1>3, <4>3
      <4>5. desc'[d].ld /\ desc'[d].of = f
        BY <1>2, <1>3, <3>3, <4>2, <4>3
      <4> QED
        BY <4>4, <4>5
    <3>4. dma'.left = 0 \/ dma'.left > 0
      BY <1>1, <1>4
    <3> QED
      BY <3>1, <3>2, <3>3, <3>4
  <2> QED
    BY <1>3, <1>4, <2>1 DEF LaidOut, Located
<1> QED
  BY <1>2, <1>5, <1>7, <1>9, <1>10, <1>11 DEF LaidOut

LEMMA StampLaid ==
    ASSUME RxInv, NEW at \in 0 .. Room, LaidOut(at), DmaStamp
    PROVE  at + 1 \in 0 .. Room' /\ LaidOut(at + 1)'
<1>1. PICK r : /\ Writes(at, r) /\ r.ctxt /\ ~r.ld /\ ~r.tsa
               /\ dma.owes /\ ~dma'.owes /\ dma'.left = dma.left /\ dma.left = 0
  BY StampWrites
<1>2. /\ dma.idx \in Slots /\ desc'[dma.idx] = r
      /\ \A i \in Slots : i # dma.idx => desc'[i] = desc[i] /\ Ahead(i) # at
      /\ \A i \in Slots : Ahead(i)' = Ahead(i)
      /\ \A i \in Slots : Ahead(i) < at + 1 /\ i # dma.idx => Ahead(i) < at
      /\ Room' = Room /\ at + 1 \in 0 .. Room' /\ Handed(at + 1)'
  BY <1>1, WriteFacts
<1>3. /\ UNCHANGED <<pc, poll, cur_rx, frames, fate>> /\ r.of = Len(frames)
      /\ at \in Nat /\ Ahead(dma.idx) = at /\ Len(frames) \in 1 .. Len(frames)
  BY <1>1 DEF Writes
<1>4. Reported(at + 1)'
  <2>1. ASSUME NEW i \in Slots, (Ahead(i) < at + 1)' PROVE Status(desc[i])'
    <3>1. CASE i = dma.idx
      BY <1>1, <1>2, <1>3, <3>1 DEF Status
    <3>2. CASE i # dma.idx
      <4>1. Status(desc[i]) /\ desc'[i] = desc[i]
        BY <1>2, <2>1, <3>2 DEF LaidOut, Reported
      <4> QED
        BY <1>3, <4>1 DEF Status
    <3> QED
      BY <3>1, <3>2
  <2> QED
    BY <2>1 DEF Reported
<1>5. ASSUME NEW p, NEW f, StampAt(at, p, f), p \in Int PROVE StampAt(at + 1, p, f)'
  <2>1. p <= at /\ (p = at => f = Len(frames))
    BY <1>5 DEF StampAt
  <2>2. p <= at + 1 /\ p # at + 1
    BY <1>3, <1>5, <2>1
  <2>3. ASSUME NEW j \in Slots, Ahead(j)' = p PROVE desc'[j].ctxt /\ desc'[j].of = f
    <3>1. Ahead(j) = p
      BY <1>2, <2>3
    <3>2. CASE j = dma.idx
      BY <1>1, <1>2, <1>3, <2>1, <3>1, <3>2
    <3>3. CASE j # dma.idx
      <4>1. desc'[j] = desc[j] /\ p < at
        BY <1>2, <1>3, <1>5, <2>1, <3>1, <3>3
      <4> QED
        BY <1>5, <3>1, <4>1 DEF StampAt
    <3> QED
      BY <3>2, <3>3
  <2> QED
    BY <2>2, <2>3 DEF StampAt
<1>6. Stamped(at + 1)'
  <2>1. ASSUME NEW i \in Slots, (Ahead(i) < at + 1)', desc'[i].tsa
        PROVE  StampAt(at + 1, Ahead(i) + 1, desc[i].of)'
    <3>1. PICK p, f : p = Ahead(i) + 1 /\ f = desc'[i].of
      OBVIOUS
    <3>a. Ahead(i) \in Nat
      BY Ground
    <3>b. i # dma.idx
      BY <1>1, <1>2, <2>1
    <3>2. p \in Int /\ i # dma.idx
      BY <3>1, <3>a, <3>b
    <3>3. StampAt(at, p, f)
      BY <1>2, <2>1, <3>1, <3>2 DEF LaidOut, Stamped
    <3>4. StampAt(at + 1, p, f)'
      BY <1>5, <3>2, <3>3
    <3>5. Ahead(i)' + 1 = p /\ desc'[i].of = f
      BY <1>2, <3>1
    <3> QED
      BY <3>4, <3>5 DEF StampAt
  <2>2. ASSUME pc' = "stamp" PROVE StampAt(at + 1, 0, poll.of)'
    <3>1. PICK f : f = poll.of
      OBVIOUS
    <3>2. StampAt(at, 0, f)
      BY <1>3, <2>2, <3>1 DEF LaidOut, Stamped
    <3>3. StampAt(at + 1, 0, f)' /\ poll'.of = f
      BY <1>3, <1>5, <3>1, <3>2
    <3> QED
      BY <3>3 DEF StampAt
  <2> QED
    BY <1>1, <2>1, <2>2 DEF Stamped
<1>7. \A i \in Slots : (Ahead(i) < at + 1)' /\ desc'[i].ld =>
         i # dma.idx /\ Ahead(i) < at /\ desc'[i] = desc[i]
  BY <1>1, <1>2
<1>8. Rising(at + 1)'
  <2>1. ASSUME NEW i \in Slots, NEW j \in Slots, Ahead(i) < Ahead(j), Ahead(j) < at + 1,
               desc'[i].ld, desc'[j].ld
        PROVE  desc'[i].of < desc'[j].of
    <3>1. Ahead(i) < at + 1
      <4>1. Ahead(i) \in Nat /\ Ahead(j) \in Nat
        BY Ground
      <4> QED
        BY <1>3, <2>1, <4>1
    <3>2. Ahead(j) < at /\ desc'[i] = desc[i] /\ desc'[j] = desc[j]
      BY <1>2, <1>7, <2>1, <3>1
    <3> QED
      BY <2>1, <3>2 DEF LaidOut, Rising
  <2> QED
    BY <1>1, <1>2, <2>1 DEF Rising
<1>9. Waiting(at + 1)'
  BY <1>1, WriteWaiting
<1>10. Located(at + 1)'
  <2>1. ASSUME NEW f \in Frames, fate[f] = "ring"
        PROVE  \/ \E i \in Slots : (Ahead(i) < at + 1)' /\ desc'[i].ld /\ desc'[i].of = f
               \/ pc \in {"stamp", "oops"} /\ f = poll.of
    <3>1. \/ \E i \in Slots : Ahead(i) < at /\ desc[i].ld /\ desc[i].of = f
          \/ pc \in {"stamp", "oops"} /\ f = poll.of
      BY <1>1, <2>1 DEF LaidOut, Located
    <3>2. ASSUME NEW i \in Slots, Ahead(i) < at, desc[i].ld, desc[i].of = f
          PROVE  \E j \in Slots : (Ahead(j) < at + 1)' /\ desc'[j].ld /\ desc'[j].of = f
      <4>1. i # dma.idx
        BY <1>3, <3>2
      <4>2. Ahead(i)' < at + 1
        <5>1. Ahead(i) \in Nat
          BY Ground
        <5> QED
          BY <1>2, <1>3, <3>2, <5>1
      <4>3. desc'[i] = desc[i]
        BY <1>2, <4>1
      <4> QED
        BY <3>2, <4>2, <4>3
    <3> QED
      BY <3>1, <3>2
  <2> QED
    BY <1>1, <1>3, <2>1 DEF LaidOut, Located
<1> QED
  BY <1>2, <1>4, <1>6, <1>8, <1>9, <1>10 DEF LaidOut

-----------------------------------------------------------------------------
(* The order is an invariant.                                               *)

LEMMA RxOrderInit == Init => RxOrder
<1> SUFFICES ASSUME Init PROVE RxOrder
  OBVIOUS
<1> USE RxAssumption
<1>1. RxInv
  BY RxInit
<1>2. StampRight
  BY DEF Init, StampRight
<1>3. Front = 0 /\ Behind = 0
  BY DEF Init, Front, Behind
<1>4. Room = RX_DESC_CNT /\ 0 \in 0 .. Room
  BY <1>3 DEF Room
<1>5. \A i \in Slots : Ahead(i) \in Nat /\ Ahead(i) < RX_DESC_CNT /\ ~(Ahead(i) < 0) /\ 0 <= Ahead(i)
  <2>1. ASSUME NEW i \in Slots
        PROVE  Ahead(i) \in Nat /\ Ahead(i) < RX_DESC_CNT
    BY <1>1, Ground
  <2> QED
    BY <2>1
<1>6. \A i \in Slots : desc[i].own
  BY DEF Init, Armed
<1>7. /\ dma.idx = 0 /\ dma.left = 0 /\ ~dma.owes /\ pc = "idle" /\ frames = <<>>
      /\ \A f \in Frames : fate[f] = "wire"
  BY DEF Init
<1>8. Handed(0)
  BY <1>3, <1>4, <1>5, <1>6, <1>7 DEF Handed, Advance
<1>9. Reported(0) /\ Stamped(0) /\ Rising(0) /\ Waiting(0)
  BY <1>5, <1>7 DEF Reported, Stamped, Rising, Waiting
<1>10. Located(0)
  BY <1>7 DEF Located, Frames
<1> QED
  BY <1>1, <1>2, <1>4, <1>8, <1>9, <1>10 DEF RxOrder, LaidOut

\* The time stamps of what the stack has after one more frame.
LEMMA DeliveredStamp ==
    ASSUME RxInv, NEW f \in Int, NEW skb \in Nat, NEW stamp, ReceiveSkb(f, skb, stamp),
           StampRight, stamp = 0 \/ stamp = f
    PROVE  StampRight'
<1> DEFINE r == [of |-> f, skb |-> skb, stamp |-> stamp]
<1>1. delivered' = Append(delivered, r) /\ r.stamp = stamp /\ r.of = f
  BY DEF ReceiveSkb
<1> DEFINE R == [of : Int, skb : Nat, stamp : Int]
<1>2. delivered \in Seq(R)
  BY DEF RxInv, RingTypes
<1> HIDE DEF r, R
<1>3. Len(delivered) \in Nat /\ DOMAIN delivered' = 1 .. Len(delivered) + 1
  BY <1>1, <1>2
<1>4. ASSUME NEW n \in DOMAIN delivered' PROVE delivered'[n].stamp \in {0, delivered'[n].of}
  <2>1. CASE n = Len(delivered) + 1
    BY <1>1, <1>2, <2>1
  <2>2. CASE n # Len(delivered) + 1
    <3>1. n \in DOMAIN delivered
      BY <1>2, <1>3, <1>4, <2>2
    <3>2. delivered'[n] = delivered[n]
      BY <1>1, <1>2, <3>1
    <3> QED
      BY <3>1, <3>2 DEF StampRight
  <2> QED
    BY <2>1, <2>2
<1> QED
  BY <1>4 DEF StampRight

LEMMA StampRightStep ==
    ASSUME Bearable, RxOrder, [Next]_vars
    PROVE  StampRight'
<1>1. RxInv /\ StampRight
  BY DEF RxOrder
<1>2. PICK at \in 0 .. Room : LaidOut(at)
  BY DEF RxOrder
<1>3. cur_rx \in Slots /\ buf[cur_rx] \in Nat /\ desc[cur_rx].of \in Int /\ poll.of \in Int
      /\ poll.skb \in Nat
  BY <1>1, SlotTypes DEF RxInv, RingTypes, PollType
<1>4. CASE RxGood
  <2>1. ReceiveSkb(desc[cur_rx].of, buf[cur_rx], 0)
    BY <1>4 DEF RxGood
  <2> QED
    BY <1>1, <1>3, <2>1, DeliveredStamp
<1>5. CASE RxStamp
  <2>1. ReceiveSkb(poll.of, poll.skb, IF desc[cur_rx].corrupt THEN 0 ELSE desc[cur_rx].of)
    BY <1>5 DEF RxStamp
  <2>2. Pass /\ pc = "stamp" /\ Front = cur_rx
    BY <1>1, <1>2, <1>5, PollKinds, RxTakes DEF RxStamp, Takes
  <2>3. at \in Nat /\ at > 0
    BY <1>1, <1>2, <2>2, PassPlaces DEF LaidOut
  <2>4. desc[cur_rx].of = poll.of
    <3>1. StampAt(at, 0, poll.of)
      BY <1>2, <2>2 DEF LaidOut, Stamped
    <3>2. Ahead(cur_rx) = 0
      BY <1>1, <2>2, FrontFirst
    <3> QED
      BY <1>3, <2>3, <3>1, <3>2 DEF StampAt
  <2> QED
    BY <1>1, <1>3, <2>1, <2>4, DeliveredStamp
<1>6. CASE ~RxGood /\ ~RxStamp
  <2>1. delivered' = delivered
    BY <1>6 DEF Next, Rx, Refill, Wire, Dma, PollStart, RxBad, RxStampOops, RxWantStamp,
       TakeStamped, RxStampLate, RxEnd,
       RefillOne, RefillEnd, RefillFails, RefillDone, HwtstampIoctl, FrameEnters, FrameMissed,
       Arrives, DmaSuspend, DmaData, DmaStamp, WriteBack, vars
  <2> QED
    BY <1>1, <2>1 DEF StampRight
<1> QED
  BY <1>4, <1>5, <1>6

LEMMA LaidStep ==
    ASSUME Bearable, RxInv, NEW at \in 0 .. Room, LaidOut(at), [Next]_vars
    PROVE  \E t : t \in 0 .. Room' /\ LaidOut(t)'
<1>1. CASE RxGood \/ RxBad \/ RxStampOops \/ RxWantStamp \/ RxStamp
  BY <1>1, PassLaid
<1>2. CASE RxStampLate
  BY <1>2, BackHanded, BackLaid
<1>3. CASE RefillOne
  BY <1>3, RefillLaid
<1>4. ASSUME NEW k \in Kinds, FrameEnters(k) \/ FrameMissed(k)
      PROVE  \E t : t \in 0 .. Room' /\ LaidOut(t)'
  BY <1>4, ArrivalLaid
<1>5. CASE DmaData
  BY <1>5, DataLaid
<1>6. CASE DmaStamp
  BY <1>6, StampLaid
<1>7. CASE \/ PollStart \/ RxEnd \/ RefillEnd \/ RefillFails
           \/ HwtstampIoctl \/ DmaSuspend \/ UNCHANGED vars
  BY <1>7, QuietLaid
<1> QED
  BY <1>1, <1>2, <1>3, <1>4, <1>5, <1>6, <1>7 DEF Next, Rx, Refill, Dma, Wire

LEMMA RxOrderStep ==
    ASSUME Bearable, RxOrder, [Next]_vars
    PROVE  RxOrder'
<1>1. RxInv /\ \E at \in 0 .. Room : LaidOut(at)
  BY DEF RxOrder
<1>2. RxInv'
  BY <1>1, RxTypeStep, RxWindowKeptStep, RxWindowStep, RxSkbStep, RxHeldStep DEF RxInv
<1>3. \E t : t \in 0 .. Room' /\ LaidOut(t)'
  BY <1>1, LaidStep
<1> QED
  BY <1>2, <1>3, StampRightStep DEF RxOrder

LEMMA RxOrderAlways == ASSUME Bearable PROVE Spec => []RxOrder
<1>1. RxOrder /\ [Next]_vars => RxOrder'
  BY RxOrderStep
<1> QED
  BY RxOrderInit, <1>1, PTL DEF Spec

\* A frame never carries the time stamp of another: the descriptor
\* get_rx_hwtstamp reads holds the stamp of the frame clean_rx_irq has in hand,
\* or the channel has not written it yet.
THEOREM RxStampRight == ASSUME Bearable PROVE Spec => []StampRight
<1>1. RxOrder => StampRight
  BY DEF RxOrder
<1> QED
  BY RxOrderAlways, <1>1, PTL

-----------------------------------------------------------------------------
(* The refinement of RxFifo.                                                *)

Bad == {f \in DOMAIN frames : fate[f] # "wire" /\ frames[f].es}

\* The frame the poll settles is the oldest there is.
LEMMA OldestSettled ==
    ASSUME RxInv, NEW at \in 0 .. Room, LaidOut(at), UNCHANGED frames,
           NEW f, Settles(f, at), NEW where \in {"stack", "lost"},
           fate' = [fate EXCEPT ![f] = where]
    PROVE  /\ f \in Frames /\ Fifo!Move(f, "ring", where)
           /\ f \in Bad <=> frames[f].es
           /\ UNCHANGED Bad
<1>1. /\ f \in 1 .. Len(frames) /\ fate[f] = "ring"
      /\ dma.left > 0 => f < Len(frames)
      /\ \A i \in Slots : Ahead(i) < at /\ desc[i].ld => i = Front \/ f < desc[i].of
      /\ desc[Front].ld => f = desc[Front].of
      /\ pc \in {"stamp", "oops"} => f = poll.of
  BY DEF Settles
<1>2. Len(frames) \in Nat /\ frames \in Seq(Kinds) /\ Len(frames) <= NumFrames
      /\ fate \in [Frames -> {"wire", "ring", "stack", "lost"}]
  BY Ground DEF LaidOut, Located
<1>3. f \in Frames /\ DOMAIN frames = 1 .. Len(frames) /\ DOMAIN frames \subseteq Frames
  BY <1>1, <1>2, RxAssumption DEF Frames
<1>4. ASSUME NEW g \in Frames, g < f PROVE fate[g] # "ring"
  <2> SUFFICES ASSUME fate[g] = "ring" PROVE FALSE
    OBVIOUS
  <2>1. g \in Nat /\ f \in Nat
    BY <1>3, RxAssumption DEF Frames
  <2>2. \/ \E i \in Slots : Ahead(i) < at /\ desc[i].ld /\ desc[i].of = g
        \/ dma.left > 0 /\ g = Len(frames)
        \/ pc \in {"stamp", "oops"} /\ g = poll.of
    BY DEF LaidOut, Located
  <2>3. CASE pc \in {"stamp", "oops"} /\ g = poll.of
    BY <1>1, <1>4, <2>1, <2>3
  <2>4. CASE dma.left > 0 /\ g = Len(frames)
    BY <1>1, <1>2, <1>4, <2>1, <2>4
  <2>5. ASSUME NEW i \in Slots, Ahead(i) < at, desc[i].ld, desc[i].of = g PROVE FALSE
    <3>1. g = f \/ f < g
      BY <1>1, <2>5
    <3> QED
      BY <1>4, <2>1, <3>1
  <2> QED
    BY <2>2, <2>3, <2>4, <2>5
<1>5. Fifo!Move(f, "ring", where)
  BY <1>1, <1>3, <1>4 DEF Fifo!Move, Fifo!Oldest
<1>6. f \in Bad <=> frames[f].es
  BY <1>1, <1>3 DEF Bad
<1>7. UNCHANGED Bad
  <2>1. \A g \in Frames : fate'[g] # "wire" <=> fate[g] # "wire"
    BY <1>1, <1>2, <1>3
  <2> QED
    BY <1>3, <2>1 DEF Bad
<1> QED
  BY <1>3, <1>5, <1>6, <1>7

\* The MAC lets a frame into the ring or drops it.
LEMMA NewestArrives ==
    ASSUME RxInv, NEW at \in 0 .. Room, LaidOut(at), NEW k \in Kinds,
           FrameEnters(k) \/ FrameMissed(k), NEW where, Arrives(k, where)
    PROVE  \E f \in Frames : Fifo!Move(f, "wire", where) /\ (Bad' = Bad \/ Bad' = Bad \cup {f})
<1> DEFINE n == Len(frames)
<1>1. /\ n \in Nat /\ n < NumFrames /\ Len(frames') = n + 1 /\ n + 1 \in Frames
      /\ \A f \in 1 .. n : frames'[f] = frames[f] /\ fate'[f] = fate[f]
      /\ frames' \in Seq(Kinds)
  BY ArrivalFacts
<1>2. frames \in Seq(Kinds) /\ fate' = [fate EXCEPT ![n + 1] = where]
  BY Ground DEF Arrives
<1>3. \A f \in Frames : f \in Nat /\ (fate[f] = "wire" <=> f > n)
  BY RxAssumption DEF Frames, LaidOut, Located
<1>4. DOMAIN frames' = 1 .. n + 1 /\ DOMAIN frames = 1 .. n
  BY <1>1, <1>2
<1> HIDE DEF n
<1>5. Fifo!Move(n + 1, "wire", where)
  BY <1>1, <1>2, <1>3 DEF Fifo!Move, Fifo!Oldest
<1>6. Bad' = Bad \/ Bad' = Bad \cup {n + 1}
  <2>1. Bad' = {f \in 1 .. n + 1 : fate'[f] # "wire" /\ frames'[f].es}
    BY <1>4 DEF Bad
  <2>2. Bad = {f \in 1 .. n : fate[f] # "wire" /\ frames[f].es}
    BY <1>4 DEF Bad
  <2>3. \A f \in 1 .. n : f \in Bad' <=> f \in Bad
    <3>1. \A f \in 1 .. n : f \in 1 .. n + 1
      BY <1>1
    <3> QED
      BY <1>1, <2>1, <2>2, <3>1
  <2>4. Bad \subseteq 1 .. n /\ Bad' \subseteq (1 .. n) \cup {n + 1}
    BY <1>1, <2>1, <2>2
  <2> QED
    BY <2>3, <2>4
<1> QED
  BY <1>1, <1>5, <1>6

LEMMA FifoStep == ASSUME Bearable, RxOrder, [Next]_vars PROVE [Fifo!Next]_<<fate, Bad>>
<1>0. RxInv
  BY DEF RxOrder
<1>a. PICK at \in 0 .. Room : LaidOut(at)
  BY DEF RxOrder
<1>1. CASE RxGood \/ RxBad \/ RxStampOops \/ RxWantStamp \/ RxStamp
  <2>1. Pass /\ ((\E f : Settles(f, at)) \/ Skips \/ Awaits)
    BY <1>0, <1>a, <1>1, PollKinds
  <2>2. Status(desc[Front]) /\ Front = cur_rx /\ frames' = frames
    BY <1>0, <1>a, <2>1, FrontSays DEF Pass, Takes
  <2>3. CASE Skips \/ Awaits
    <3>1. UNCHANGED <<fate, frames>>
      BY <2>2, <2>3 DEF Skips, Awaits
    <3> QED
      BY <3>1 DEF Bad
  <2>4. ASSUME NEW f, Settles(f, at) PROVE [Fifo!Next]_<<fate, Bad>>
    <3>1. CASE RxStampOops \/ RxWantStamp
      <4>1. UNCHANGED <<fate, frames>>
        BY <3>1 DEF RxStampOops, RxWantStamp, TakeStamped
      <4> QED
        BY <4>1 DEF Bad
    <3>2. CASE RxGood \/ RxStamp
      <4>1. fate' = [fate EXCEPT ![f] = "stack"] /\ ~frames[f].es
        <5>1. CASE RxGood
          <6>1. desc[Front].ld /\ ~desc[Front].es
            BY <2>2, <5>1 DEF RxGood, Good
          <6>2. f = desc[Front].of /\ desc[Front].es = frames[f].es
            BY <2>2, <2>4, <6>1 DEF Settles, Status
          <6> QED
            BY <2>2, <5>1, <6>1, <6>2 DEF RxGood, ReceiveSkb
        <5>2. CASE RxStamp
          <6>1. f = poll.of /\ ~frames[f].es
            BY <1>a, <2>4, <5>2 DEF Settles, RxStamp, LaidOut, Waiting
          <6> QED
            BY <5>2, <6>1 DEF RxStamp, ReceiveSkb
        <5> QED
          BY <3>2, <5>1, <5>2
      <4>2. f \in Frames /\ Fifo!Move(f, "ring", "stack") /\ f \notin Bad /\ UNCHANGED Bad
        BY <1>0, <1>a, <2>2, <2>4, <4>1, OldestSettled
      <4>3. Fifo!Deliver(f)
        BY <4>2 DEF Fifo!Deliver, Bad
      <4> QED
        BY <4>2, <4>3 DEF Fifo!Next
    <3>3. CASE RxBad
      <4>1. CASE ~desc[Front].ld
        <5>1. UNCHANGED <<fate, frames>>
          BY <2>2, <3>3, <4>1 DEF RxBad
        <5> QED
          BY <5>1 DEF Bad
      <4>2. CASE desc[Front].ld
        <5>1. f = desc[Front].of /\ desc[Front].es = frames[f].es
          BY <2>2, <2>4, <4>2 DEF Settles, Status
        <5>2. desc[Front].es
          BY <2>2, <3>3, <4>2 DEF RxBad, Good
        <5>3. fate' = [fate EXCEPT ![f] = "lost"]
          BY <2>2, <3>3, <4>2, <5>1 DEF RxBad
        <5>4. f \in Frames /\ Fifo!Move(f, "ring", "lost") /\ f \in Bad /\ UNCHANGED Bad
          BY <1>0, <1>a, <2>2, <2>4, <5>1, <5>2, <5>3, OldestSettled
        <5>5. Fifo!Discard(f)
          BY <5>4 DEF Fifo!Discard, Bad
        <5> QED
          BY <5>4, <5>5 DEF Fifo!Next
      <4> QED
        BY <4>1, <4>2
    <3> QED
      BY <1>1, <3>1, <3>2, <3>3
  <2> QED
    BY <2>1, <2>3, <2>4
<1>2. ASSUME NEW k \in Kinds, FrameEnters(k) PROVE Fifo!Next
  <2>1. PICK f \in Frames : Fifo!Move(f, "wire", "ring") /\ (Bad' = Bad \/ Bad' = Bad \cup {f})
    BY <1>0, <1>a, <1>2, NewestArrives DEF FrameEnters
  <2>2. Fifo!Enter(f)
    BY <2>1 DEF Fifo!Enter, Fifo!Judged, Bad
  <2> QED
    BY <2>2 DEF Fifo!Next
<1>3. ASSUME NEW k \in Kinds, FrameMissed(k) PROVE Fifo!Next
  <2>1. PICK f \in Frames : Fifo!Move(f, "wire", "lost") /\ (Bad' = Bad \/ Bad' = Bad \cup {f})
    BY <1>0, <1>a, <1>3, NewestArrives DEF FrameMissed
  <2>2. Fifo!Miss(f)
    BY <2>1 DEF Fifo!Miss, Fifo!Judged, Bad
  <2> QED
    BY <2>2 DEF Fifo!Next
<1>4. CASE ~(RxGood \/ RxBad \/ RxStampOops \/ RxWantStamp \/ RxStamp) /\ ~Wire
  <2>1. UNCHANGED <<fate, frames>>
    BY <1>4 DEF Next, Rx, Refill, Dma, PollStart, RxStampLate, RxEnd,
       RefillOne, RefillEnd, RefillFails, RefillDone, HwtstampIoctl,
       DmaSuspend, DmaData, DmaStamp, WriteBack, vars
  <2> QED
    BY <2>1 DEF Bad
<1> QED
  BY <1>1, <1>2, <1>3, <1>4 DEF Wire

\* The receive ring implements the queue of RxFifo: clean_rx_irq hands every
\* frame on once, in the order of arrival, to the stack or, if the MAC marked
\* it as bad, to the error counters.
THEOREM RxImplementsFifo == ASSUME Bearable PROVE Spec => ImplementsFifo
<1>1. Init => Fifo!Init
  BY DEF Init, Fifo!Init
<1>2. RxOrder /\ [Next]_vars => [Fifo!Next]_<<fate, Bad>>
  BY FifoStep
<1> QED
  BY <1>1, <1>2, RxOrderAlways, PTL DEF Spec, ImplementsFifo, Fifo!Spec, Bad

=============================================================================
