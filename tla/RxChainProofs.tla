--------------------------- MODULE RxChainProofs ---------------------------
(***************************************************************************)
(* For every ring size, page size, refill threshold, budget share and mix  *)
(* of ordinary frames: skbs and pages are in one place only, frames reach  *)
(* the stack whole, in order and once, and skb_top is the chain it is      *)
(* taken for.                                                              *)
(***************************************************************************)
EXTENDS RxChain, TLAPS

\* What the theorems suppose of the frames.  A split header is part of its
\* frame.  Frames of the largest MTU (DWC_ETH_QOS_MAX_SUPPORTED_MTU, 9000 bytes)
\* fit three pages.  The MAC does not stamp a frame it reports bad.  A stamp is
\* late for frames that are copied only, each time the poll comes back to them:
\* see MCRxChain_late_stamp.cfg.
Ordinary ==
    \A k \in Kinds :
        /\ k.hl <= k.len
        /\ ~k.es => k.len <= 3 * BufLen
        /\ k.stamp => ~k.es
        /\ k.stamp /\ MaxLates > 0 =>
              /\ k.len <= Copybreak /\ k.len <= HdrSize /\ k.hl = 0
              /\ (MaxLates + 1) * k.len <= Tailroom

-----------------------------------------------------------------------------
(* Ring arithmetic.                                                        *)

LEMMA Sizes ==
    /\ RX_DESC_CNT \in Nat \ {0, 1} /\ MIN_RX_DESC_CNT \in Nat \ {0}
    /\ MaxLost \in Nat /\ MaxLost + MIN_RX_DESC_CNT < RX_DESC_CNT
    /\ Slots = 0 .. RX_DESC_CNT - 1
    /\ Quota \in Nat \ {0} /\ BufLen \in Nat \ {0} /\ HdrSize \in Nat \ {0} /\ U16 \in Nat \ {0}
    /\ Copybreak \in Nat /\ Tailroom \in Nat /\ MaxLates \in Nat /\ Copybreak < BufLen /\ HdrSize < BufLen
BY ChainAssumption DEF Slots

LEMMA AdvanceType ==
    ASSUME NEW b \in Slots, NEW k \in 0 .. RX_DESC_CNT
    PROVE  Advance(b, k) \in Slots
BY Sizes DEF Advance

LEMMA AdvanceZero ==
    ASSUME NEW b \in Slots
    PROVE  Advance(b, 0) = b /\ Advance(b, 1) \in Slots
BY Sizes DEF Advance

LEMMA AdvanceFrom ==
    ASSUME NEW b \in Slots, NEW k \in 0 .. RX_DESC_CNT - 1
    PROVE  Advance(Advance(b, 1), k) = Advance(b, k + 1)
BY Sizes DEF Advance

LEMMA AdvanceNext ==
    ASSUME NEW b \in Slots, NEW k \in 0 .. RX_DESC_CNT - 1
    PROVE  Advance(Advance(b, k), 1) = Advance(b, k + 1)
BY Sizes DEF Advance

LEMMA AdvanceApart ==
    ASSUME NEW b \in Slots, NEW p \in 0 .. RX_DESC_CNT - 1, NEW q \in 0 .. RX_DESC_CNT - 1,
           Advance(b, p) = Advance(b, q)
    PROVE  p = q
BY Sizes DEF Advance

LEMMA AdvanceOnto ==
    ASSUME NEW b \in Slots, NEW i \in Slots
    PROVE  \E p \in 0 .. RX_DESC_CNT - 1 : i = Advance(b, p)
<1> DEFINE p == IF i >= b THEN i - b ELSE i - b + RX_DESC_CNT
<1>1. p \in 0 .. RX_DESC_CNT - 1 /\ i = Advance(b, p)
  BY Sizes DEF Advance
<1> QED
  BY <1>1

\* Around the ring: the slot behind a window of n slots.
LEMMA AdvanceRound ==
    ASSUME NEW b \in Slots, NEW n \in 0 .. RX_DESC_CNT
    PROVE  Advance(Advance(b, n), RX_DESC_CNT - n) = b
BY Sizes DEF Advance

-----------------------------------------------------------------------------
(* The inductive invariant.                                                *)

DataType == Nat \X Nat
PollType == [received : 0 .. Quota, cnt : Nat, hdr : Nat, i : Nat, then : {"idle", "loop"}]
BufType  == [skb : Nat, page : Nat, page2 : Nat]
DescType == [own : BOOLEAN, addr : BufType, fd : BOOLEAN, ld : BOOLEAN, es : BOOLEAN,
             ctxt : BOOLEAN, stamp : BOOLEAN, len : Nat, hl : Nat, of : Nat]
SkbType  == [data : DataType, put : Nat, frags : Seq(Nat), len : Nat]
DmaType  == [idx : Slots, left : Nat, part : Nat, owes : BOOLEAN, restarts : Nat, lates : 0 .. MaxLates]
GotType  == [of : Nat, len : Nat, skb : Nat, mode : {"jumbo", "split"}]

Types ==
    /\ mode \in {"jumbo", "split"} /\ pc \in {"idle", "loop", "refill"}
    /\ poll \in PollType /\ desc \in [Slots -> DescType] /\ buf \in [Slots -> BufType]
    /\ cur_rx \in Slots /\ skb_realloc_idx \in Slots
    /\ dirty_rx \in 0 .. MIN_RX_DESC_CNT + 1 /\ lost \in 0 .. MaxLost
    /\ skbs \in Seq(SkbType) /\ pages \in Seq(DataType)
    /\ skb_top \in 0 .. Len(skbs)
    /\ dma \in DmaType /\ frames \in Seq(Kinds) /\ gone \subseteq DOMAIN frames
    /\ delivered \in Seq(GotType)

\* The descriptor the poll comes to next, how many it has passed that are not
\* refilled, and the others.
Coming == IF pc = "refill" /\ poll.then = "loop" THEN Advance(cur_rx, 1) ELSE cur_rx
Behind == lost + dirty_rx - (IF pc = "refill" THEN poll.i ELSE 0)
Room == RX_DESC_CNT - Behind

Counts ==
    /\ pc = "refill" => poll.i <= dirty_rx
    /\ pc = "idle" => dirty_rx = 0
    /\ pc = "loop" => dirty_rx < MIN_RX_DESC_CNT
    /\ Coming = Advance(skb_realloc_idx, Behind)

\* A buffer the DMA can fill.
Full(b) == b.skb > 0 /\ b.page2 > 0 /\ (mode = "jumbo" => b.page > 0)

\* Every descriptor the poll has not passed has such a buffer.
Stock ==
    /\ \A i \in Slots : buf[i].skb <= Len(skbs) /\ buf[i].page <= Len(pages) /\ buf[i].page2 <= Len(pages)
    /\ \A p \in 0 .. Room - 1 : Full(buf[Advance(Coming, p)])
    /\ mode = "split" => \A i \in Slots : buf[i].page = 0
    /\ \A i \in Slots : desc[i].own => desc[i].addr = buf[i]

\* Nothing is in two buffers.
Distinct(b) ==
    /\ \A i, j \in Slots : i # j =>
          /\ b[i].skb = b[j].skb => b[i].skb = 0
          /\ b[i].page = b[j].page => b[i].page = 0
          /\ b[i].page2 = b[j].page2 => b[i].page2 = 0
    /\ \A i, j \in Slots : b[i].page = b[j].page2 => b[i].page = 0

\* What the stack has, and the chain.
Given == {delivered[n].skb : n \in DOMAIN delivered}
Held == Given \cup ({skb_top} \ {0})

\* Page p exists and is in no buffer.
Out(p) == p \in DOMAIN pages /\ \A i \in Slots : buf[i].page # p /\ buf[i].page2 # p

Apart ==
    /\ \A s \in Held : s \in DOMAIN skbs /\ \A i \in Slots : buf[i].skb # s
    /\ \A s \in Held : \A n \in DOMAIN skbs[s].frags : Out(skbs[s].frags[n])
    /\ skb_top \notin Given

\* An skb in the ring has no pages, and is empty unless its frame waited for a
\* late time stamp: then it has a copy of the frame for each time.
Late(d) == MaxLates > 0 /\ ~d.own /\ ~d.ctxt /\ d.fd /\ d.ld /\ d.stamp

Waits(d, skb) == Late(d) /\ skb.put <= dma.lates * d.len

Clean ==
    \A i \in Slots : buf[i].skb > 0 =>
        /\ skbs[buf[i].skb].frags = <<>>
        /\ skbs[buf[i].skb].put > 0 => Waits(desc[i], skbs[buf[i].skb])

\* The bytes in the first n parts of frame f, and how many parts a descriptor
\* holds that begins after n.
Header(f) == IF frames[f].hl > 0 THEN frames[f].hl ELSE Lesser(HdrSize, frames[f].len)

Bytes(f, n) ==
    IF mode = "jumbo" THEN BufLen * n
    ELSE IF n = 0 THEN 0 ELSE Header(f) + BufLen * (n - 1)

PerDesc(n) == IF mode = "jumbo" \/ n = 0 THEN 2 ELSE 1

\* The DMA: what it has written of the newest frame, and what is left of it.
Channel ==
    /\ dma.left > 0 => /\ ~dma.owes /\ Len(frames) > 0 /\ dma.part # 1
                       /\ Bytes(Len(frames), dma.part) + dma.left = frames[Len(frames)].len
    /\ dma.owes => dma.left = 0 /\ Len(frames) > 0 /\ frames[Len(frames)].stamp
    /\ \A i \in Slots : desc[i].of <= Len(frames)

\* Descriptor d describes what of frame f comes after n parts.
Describes(d, f, n) ==
    LET k   == frames[f]
        end == Bytes(f, n + PerDesc(n))
    IN  /\ ~d.ctxt /\ d.of = f /\ f \in 1 .. Len(frames) /\ n # 1
        /\ d.fd <=> n = 0
        /\ Bytes(f, n) < k.len
        /\ d.ld <=> k.len <= end
        /\ d.len = IF d.ld THEN k.len ELSE end
        /\ d.es <=> d.ld /\ k.es
        /\ d.stamp <=> d.ld /\ k.stamp
        /\ d.fd => d.hl = k.hl

\* Buffer b holds it.
Holds(b, f, n) ==
    /\ mode = "jumbo" =>
          /\ pages[b.page] = <<f, n + 1>>
          /\ Bytes(f, n + 1) < frames[f].len => pages[b.page2] = <<f, n + 2>>
    /\ mode = "split" /\ n = 0 =>
          /\ skbs[b.skb].data = <<f, 1>>
          /\ Bytes(f, 1) < frames[f].len => pages[b.page2] = <<f, 2>>
    /\ mode = "split" /\ n > 0 => pages[b.page2] = <<f, n + 1>>

Begun(i, f, n) == Describes(desc[i], f, n) /\ Holds(buf[i], f, n)

\* The DMA is where t frames and n parts of the next are written.
DmaAt(t, n) ==
    /\ ~dma.owes
    /\ IF n = 0 THEN IF dma.left = 0 THEN t = Len(frames) ELSE dma.part = 0 /\ t + 1 = Len(frames)
       ELSE dma.left > 0 /\ dma.part = n /\ t + 1 = Len(frames)

\* The DMA has written the descriptors b .. b + at - 1.  After t frames and n
\* parts of the next, place p has what comes then, or the DMA is there.
PartAt(b, at, p, t, n) ==
    /\ p < at => Begun(Advance(b, p), t + 1, n)
    /\ p = at => DmaAt(t, n)

\* Place p has the time stamp of frame f, or the DMA is about to write it there.
StampAt(b, at, p, f) ==
    /\ p < at => desc[Advance(b, p)].ctxt /\ desc[Advance(b, p)].of = f
    /\ p = at => dma.owes /\ f = Len(frames)

\* What comes after the descriptor at place p.
Followed(b, at, p) ==
    LET d == desc[Advance(b, p)]
    IN  /\ d.ctxt => PartAt(b, at, p + 1, d.of, 0)
        /\ ~d.ctxt => \A n \in Nat : Begun(Advance(b, p), d.of, n) =>
              /\ ~d.ld => PartAt(b, at, p + 1, d.of - 1, n + PerDesc(n))
              /\ d.ld /\ d.stamp => StampAt(b, at, p + 1, d.of)
              /\ d.ld /\ ~d.stamp => PartAt(b, at, p + 1, d.of, 0)

Linked(b, at) == \A p \in 0 .. at - 1 : Followed(b, at, p)

Handed(b, at, room) ==
    /\ dma.idx = Advance(b, at)
    /\ \A p \in 0 .. RX_DESC_CNT - 1 : desc[Advance(b, p)].own <=> at <= p /\ p < room

\* The last frame the stack got; those up to t that came after it are accounted for.
LastOf == IF delivered = <<>> THEN 0 ELSE delivered[Len(delivered)].of
Settled(t) ==
    /\ LastOf <= t /\ t <= Len(frames)
    /\ \A h \in LastOf + 1 .. t : frames[h].es \/ h \in gone

\* The first parts of frame f are the first an skb has.
Lead(skb) == IF skb.put > 0 THEN 1 ELSE 0
Reads(skb, f, n) ==
    /\ n <= Lead(skb) + Len(skb.frags)
    /\ skb.put > 0 /\ n > 0 => skb.data = <<f, 1>>
    /\ \A j \in 1 .. Len(skb.frags) : j + Lead(skb) <= n => pages[skb.frags[j]] = <<f, j + Lead(skb)>>

\* n parts of frame f are in the chain, and nothing else.
Collected(f, n) ==
    /\ n = 0 <=> skb_top = 0
    /\ n > 0 => Reads(skbs[skb_top], f, n) /\ n = Lead(skbs[skb_top]) + Len(skbs[skb_top].frags)

\* What the poll finds next.
Laid(at, t, n) ==
    /\ at <= Room /\ Handed(Coming, at, Room)
    /\ PartAt(Coming, at, 0, t, n) /\ Linked(Coming, at)
    /\ Settled(t) /\ Collected(t + 1, n)

LaidOut == \E at \in Nat, t \in Nat, n \in Nat : Laid(at, t, n)

GivenWhole ==
    \A m \in DOMAIN delivered :
        LET d == delivered[m]
        IN  d.of \in 1 .. Len(frames) /\ Reads(skbs[d.skb], d.of, Count(d.of, d.mode))

\* Good frames only, in the order of their arrival, and none of those before the
\* last is left out.
Ordered ==
    /\ \A n \in DOMAIN delivered : ~frames[delivered[n].of].es
    /\ \A m, n \in DOMAIN delivered : m < n => delivered[m].of < delivered[n].of
    /\ \A h \in 1 .. LastOf : Accounted(h)

\* The stack has no skb twice, and no page is twice in what has left the ring.
SkbsOnce == \A m, n \in DOMAIN delivered : delivered[m].skb = delivered[n].skb => m = n
PagesOnce ==
    \A r, s \in Held : \A m \in DOMAIN skbs[r].frags, n \in DOMAIN skbs[s].frags :
        skbs[r].frags[m] = skbs[s].frags[n] => r = s /\ m = n
Once == SkbsOnce /\ PagesOnce

ChainInv ==
    /\ Types /\ Counts /\ Stock /\ Distinct(buf) /\ Apart /\ Clean /\ Channel
    /\ LaidOut /\ GivenWhole /\ Ordered /\ Once

-----------------------------------------------------------------------------
(* Frames and their parts.                                                 *)

LEMMA FrameFacts ==
    ASSUME Ordinary, Types, NEW f \in 1 .. Len(frames)
    PROVE  /\ frames[f] \in Kinds /\ frames[f].len \in Nat \ {0} /\ frames[f].hl \in Nat
           /\ frames[f].es \in BOOLEAN /\ frames[f].stamp \in BOOLEAN
           /\ frames[f].hl <= frames[f].len
           /\ ~frames[f].es => frames[f].len <= 3 * BufLen
           /\ frames[f].stamp => ~frames[f].es
           /\ frames[f].stamp /\ MaxLates > 0 =>
                 /\ frames[f].len <= Copybreak /\ frames[f].len <= HdrSize /\ frames[f].hl = 0
                 /\ (MaxLates + 1) * frames[f].len <= Tailroom
           /\ Header(f) \in Nat \ {0} /\ Header(f) <= frames[f].len
<1>1. frames[f] \in Kinds
  BY DEF Types
<1>2. frames[f] \in KindType
  BY <1>1, ChainAssumption
<1>3. /\ frames[f].len \in Nat \ {0} /\ frames[f].hl \in Nat
      /\ frames[f].es \in BOOLEAN /\ frames[f].stamp \in BOOLEAN
  BY <1>2 DEF KindType
<1>4. /\ frames[f].hl <= frames[f].len
      /\ ~frames[f].es => frames[f].len <= 3 * BufLen
      /\ frames[f].stamp => ~frames[f].es
      /\ frames[f].stamp /\ MaxLates > 0 =>
            /\ frames[f].len <= Copybreak /\ frames[f].len <= HdrSize /\ frames[f].hl = 0
            /\ (MaxLates + 1) * frames[f].len <= Tailroom
  BY <1>1 DEF Ordinary
<1>5. Header(f) \in Nat \ {0} /\ Header(f) <= frames[f].len
  BY <1>3, <1>4, Sizes DEF Header, Lesser
<1> QED
  BY <1>1, <1>3, <1>4, <1>5

LEMMA BytesNext ==
    ASSUME Ordinary, Types, NEW f \in 1 .. Len(frames), NEW n \in Nat
    PROVE  /\ Bytes(f, n) \in Nat
           /\ Bytes(f, n + 1) = Bytes(f, n) + (IF mode = "split" /\ n = 0 THEN Header(f) ELSE BufLen)
<1>1. Header(f) \in Nat \ {0} /\ BufLen \in Nat \ {0} /\ (mode = "jumbo" \/ mode = "split")
  BY FrameFacts, Sizes DEF Types
<1>2. CASE mode = "jumbo"
  <2>1. BufLen * n \in Nat /\ BufLen * (n + 1) = BufLen * n + BufLen
    BY <1>1
  <2> QED
    BY <1>2, <2>1 DEF Bytes
<1>3. CASE mode # "jumbo" /\ n = 0
  <2>1. BufLen * ((n + 1) - 1) = 0
    BY <1>1, <1>3
  <2> QED
    BY <1>1, <1>3, <2>1 DEF Bytes
<1>4. CASE mode # "jumbo" /\ n # 0
  <2>1. BufLen * (n - 1) \in Nat /\ BufLen * ((n + 1) - 1) = BufLen * (n - 1) + BufLen
    BY <1>1, <1>4
  <2> QED
    BY <1>1, <1>4, <2>1 DEF Bytes
<1> QED
  BY <1>2, <1>3, <1>4

\* A descriptor takes one or two parts more.
LEMMA BytesPer ==
    ASSUME Ordinary, Types, NEW f \in 1 .. Len(frames), NEW n \in Nat
    PROVE  /\ PerDesc(n) \in {1, 2} /\ n + PerDesc(n) \in Nat
           /\ Bytes(f, n) \in Nat /\ Bytes(f, n + 1) \in Nat /\ Bytes(f, n + PerDesc(n)) \in Nat
           /\ Bytes(f, n) < Bytes(f, n + 1) /\ Bytes(f, n + 1) <= Bytes(f, n + PerDesc(n))
           /\ PerDesc(n) = 2 => Bytes(f, n + 2) = Bytes(f, n + 1) + BufLen
<1>1. PerDesc(n) \in {1, 2}
  BY DEF PerDesc
<1>2. /\ Bytes(f, n) \in Nat
      /\ Bytes(f, n + 1) = Bytes(f, n) + (IF mode = "split" /\ n = 0 THEN Header(f) ELSE BufLen)
  BY BytesNext
<1>3. /\ Bytes(f, n + 1) \in Nat
      /\ Bytes(f, (n + 1) + 1) = Bytes(f, n + 1) + (IF mode = "split" /\ n + 1 = 0 THEN Header(f) ELSE BufLen)
  <2>1. n + 1 \in Nat
    OBVIOUS
  <2> QED
    BY <2>1, BytesNext
<1>4. Header(f) \in Nat \ {0} /\ BufLen \in Nat \ {0}
  BY FrameFacts, Sizes
<1>5. Bytes(f, n + 2) = Bytes(f, n + 1) + BufLen
  BY <1>3
<1>6. Bytes(f, n) < Bytes(f, n + 1)
  BY <1>2, <1>4
<1>7. CASE PerDesc(n) = 1
  BY <1>2, <1>3, <1>6, <1>7
<1>8. CASE PerDesc(n) = 2
  BY <1>2, <1>3, <1>4, <1>5, <1>6, <1>8
<1> QED
  BY <1>1, <1>7, <1>8

LEMMA DivNat ==
    ASSUME NEW a \in Nat, NEW b \in Nat \ {0}
    PROVE  (a + b - 1) \div b \in Nat
<1> DEFINE q == (a + b - 1) \div b
<1>1. q \in Int /\ b * q <= a + b - 1 /\ a + b - 1 < b * q + b
  BY Z3
<1> HIDE DEF q
<1>2. 0 < b * (q + 1)
  BY <1>1
<1>3. 0 < q + 1
  BY <1>1, <1>2
<1>4. q \in Nat
  BY <1>1, <1>3
<1> QED
  BY <1>4 DEF q

LEMMA DivUp ==
    ASSUME NEW a \in Nat, NEW b \in Nat \ {0}, NEW n \in Nat
    PROVE  /\ (n - 1) * b < a /\ a <= n * b => (a + b - 1) \div b = n
           /\ n * b < a => n + 1 <= (a + b - 1) \div b
<1> DEFINE q == (a + b - 1) \div b
<1>1. q \in Int /\ b * q <= a + b - 1 /\ a + b - 1 < b * q + b
  BY Z3
<1> HIDE DEF q
<1>2. (n - 1) * b < a /\ a <= n * b => q = n
  <2> SUFFICES ASSUME (n - 1) * b < a, a <= n * b PROVE q = n
    OBVIOUS
  <2>1. (n - 1) * b = n * b - b
    OBVIOUS
  <2>2. b * q < n * b + b /\ n * b < b * q + b
    BY <1>1, <2>1
  <2>3. b * q < b * (n + 1) /\ b * n < b * (q + 1)
    BY <1>1, <2>2
  <2>4. q < n + 1
    BY <1>1, <2>3
  <2>5. n < q + 1
    BY <1>1, <2>3
  <2> QED
    BY <1>1, <2>4, <2>5
<1>3. n * b < a => n + 1 <= q
  <2> SUFFICES ASSUME n * b < a PROVE n + 1 <= q
    OBVIOUS
  <2>1. b * (n + 1) < b * (q + 1)
    BY <1>1
  <2>2. n + 1 < q + 1
    BY <1>1, <2>1
  <2> QED
    BY <1>1, <2>2
<1> QED
  BY <1>2, <1>3 DEF q

\* How many parts a frame has.
LEMMA CountIs ==
    ASSUME Ordinary, Types, NEW f \in 1 .. Len(frames), NEW n \in Nat
    PROVE  /\ Bytes(f, n) < frames[f].len /\ frames[f].len <= Bytes(f, n + 1) => Count(f, mode) = n + 1
           /\ Bytes(f, n) < frames[f].len => n < Count(f, mode)
<1>1. /\ Header(f) \in Nat \ {0} /\ Header(f) <= frames[f].len /\ frames[f].len \in Nat
      /\ BufLen \in Nat \ {0} /\ (mode = "jumbo" \/ mode = "split")
  BY FrameFacts, Sizes DEF Types
<1>2. CASE mode = "jumbo"
  <2>1. Count(f, mode) = (frames[f].len + BufLen - 1) \div BufLen
    BY <1>1, <1>2 DEF Count
  <2>2. /\ ((n + 1) - 1) * BufLen < frames[f].len /\ frames[f].len <= (n + 1) * BufLen =>
              (frames[f].len + BufLen - 1) \div BufLen = n + 1
        /\ n * BufLen < frames[f].len => n + 1 <= (frames[f].len + BufLen - 1) \div BufLen
    <3>1. n + 1 \in Nat
      OBVIOUS
    <3>2. ((n + 1) - 1) * BufLen < frames[f].len /\ frames[f].len <= (n + 1) * BufLen =>
              (frames[f].len + BufLen - 1) \div BufLen = n + 1
      BY <1>1, <3>1, DivUp
    <3>3. n * BufLen < frames[f].len => n + 1 <= (frames[f].len + BufLen - 1) \div BufLen
      BY <1>1, DivUp
    <3> QED
      BY <3>2, <3>3
  <2>3. Bytes(f, n) = n * BufLen /\ Bytes(f, n + 1) = (n + 1) * BufLen /\ (n + 1) - 1 = n
    BY <1>1, <1>2 DEF Bytes
  <2>4. (frames[f].len + BufLen - 1) \div BufLen \in Int
    BY <1>1
  <2> QED
    BY <2>1, <2>2, <2>3, <2>4
<1>3. CASE mode = "split"
  <2> DEFINE a == frames[f].len - Header(f)
  <2>1. a \in Nat /\ a + BufLen - 1 \in Int
    BY <1>1
  <2>2. Count(f, mode) = ((a + BufLen - 1) \div BufLen) + 1
    BY <1>3 DEF Count, Header
  <2>3. CASE n = 0
    <3>1. Bytes(f, n) = 0 /\ Bytes(f, n + 1) = Header(f)
      BY <1>1, <1>3, <2>3, BytesNext DEF Bytes
    <3>2. (0 - 1) * BufLen < a /\ a <= 0 * BufLen => (a + BufLen - 1) \div BufLen = 0
      BY <1>1, <2>1, DivUp
    <3>3. frames[f].len <= Header(f) => a = 0
      BY <1>1
    <3>4. (0 - 1) * BufLen < 0 /\ 0 * BufLen = 0
      BY <1>1
    <3>5. (a + BufLen - 1) \div BufLen >= 0
      BY <1>1, <2>1, DivNat, SMTT(30)
    <3> HIDE DEF a
    <3>6. (a + BufLen - 1) \div BufLen \in Int
      BY <1>1, <2>1
    <3> QED
      BY <2>1, <2>2, <2>3, <3>1, <3>2, <3>3, <3>4, <3>5, <3>6
  <2>4. CASE n # 0
    <3> DEFINE m == n - 1
    <3>1. m \in Nat /\ n = m + 1
      BY <2>4
    <3>2. /\ ((m + 1) - 1) * BufLen < a /\ a <= (m + 1) * BufLen => (a + BufLen - 1) \div BufLen = m + 1
          /\ m * BufLen < a => m + 1 <= (a + BufLen - 1) \div BufLen
      BY <1>1, <2>1, <3>1, DivUp
    <3>3. Bytes(f, n) = Header(f) + m * BufLen /\ Bytes(f, n + 1) = Header(f) + (m + 1) * BufLen
      BY <1>1, <1>3, <3>1 DEF Bytes
    <3>4. m * BufLen \in Nat /\ (m + 1) * BufLen \in Nat /\ (m + 1) - 1 = m
      BY <1>1, <3>1
    <3>5. /\ Bytes(f, n) < frames[f].len <=> m * BufLen < a
          /\ frames[f].len <= Bytes(f, n + 1) <=> a <= (m + 1) * BufLen
      BY <1>1, <3>3, <3>4, SMTT(30)
    <3> HIDE DEF a
    <3>6. (a + BufLen - 1) \div BufLen \in Int
      BY <1>1, <2>1
    <3> QED
      BY <2>2, <3>1, <3>2, <3>4, <3>5, <3>6
  <2> QED
    BY <2>3, <2>4
<1> QED
  BY <1>1, <1>2, <1>3

\* A descriptor and its buffer say which part they begin with.
LEMMA BegunOnce ==
    ASSUME Types, NEW i, NEW f, NEW n \in Nat, NEW m \in Nat, Begun(i, f, n), Begun(i, f, m)
    PROVE  n = m
<1>1. (n = 0 <=> m = 0) /\ (mode = "jumbo" \/ mode = "split")
  BY DEF Begun, Describes, Types
<1>2. CASE mode = "jumbo"
  <2>1. <<f, n + 1>> = <<f, m + 1>>
    BY <1>2 DEF Begun, Holds
  <2> QED
    BY <2>1
<1>3. CASE mode = "split" /\ n > 0
  <2>1. <<f, n + 1>> = <<f, m + 1>>
    BY <1>1, <1>3 DEF Begun, Holds
  <2> QED
    BY <2>1
<1> QED
  BY <1>1, <1>2, <1>3

-----------------------------------------------------------------------------
(* The poll passes a descriptor: what was at place p + 1 is at place p.     *)

LEMMA PassPart ==
    ASSUME NEW b \in Slots, NEW at \in 1 .. RX_DESC_CNT, NEW p \in 0 .. at - 1, NEW t, NEW n
    PROVE  PartAt(Advance(b, 1), at - 1, p, t, n) <=> PartAt(b, at, p + 1, t, n)
<1>1. p < at - 1 => Advance(Advance(b, 1), p) = Advance(b, p + 1)
  BY AdvanceFrom, Sizes
<1>2. (p < at - 1 <=> p + 1 < at) /\ (p = at - 1 <=> p + 1 = at)
  OBVIOUS
<1> QED
  BY <1>1, <1>2 DEF PartAt

LEMMA PassStamp ==
    ASSUME NEW b \in Slots, NEW at \in 1 .. RX_DESC_CNT, NEW p \in 0 .. at - 1, NEW f
    PROVE  StampAt(Advance(b, 1), at - 1, p, f) <=> StampAt(b, at, p + 1, f)
<1>1. p < at - 1 => Advance(Advance(b, 1), p) = Advance(b, p + 1)
  BY AdvanceFrom, Sizes
<1>2. (p < at - 1 <=> p + 1 < at) /\ (p = at - 1 <=> p + 1 = at)
  OBVIOUS
<1> QED
  BY <1>1, <1>2 DEF StampAt

LEMMA PassLinked ==
    ASSUME NEW b \in Slots, NEW at \in 1 .. RX_DESC_CNT, Linked(b, at)
    PROVE  Linked(Advance(b, 1), at - 1)
<1> SUFFICES ASSUME NEW p \in 0 .. (at - 1) - 1
             PROVE  Followed(Advance(b, 1), at - 1, p)
  BY DEF Linked
<1>1. Advance(Advance(b, 1), p) = Advance(b, p + 1)
  BY AdvanceFrom, Sizes
<1>2. p + 1 \in 0 .. at - 1
  OBVIOUS
<1>3. Followed(b, at, p + 1)
  BY <1>2 DEF Linked
<1>4. \A t, n : PartAt(Advance(b, 1), at - 1, p + 1, t, n) <=> PartAt(b, at, (p + 1) + 1, t, n)
  BY <1>2, PassPart
<1>5. \A f : StampAt(Advance(b, 1), at - 1, p + 1, f) <=> StampAt(b, at, (p + 1) + 1, f)
  BY <1>2, PassStamp
<1> QED
  BY <1>1, <1>3, <1>4, <1>5 DEF Followed

LEMMA PassHanded ==
    ASSUME NEW b \in Slots, NEW at \in 1 .. RX_DESC_CNT, NEW room \in 0 .. RX_DESC_CNT,
           at <= room, Handed(b, at, room)
    PROVE  Handed(Advance(b, 1), at - 1, room - 1) /\ ~desc[b].own
<1>1. ~desc[b].own
  <2>1. 0 \in 0 .. RX_DESC_CNT - 1 /\ ~(at <= 0)
    BY Sizes
  <2> QED
    BY <2>1, AdvanceZero DEF Handed
<1>2. dma.idx = Advance(Advance(b, 1), at - 1)
  <2>1. at - 1 \in 0 .. RX_DESC_CNT - 1 /\ (at - 1) + 1 = at
    BY Sizes
  <2> QED
    BY <2>1, AdvanceFrom DEF Handed
<1>3. ASSUME NEW p \in 0 .. RX_DESC_CNT - 1
      PROVE  desc[Advance(Advance(b, 1), p)].own <=> at - 1 <= p /\ p < room - 1
  <2>1. Advance(Advance(b, 1), p) = Advance(b, p + 1)
    BY AdvanceFrom
  <2>2. CASE p + 1 \in 0 .. RX_DESC_CNT - 1
    <3>1. desc[Advance(b, p + 1)].own <=> at <= p + 1 /\ p + 1 < room
      BY <2>2 DEF Handed
    <3> QED
      BY <2>1, <3>1
  <2>3. CASE p + 1 = RX_DESC_CNT
    <3>1. Advance(b, p + 1) = b
      BY <2>3, Sizes DEF Advance
    <3>2. ~(p < room - 1)
      BY <2>3
    <3> QED
      BY <1>1, <2>1, <3>1, <3>2
  <2> QED
    BY <2>2, <2>3, Sizes
<1> QED
  BY <1>1, <1>2, <1>3 DEF Handed

\* One descriptor of data is passed: what comes after it is next.
LEMMA PassData ==
    ASSUME NEW b \in Slots, NEW at \in 1 .. RX_DESC_CNT, NEW t \in Nat, NEW n \in Nat,
           PartAt(b, at, 0, t, n), Linked(b, at)
    PROVE  /\ Begun(b, t + 1, n)
           /\ ~desc[b].ld => PartAt(Advance(b, 1), at - 1, 0, t, n + PerDesc(n))
           /\ desc[b].ld /\ ~desc[b].stamp => PartAt(Advance(b, 1), at - 1, 0, t + 1, 0)
           /\ desc[b].ld /\ desc[b].stamp => StampAt(Advance(b, 1), at - 1, 0, t + 1)
<1>1. Begun(b, t + 1, n)
  BY AdvanceZero DEF PartAt
<1>2. ~desc[b].ctxt /\ desc[b].of = t + 1 /\ desc[b].of - 1 = t
  BY <1>1 DEF Begun, Describes
<1>3. Followed(b, at, 0)
  BY DEF Linked
<1>4. /\ ~desc[b].ld => PartAt(b, at, 0 + 1, t, n + PerDesc(n))
      /\ desc[b].ld /\ desc[b].stamp => StampAt(b, at, 0 + 1, t + 1)
      /\ desc[b].ld /\ ~desc[b].stamp => PartAt(b, at, 0 + 1, t + 1, 0)
  BY <1>1, <1>2, <1>3, AdvanceZero DEF Followed
<1>5. 0 \in 0 .. at - 1
  OBVIOUS
<1> QED
  BY <1>1, <1>4, <1>5, PassPart, PassStamp

\* A time stamp is passed.
LEMMA PassContext ==
    ASSUME NEW b \in Slots, NEW at \in 1 .. RX_DESC_CNT, NEW f \in Nat,
           StampAt(b, at, 0, f), Linked(b, at)
    PROVE  PartAt(Advance(b, 1), at - 1, 0, f, 0) /\ desc[b].ctxt
<1>1. desc[b].ctxt /\ desc[b].of = f
  BY AdvanceZero DEF StampAt
<1>2. Followed(b, at, 0)
  BY DEF Linked
<1>3. PartAt(b, at, 0 + 1, f, 0)
  BY <1>1, <1>2, AdvanceZero DEF Followed
<1>4. 0 \in 0 .. at - 1
  OBVIOUS
<1> QED
  BY <1>1, <1>3, <1>4, PassPart

-----------------------------------------------------------------------------
(* What a step leaves as it was.                                           *)

\* The frames that arrived stay, in their mode.
FramesStay ==
    /\ mode' = mode /\ Len(frames) <= Len(frames')
    /\ \A f \in 1 .. Len(frames) : frames'[f] = frames[f]

\* What the buffers b have received.
DataStays(b) ==
    /\ pages'[b.page2] = pages[b.page2]
    /\ mode = "jumbo" => pages'[b.page] = pages[b.page]
    /\ mode = "split" => skbs'[b.skb].data = skbs[b.skb].data

SlotStays(i) == desc'[i] = desc[i] /\ buf'[i] = buf[i] /\ DataStays(buf[i])

LEMMA BytesStay ==
    ASSUME FramesStay, NEW f \in 1 .. Len(frames), NEW n
    PROVE  /\ Header(f)' = Header(f) /\ Bytes(f, n)' = Bytes(f, n) /\ PerDesc(n)' = PerDesc(n)
           /\ frames'[f] = frames[f]
<1>1. frames'[f] = frames[f] /\ mode' = mode
  BY DEF FramesStay
<1>2. Header(f)' = Header(f)
  BY <1>1 DEF Header, Lesser
<1>3. Bytes(f, n)' = Bytes(f, n)
  BY <1>1, <1>2 DEF Bytes
<1>4. PerDesc(n)' = PerDesc(n)
  BY <1>1 DEF PerDesc
<1> QED
  BY <1>1, <1>2, <1>3, <1>4

LEMMA BegunStays ==
    ASSUME Types, Types', FramesStay, NEW i \in Slots, SlotStays(i),
           NEW f \in 1 .. Len(frames), NEW n \in Nat
    PROVE  Begun(i, f, n)' <=> Begun(i, f, n)
<1>1. desc'[i] = desc[i] /\ buf'[i] = buf[i] /\ mode' = mode
  BY DEF SlotStays, FramesStay
<1>2. /\ Bytes(f, n)' = Bytes(f, n) /\ Bytes(f, n + 1)' = Bytes(f, n + 1) /\ Bytes(f, 1)' = Bytes(f, 1)
      /\ PerDesc(n)' = PerDesc(n) /\ frames'[f] = frames[f]
  BY BytesStay
<1>3. Bytes(f, n + PerDesc(n))' = Bytes(f, n + PerDesc(n))
  <2>1. mode' = mode /\ Header(f)' = Header(f) /\ PerDesc(n)' = PerDesc(n)
    BY <1>1, BytesStay
  <2> QED
    BY <2>1 DEF Bytes
<1>4. f \in 1 .. Len(frames') /\ f \in 1 .. Len(frames)
  <2>1. frames \in Seq(Kinds) /\ frames' \in Seq(Kinds)
    BY DEF Types
  <2>2. Len(frames) \in Nat /\ Len(frames') \in Nat
    BY <2>1
  <2> QED
    BY <2>2 DEF FramesStay
<1>5. Describes(desc[i], f, n)' <=> Describes(desc[i], f, n)
  BY <1>1, <1>2, <1>3, <1>4 DEF Describes
<1>6. Holds(buf[i], f, n)' <=> Holds(buf[i], f, n)
  BY <1>1, <1>2 DEF Holds, SlotStays, DataStays
<1> QED
  BY <1>5, <1>6 DEF Begun

\* The stream as it lies in the ring is the same after a step that leaves the
\* descriptors before place at alone, and leaves at place at what was due there.
Due(b, at, at2) ==
    /\ \A t \in Nat, n \in Nat : DmaAt(t, n) => PartAt(b, at2, at, t, n)'
    /\ \A f : dma.owes /\ f = Len(frames) => StampAt(b, at2, at, f)'

LEMMA PartStays ==
    ASSUME Types, Types', FramesStay, NEW b \in Slots, NEW at \in Nat, at <= RX_DESC_CNT,
           NEW at2 \in Nat, at <= at2,
           \A q \in 0 .. at - 1 : SlotStays(Advance(b, q)), Due(b, at, at2),
           NEW p \in 0 .. at, NEW t \in Nat, NEW n \in Nat, PartAt(b, at, p, t, n)
    PROVE  PartAt(b, at2, p, t, n)'
<1>1. CASE p = at
  BY <1>1 DEF PartAt, Due
<1>2. CASE p < at
  <2>1. Begun(Advance(b, p), t + 1, n)
    BY <1>2 DEF PartAt
  <2>2. t + 1 \in 1 .. Len(frames)
    BY <2>1 DEF Begun, Describes
  <2>3. Advance(b, p) \in Slots /\ SlotStays(Advance(b, p))
    BY <1>2, AdvanceType, Sizes, SMTT(30)
  <2> DEFINE i == Advance(b, p)
  <2> DEFINE f == t + 1
  <2> HIDE DEF i, f
  <2>4. Begun(i, f, n)'
    BY <2>1, <2>2, <2>3, BegunStays DEF i, f
  <2>5. Advance(b, p)' = i
    BY DEF i, Advance
  <2>6. p < at2 /\ p # at2
    BY <1>2
  <2>7. Begun(Advance(b, p), t + 1, n)'
    BY <2>4, <2>5 DEF f
  <2> QED
    BY <2>6, <2>7 DEF PartAt
<1> QED
  BY <1>1, <1>2

LEMMA StampStays ==
    ASSUME Types, Types', NEW b \in Slots, NEW at \in Nat, at <= RX_DESC_CNT,
           NEW at2 \in Nat, at <= at2,
           \A q \in 0 .. at - 1 : SlotStays(Advance(b, q)), Due(b, at, at2),
           NEW p \in 0 .. at, NEW f, StampAt(b, at, p, f)
    PROVE  StampAt(b, at2, p, f)'
<1>1. CASE p = at
  BY <1>1 DEF StampAt, Due
<1>2. CASE p < at
  <2>1. desc'[Advance(b, p)] = desc[Advance(b, p)]
    BY <1>2 DEF SlotStays
  <2>2. p < at2 /\ p # at2
    BY <1>2
  <2> QED
    BY <1>2, <2>1, <2>2 DEF StampAt, Advance
<1> QED
  BY <1>1, <1>2

LEMMA LinkedStays ==
    ASSUME Types, Types', FramesStay, NEW b \in Slots, NEW at \in Nat, at <= RX_DESC_CNT,
           NEW at2 \in Nat, at <= at2, \A i \in Slots : desc[i].of <= Len(frames),
           \A q \in 0 .. at - 1 : SlotStays(Advance(b, q)), Due(b, at, at2),
           \A q \in at .. at2 - 1 : Followed(b, at2, q)',
           Linked(b, at)
    PROVE  Linked(b, at2)'
<1> SUFFICES ASSUME NEW p \in 0 .. at2 - 1 PROVE Followed(b, at2, p)'
  BY DEF Linked
<1>1. CASE p >= at
  BY <1>1
<1>2. CASE p < at
  <2>1. PICK i : i \in Slots /\ i = Advance(b, p)
    <3>1. p \in 0 .. RX_DESC_CNT
      BY <1>2, Sizes
    <3> QED
      BY <3>1, AdvanceType, Zenon
  <2>2. SlotStays(i) /\ Advance(b, p)' = i
    BY <1>2, <2>1 DEF Advance
  <2>3. PICK d : d \in DescType /\ d = desc[i]
    BY <2>1 DEF Types
  <2>4. d = desc'[i] /\ d.of \in Nat /\ d.of <= Len(frames) /\ p + 1 \in 0 .. at
    BY <1>2, <2>1, <2>2, <2>3 DEF SlotStays, DescType
  <2>5. /\ d.ctxt => PartAt(b, at, p + 1, d.of, 0)
        /\ ~d.ctxt => \A n \in Nat : Begun(i, d.of, n) =>
              /\ ~d.ld => PartAt(b, at, p + 1, d.of - 1, n + PerDesc(n))
              /\ d.ld /\ d.stamp => StampAt(b, at, p + 1, d.of)
              /\ d.ld /\ ~d.stamp => PartAt(b, at, p + 1, d.of, 0)
    BY <1>2, <2>1, <2>3 DEF Linked, Followed
  <2>6. d.ctxt => PartAt(b, at2, p + 1, d.of, 0)'
    BY <2>4, <2>5, PartStays
  <2>7. ASSUME ~d.ctxt, NEW n \in Nat, Begun(i, d.of, n)'
        PROVE  /\ ~d.ld => PartAt(b, at2, p + 1, d.of - 1, n + PerDesc(n))'
               /\ d.ld /\ d.stamp => StampAt(b, at2, p + 1, d.of)'
               /\ d.ld /\ ~d.stamp => PartAt(b, at2, p + 1, d.of, 0)'
    <3>1. d.of \in 1 .. Len(frames)
      <4>1. d.of >= 1
        BY <2>7, <2>4 DEF Begun, Describes
      <4>2. Len(frames) \in Nat
        BY DEF Types
      <4> QED
        BY <2>4, <4>1, <4>2
    <3>2. Begun(i, d.of, n)
      BY <2>1, <2>2, <2>7, <3>1, BegunStays
    <3>3. PICK m \in Nat : m = n + PerDesc(n)
      BY DEF PerDesc
    <3>4. m = (n + PerDesc(n))'
      BY <3>3 DEF PerDesc, FramesStay
    <3>5. d.of - 1 \in Nat
      BY <3>1
    <3>6. ~d.ld => PartAt(b, at2, p + 1, d.of - 1, m)'
      BY <2>4, <2>5, <2>7, <3>2, <3>3, <3>5, PartStays
    <3>7. d.ld /\ d.stamp => StampAt(b, at2, p + 1, d.of)'
      BY <2>4, <2>5, <2>7, <3>2, StampStays
    <3>8. d.ld /\ ~d.stamp => PartAt(b, at2, p + 1, d.of, 0)'
      BY <2>4, <2>5, <2>7, <3>2, PartStays
    <3> QED
      BY <3>4, <3>6, <3>7, <3>8
  <2> QED
    BY <2>2, <2>4, <2>6, <2>7 DEF Followed
<1> QED
  BY <1>1, <1>2, Sizes

-----------------------------------------------------------------------------
(* What an skb gets.                                                       *)

LEMMA ReadsAdd ==
    ASSUME NEW skb \in SkbType, NEW f, NEW n \in Nat, NEW page \in Nat, NEW x \in Nat,
           Reads(skb, f, n)
    PROVE  /\ AddPage(skb, page, x) \in SkbType
           /\ Reads(AddPage(skb, page, x), f, n)
           /\ Lead(AddPage(skb, page, x)) = Lead(skb)
           /\ Len(AddPage(skb, page, x).frags) = Len(skb.frags) + 1
           /\ n = Lead(skb) + Len(skb.frags) /\ pages[page] = <<f, n + 1>> =>
                 Reads(AddPage(skb, page, x), f, n + 1)
<1> DEFINE new == AddPage(skb, page, x)
<1>1. /\ skb.frags \in Seq(Nat) /\ skb.put \in Nat /\ skb.len \in Nat /\ skb.data \in DataType
      /\ Len(skb.frags) \in Nat
  BY DEF SkbType
<1>2. Append(skb.frags, page) \in Seq(Nat) /\ skb.len + x \in Nat
  BY <1>1
<1>3. /\ new.data = skb.data /\ new.put = skb.put /\ new.frags = Append(skb.frags, page)
      /\ new \in SkbType
  BY <1>1, <1>2 DEF AddPage, SkbType
<1>4. Lead(new) = Lead(skb) /\ Lead(skb) \in {0, 1}
  BY <1>3 DEF Lead
<1>5. /\ Len(new.frags) = Len(skb.frags) + 1
      /\ \A j \in 1 .. Len(skb.frags) : new.frags[j] = skb.frags[j]
      /\ new.frags[Len(skb.frags) + 1] = page
  BY <1>1, <1>3
<1> HIDE DEF new
<1>6. Reads(new, f, n)
  <2>1. n <= Lead(new) + Len(new.frags)
    BY <1>1, <1>4, <1>5 DEF Reads
  <2>2. new.put > 0 /\ n > 0 => new.data = <<f, 1>>
    BY <1>3 DEF Reads
  <2>3. ASSUME NEW j \in 1 .. Len(new.frags), j + Lead(new) <= n
        PROVE  pages[new.frags[j]] = <<f, j + Lead(new)>>
    <3>1. j \in 1 .. Len(skb.frags)
      BY <1>1, <1>4, <1>5, <2>3 DEF Reads
    <3> QED
      BY <1>4, <1>5, <2>3, <3>1 DEF Reads
  <2> QED
    BY <2>1, <2>2, <2>3 DEF Reads
<1>7. ASSUME n = Lead(skb) + Len(skb.frags), pages[page] = <<f, n + 1>>
      PROVE  Reads(new, f, n + 1)
  <2>1. n + 1 <= Lead(new) + Len(new.frags)
    BY <1>1, <1>4, <1>5, <1>7
  <2>2. new.put > 0 => new.data = <<f, 1>>
    <3> SUFFICES ASSUME new.put > 0 PROVE new.data = <<f, 1>>
      OBVIOUS
    <3>1. skb.put > 0 /\ Lead(skb) = 1
      BY <1>3 DEF Lead
    <3>2. n > 0
      BY <1>1, <1>7, <3>1
    <3> QED
      BY <1>3, <3>1, <3>2 DEF Reads
  <2>3. ASSUME NEW j \in 1 .. Len(new.frags), j + Lead(new) <= n + 1
        PROVE  pages[new.frags[j]] = <<f, j + Lead(new)>>
    <3>1. CASE j \in 1 .. Len(skb.frags)
      <4>1. j + Lead(skb) <= n
        BY <1>1, <1>4, <1>7, <3>1
      <4> QED
        BY <1>4, <1>5, <3>1, <4>1 DEF Reads
    <3>2. CASE j = Len(skb.frags) + 1
      <4>1. j + Lead(new) = n + 1
        BY <1>1, <1>4, <1>7, <3>2
      <4> QED
        BY <1>5, <1>7, <3>2, <4>1
    <3> QED
      BY <1>1, <1>5, <3>1, <3>2
  <2> QED
    BY <2>1, <2>2, <2>3 DEF Reads
<1> QED
  BY <1>3, <1>4, <1>5, <1>6, <1>7 DEF new

LEMMA ReadsPut ==
    ASSUME NEW skb \in SkbType, NEW f, NEW x \in Nat \ {0}, skb.frags = <<>>, skb.data = <<f, 1>>
    PROVE  /\ Put(skb, x) \in SkbType /\ Reads(Put(skb, x), f, 1)
           /\ Lead(Put(skb, x)) + Len(Put(skb, x).frags) = 1
           /\ Put(skb, x).frags = <<>> /\ Put(skb, x).data = <<f, 1>>
           /\ Lead(Put(skb, x)) = 1
<1>1. /\ skb.frags \in Seq(Nat) /\ skb.put \in Nat /\ skb.len \in Nat /\ skb.data \in DataType
  BY DEF SkbType
<1>2. skb.put + x \in Nat \ {0} /\ skb.len + x \in Nat
  BY <1>1
<1>3. /\ Put(skb, x).put = skb.put + x /\ Put(skb, x).frags = <<>> /\ Put(skb, x).data = <<f, 1>>
      /\ Put(skb, x) \in SkbType
  BY <1>1, <1>2 DEF Put, SkbType
<1>4. Lead(Put(skb, x)) = 1 /\ Len(Put(skb, x).frags) = 0
  BY <1>2, <1>3 DEF Lead
<1> QED
  BY <1>3, <1>4 DEF Reads

\* The pages of an skb: those it had, and some of set S.
Extends(old, new, S) ==
    \A m \in DOMAIN new.frags :
        new.frags[m] \in S \/ (m \in DOMAIN old.frags /\ new.frags[m] = old.frags[m])

LEMMA AddExtends ==
    ASSUME NEW old, NEW skb \in SkbType, NEW S, NEW page \in Nat, NEW x, Extends(old, skb, S), page \in S
    PROVE  Extends(old, AddPage(skb, page, x), S)
<1> DEFINE new == AddPage(skb, page, x)
<1>1. skb.frags \in Seq(Nat)
  BY DEF SkbType
<1>2. new.frags = Append(skb.frags, page)
  BY DEF AddPage, SkbType
<1> SUFFICES ASSUME NEW m \in DOMAIN new.frags
             PROVE  new.frags[m] \in S \/ (m \in DOMAIN old.frags /\ new.frags[m] = old.frags[m])
  BY DEF Extends
<1>3. CASE m \in DOMAIN skb.frags
  BY <1>1, <1>2, <1>3 DEF Extends
<1>4. CASE m \notin DOMAIN skb.frags
  BY <1>1, <1>2, <1>4
<1> QED
  BY <1>3, <1>4

LEMMA PutExtends ==
    ASSUME NEW skb \in SkbType, NEW S, NEW x
    PROVE  Extends(skb, Put(skb, x), S) /\ Extends(skb, skb, S)
BY DEF Extends, Put, SkbType

\* A step adds none of the buffer's pages to an skb, one of them, or both.
OneMore(old, new) ==
    new.frags \in {old.frags, Append(old.frags, B.page), Append(old.frags, B.page2),
                   Append(Append(old.frags, B.page), B.page2)}

LEMMA AddsOneMore ==
    ASSUME NEW skb \in SkbType, NEW x, NEW y
    PROVE  /\ OneMore(skb, skb) /\ OneMore(skb, Put(skb, x))
           /\ OneMore(skb, AddPage(skb, B.page, x)) /\ OneMore(skb, AddPage(skb, B.page2, x))
           /\ OneMore(skb, AddPage(AddPage(skb, B.page, x), B.page2, y))
           /\ OneMore(skb, AddPage(Put(skb, x), B.page2, y))
           /\ \A d : OneMore(skb, [Put(skb, x) EXCEPT !.data = d])
<1>1. \A old \in SkbType : \A q, z : AddPage(old, q, z).frags = Append(old.frags, q)
  BY DEF AddPage, SkbType
<1>2. Put(skb, x).frags = skb.frags /\ \A d : [Put(skb, x) EXCEPT !.data = d].frags = skb.frags
  BY DEF Put, SkbType
<1>3. AddPage(AddPage(skb, B.page, x), B.page2, y).frags = Append(Append(skb.frags, B.page), B.page2)
  BY <1>1 DEF AddPage, SkbType
<1>4. AddPage(Put(skb, x), B.page2, y).frags = Append(skb.frags, B.page2)
  BY <1>2 DEF AddPage, Put, SkbType
<1> QED
  BY <1>1, <1>2, <1>3, <1>4 DEF OneMore

LEMMA StepsAdd ==
    ASSUME NEW skb \in SkbType, NEW x
    PROVE  /\ OneMore(skb, Started(skb)) /\ OneMore(skb, Ended(skb, x)) /\ OneMore(skb, Whole(skb))
<1>1. OneMore(skb, Started(skb))
  BY AddsOneMore DEF Started
<1>2. \A y : OneMore(skb, Ended(skb, y))
  BY AddsOneMore DEF Ended
<1>3. OneMore(skb, Whole(skb))
  <2>1. PICK hdr : hdr = IF HdrLen > 0 THEN HdrLen ELSE Lesser(HdrSize, D.len)
    OBVIOUS
  <2>2. Whole(skb) \in {[Put(skb, D.len) EXCEPT !.data = pages[B.page]], Ended(skb, D.len),
                        AddPage(Put(skb, hdr), B.page2, D.len - hdr), Put(skb, D.len)}
    BY <2>1 DEF Whole
  <2> QED
    BY <1>2, <2>2, AddsOneMore
<1> QED
  BY <1>1, <1>2, <1>3

\* The pages that are added are others than those there were.
LEMMA OneMoreOnce ==
    ASSUME NEW old \in SkbType, NEW new \in SkbType, OneMore(old, new),
           B.page \in Nat, B.page2 \in Nat, B.page # B.page2,
           \A m \in DOMAIN old.frags : old.frags[m] # B.page /\ old.frags[m] # B.page2
    PROVE  /\ \A m \in DOMAIN old.frags : m \in DOMAIN new.frags /\ new.frags[m] = old.frags[m]
           /\ \A m, n \in DOMAIN new.frags : new.frags[m] = new.frags[n] /\ m # n =>
                 m \in DOMAIN old.frags /\ n \in DOMAIN old.frags
<1>1. PICK f \in Seq(Nat), g \in Seq(Nat), p \in Nat, q \in Nat :
            f = old.frags /\ g = new.frags /\ p = B.page /\ q = B.page2
  BY DEF SkbType
<1>2. p # q /\ \A m \in 1 .. Len(f) : f[m] # p /\ f[m] # q
  BY <1>1
<1>3. CASE g = f
  BY <1>1, <1>3
<1>4. ASSUME NEW r \in {p, q}, g = Append(f, r)
      PROVE  /\ \A m \in 1 .. Len(f) : m \in 1 .. Len(g) /\ g[m] = f[m]
             /\ \A m, n \in 1 .. Len(g) : g[m] = g[n] /\ m # n => m \in 1 .. Len(f) /\ n \in 1 .. Len(f)
  <2>1. Len(f) \in Nat /\ Len(g) = Len(f) + 1 /\ g[Len(f) + 1] = r /\ \A m \in 1 .. Len(f) : g[m] = f[m]
    BY <1>4
  <2>2. \A m \in 1 .. Len(f) : g[m] # r
    BY <1>2, <2>1
  <2>3. \A m \in 1 .. Len(g) : m \in 1 .. Len(f) \/ m = Len(f) + 1
    BY <2>1
  <2>4. \A m \in 1 .. Len(f) : m \in 1 .. Len(g)
    BY <2>1
  <2> QED
    BY <2>1, <2>2, <2>3, <2>4, Zenon
<1>5. ASSUME g = Append(Append(f, p), q)
      PROVE  /\ \A m \in 1 .. Len(f) : m \in 1 .. Len(g) /\ g[m] = f[m]
             /\ \A m, n \in 1 .. Len(g) : g[m] = g[n] /\ m # n => m \in 1 .. Len(f) /\ n \in 1 .. Len(f)
  <2>1. /\ Len(f) \in Nat /\ Len(g) = Len(f) + 2 /\ g[Len(f) + 1] = p /\ g[Len(f) + 2] = q
        /\ \A m \in 1 .. Len(f) : g[m] = f[m]
    BY <1>5
  <2>2. \A m \in 1 .. Len(f) : g[m] # p /\ g[m] # q
    BY <1>2, <2>1
  <2>3. \A m \in 1 .. Len(g) : m \in 1 .. Len(f) \/ m = Len(f) + 1 \/ m = Len(f) + 2
    <3>1. \A k \in Nat : \A m \in 1 .. k + 2 : m \in 1 .. k \/ m = k + 1 \/ m = k + 2
      OBVIOUS
    <3> QED
      BY <2>1, <3>1
  <2>4. \A m \in 1 .. Len(f) : m \in 1 .. Len(g)
    BY <2>1
  <2> QED
    BY <1>2, <2>1, <2>2, <2>3, <2>4, Zenon
<1>6. g = f \/ g = Append(f, p) \/ g = Append(f, q) \/ g = Append(Append(f, p), q)
  BY <1>1 DEF OneMore
<1>7. DOMAIN f = 1 .. Len(f) /\ DOMAIN g = 1 .. Len(g)
  OBVIOUS
<1> QED
  BY <1>1, <1>3, <1>4, <1>5, <1>6, <1>7

-----------------------------------------------------------------------------
(* Where the poll is.                                                      *)

LEMMA Ground ==
    ASSUME Types, Counts
    PROVE  /\ Coming \in Slots /\ Behind \in 0 .. RX_DESC_CNT /\ Room \in 0 .. RX_DESC_CNT
           /\ pc = "loop" => Coming = cur_rx /\ Behind = lost + dirty_rx /\ Room >= 2
           /\ poll.i \in Nat /\ lost \in Nat /\ dirty_rx \in Nat
<1>1. poll.i \in Nat /\ lost \in Nat /\ dirty_rx \in Nat /\ lost + dirty_rx <= RX_DESC_CNT
  BY Sizes DEF Types, PollType
<1>2. Coming \in Slots
  BY AdvanceZero DEF Types, Coming
<1>3. Behind \in 0 .. RX_DESC_CNT
  BY <1>1, Sizes DEF Behind, Counts
<1>4. Room \in 0 .. RX_DESC_CNT
  BY <1>3, Sizes DEF Room
<1>5. ASSUME pc = "loop" PROVE Coming = cur_rx /\ Behind = lost + dirty_rx
  BY <1>5, <1>1 DEF Coming, Behind
<1>6. ASSUME pc = "loop" PROVE Room >= 2
  <2>1. lost <= MaxLost /\ dirty_rx < MIN_RX_DESC_CNT
    BY <1>6 DEF Types, Counts
  <2> QED
    BY <1>1, <1>5, <1>6, <2>1, Sizes DEF Room
<1> QED
  BY <1>1, <1>2, <1>3, <1>4, <1>5, <1>6

\* The descriptor the poll is at.
LEMMA HeadFacts ==
    ASSUME Ordinary, ChainInv, Available, NEW at \in Nat, NEW t \in Nat, NEW n \in Nat, Laid(at, t, n)
    PROVE  /\ at \in 1 .. RX_DESC_CNT /\ at <= Room /\ Coming = cur_rx /\ cur_rx \in Slots
           /\ Begun(cur_rx, t + 1, n) /\ t + 1 \in 1 .. Len(frames) /\ (n = 0 <=> skb_top = 0)
           /\ D \in DescType /\ B \in BufType /\ Full(B)
           /\ B.skb \in 1 .. Len(skbs) /\ B.page2 \in 1 .. Len(pages)
           /\ mode = "jumbo" => B.page \in 1 .. Len(pages)
           /\ mode = "split" => B.page = 0
<1>1. pc = "loop" /\ ~D.own
  BY DEF Available, D
<1>2. Coming = cur_rx /\ cur_rx \in Slots /\ Room \in 2 .. RX_DESC_CNT
  BY <1>1, Ground DEF ChainInv
<1>3. at \in 1 .. RX_DESC_CNT /\ at <= Room
  <2>1. at <= Room /\ Handed(cur_rx, at, Room)
    BY <1>2 DEF Laid
  <2>2. desc[cur_rx].own <=> at <= 0 /\ 0 < Room
    BY <1>2, <2>1, Sizes, AdvanceZero, SMTT(30) DEF Handed
  <2> QED
    BY <1>1, <1>2, <2>1, <2>2, Sizes DEF D
<1>4. Begun(cur_rx, t + 1, n)
  BY <1>2, <1>3, AdvanceZero DEF Laid, PartAt
<1>5. t + 1 \in 1 .. Len(frames)
  BY <1>4 DEF Begun, Describes
<1>6. D \in DescType /\ B \in BufType
  BY <1>2 DEF D, B, ChainInv, Types
<1>7. Full(B)
  BY <1>2, Sizes, AdvanceZero, SMTT(30) DEF B, ChainInv, Stock
<1>8. /\ B.skb \in 1 .. Len(skbs) /\ B.page2 \in 1 .. Len(pages)
      /\ mode = "jumbo" => B.page \in 1 .. Len(pages)
      /\ mode = "split" => B.page = 0
  <2>1. /\ B.skb <= Len(skbs) /\ B.page <= Len(pages) /\ B.page2 <= Len(pages)
        /\ mode = "split" => B.page = 0
    BY <1>2 DEF B, ChainInv, Stock
  <2>2. Len(skbs) \in Nat /\ Len(pages) \in Nat
    BY DEF ChainInv, Types
  <2> QED
    BY <1>6, <1>7, <2>1, <2>2 DEF Full, BufType
<1>9. n = 0 <=> skb_top = 0
  BY DEF Laid, Collected
<1> QED
  BY <1>2, <1>3, <1>4, <1>5, <1>6, <1>7, <1>8, <1>9

-----------------------------------------------------------------------------
(* The poll hands out what a descriptor has: skb s, now as new, with pages of *)
(* set S, and b2 is left.                                                  *)

Gives(s, new, b2, S) ==
    /\ cur_rx \in Slots /\ ~D.own /\ B \in BufType
    /\ UNCHANGED <<pages, desc, mode, frames>>
    /\ s \in DOMAIN skbs /\ new \in SkbType /\ skbs' = [skbs EXCEPT ![s] = new]
    /\ b2 \in BufType /\ buf' = [buf EXCEPT ![cur_rx] = b2]
    /\ b2.skb \in {0, B.skb} /\ b2.page \in {0, B.page} /\ b2.page2 \in {0, B.page2}
    /\ s = B.skb \/ (s = skb_top /\ skb_top # 0)
    /\ b2.skb # s
    /\ Extends(skbs[s], new, S) /\ OneMore(skbs[s], new) /\ B.page # B.page2
    /\ \A x \in S : x \in DOMAIN pages /\ x \in {B.page, B.page2} /\ x # b2.page /\ x # b2.page2
    /\ Held' \subseteq Held \cup {s} /\ skb_top' \notin Given'

LEMMA GivesHeap ==
    ASSUME Types, NEW s, NEW new, NEW b2, NEW S, Gives(s, new, b2, S)
    PROVE  /\ skbs' \in Seq(SkbType) /\ Len(skbs') = Len(skbs) /\ DOMAIN skbs' = DOMAIN skbs
           /\ skbs'[s] = new /\ \A r \in DOMAIN skbs : r # s => skbs'[r] = skbs[r]
           /\ buf' \in [Slots -> BufType] /\ buf'[cur_rx] = b2
           /\ \A i \in Slots : i # cur_rx => buf'[i] = buf[i]
           /\ \A i \in Slots : buf'[i].skb \in {0, buf[i].skb} /\ buf'[i].page \in {0, buf[i].page}
                                  /\ buf'[i].page2 \in {0, buf[i].page2}
<1>1. skbs \in Seq(SkbType) /\ s \in DOMAIN skbs /\ new \in SkbType
  BY DEF Types, Gives
<1>2. skbs' = [skbs EXCEPT ![s] = new]
  BY DEF Gives
<1>3. /\ skbs' \in Seq(SkbType) /\ Len(skbs') = Len(skbs) /\ DOMAIN skbs' = DOMAIN skbs
      /\ skbs'[s] = new /\ \A r \in DOMAIN skbs : r # s => skbs'[r] = skbs[r]
  BY <1>1, <1>2
<1>4. buf \in [Slots -> BufType] /\ cur_rx \in Slots /\ b2 \in BufType /\ buf' = [buf EXCEPT ![cur_rx] = b2]
  BY DEF Types, Gives
<1>5. /\ buf' \in [Slots -> BufType] /\ buf'[cur_rx] = b2
      /\ \A i \in Slots : i # cur_rx => buf'[i] = buf[i]
  BY <1>4
<1>6. b2.skb \in {0, B.skb} /\ b2.page \in {0, B.page} /\ b2.page2 \in {0, B.page2}
  BY DEF Gives
<1>7. ASSUME NEW i \in Slots
      PROVE  buf'[i].skb \in {0, buf[i].skb} /\ buf'[i].page \in {0, buf[i].page}
                /\ buf'[i].page2 \in {0, buf[i].page2}
  BY <1>5, <1>6 DEF B
<1> QED
  BY <1>3, <1>5, <1>7

LEMMA GivesDistinct ==
    ASSUME Types, Distinct(buf), NEW s, NEW new, NEW b2, NEW S, Gives(s, new, b2, S)
    PROVE  Distinct(buf)'
<1>1. \A i \in Slots : buf'[i].skb \in {0, buf[i].skb} /\ buf'[i].page \in {0, buf[i].page}
                          /\ buf'[i].page2 \in {0, buf[i].page2}
  BY GivesHeap
<1> QED
  BY <1>1 DEF Distinct

LEMMA GivesApart ==
    ASSUME Types, Distinct(buf), Apart, Clean, NEW s, NEW new, NEW b2, NEW S, Gives(s, new, b2, S)
    PROVE  Apart'
<1>1. /\ DOMAIN skbs' = DOMAIN skbs /\ buf'[cur_rx] = b2
      /\ skbs'[s] = new /\ \A r \in DOMAIN skbs : r # s => skbs'[r] = skbs[r]
      /\ \A i \in Slots : i # cur_rx => buf'[i] = buf[i]
      /\ \A i \in Slots : buf'[i].skb \in {0, buf[i].skb} /\ buf'[i].page \in {0, buf[i].page}
                              /\ buf'[i].page2 \in {0, buf[i].page2}
  BY GivesHeap
<1>2. cur_rx \in Slots /\ s \in DOMAIN skbs /\ pages' = pages /\ DOMAIN skbs = 1 .. Len(skbs) /\ 0 \notin DOMAIN skbs
      /\ 0 \notin DOMAIN pages
  BY DEF Gives, Types
<1>3. s \in Held \/ s = B.skb
  BY DEF Gives, Held
<1>4. \A i \in Slots : buf'[i].skb # s
  <2> SUFFICES ASSUME NEW i \in Slots PROVE buf'[i].skb # s
    OBVIOUS
  <2>1. CASE i = cur_rx
    BY <1>1, <2>1 DEF Gives
  <2>2. CASE i # cur_rx /\ s = B.skb
    BY <1>1, <1>2, <2>2 DEF Distinct, B
  <2>3. CASE i # cur_rx /\ s \in Held
    BY <1>1, <2>3 DEF Apart
  <2> QED
    BY <1>3, <2>1, <2>2, <2>3
<1>5. Held' \subseteq Held \cup {s} /\ skb_top' \notin Given'
  BY DEF Gives
<1>6. ASSUME NEW r \in Held'
      PROVE  r \in DOMAIN skbs' /\ \A i \in Slots : buf'[i].skb # r
  <2>1. CASE r = s
    BY <1>1, <1>2, <1>4, <2>1
  <2>2. CASE r \in Held
    BY <1>1, <1>2, <2>2 DEF Apart
  <2> QED
    BY <1>5, <2>1, <2>2
<1>7. \A x : Out(x) => Out(x)'
  BY <1>1, <1>2 DEF Out
<1>8. ASSUME NEW x \in S PROVE Out(x)'
  <2>1. x \in DOMAIN pages /\ x \in {B.page, B.page2} /\ x # b2.page /\ x # b2.page2 /\ x # 0
    BY DEF Gives, Types
  <2>2. ASSUME NEW i \in Slots PROVE buf'[i].page # x /\ buf'[i].page2 # x
    <3>1. CASE i = cur_rx
      BY <1>1, <2>1, <3>1
    <3>2. CASE i # cur_rx
      BY <1>1, <1>2, <2>1, <3>2 DEF Distinct, B
    <3> QED
      BY <3>1, <3>2
  <2> QED
    BY <1>2, <2>1, <2>2 DEF Out
<1>9. ASSUME NEW r \in Held', NEW m \in DOMAIN skbs'[r].frags
      PROVE  Out(skbs[r].frags[m])'
  <2>1. CASE r # s
    <3>1. r \in Held /\ r \in DOMAIN skbs /\ skbs'[r] = skbs[r]
      BY <1>1, <1>5, <2>1 DEF Apart
    <3>2. Out(skbs[r].frags[m])
      BY <1>9, <3>1 DEF Apart
    <3> QED
      BY <1>7, <3>1, <3>2
  <2>2. CASE r = s
    <3>1. PICK x : x = new.frags[m]
      OBVIOUS
    <3>2. x \in S \/ (m \in DOMAIN skbs[s].frags /\ x = skbs[s].frags[m])
      BY <1>1, <1>9, <2>2, <3>1 DEF Gives, Extends
    <3>3. Out(x)'
      <4>1. CASE x \in S
        BY <1>8, <4>1
      <4>2. CASE m \in DOMAIN skbs[s].frags /\ x = skbs[s].frags[m]
        <5>1. s # B.skb
          <6> SUFFICES ASSUME s = B.skb PROVE FALSE
            OBVIOUS
          <6>1. buf[cur_rx].skb = s /\ s > 0
            BY <1>2 DEF B
          <6>2. skbs[s].frags = <<>>
            BY <1>2, <6>1 DEF Clean
          <6> QED
            BY <4>2, <6>2
        <5>2. Out(x)
          BY <1>3, <4>2, <5>1 DEF Apart
        <5> QED
          BY <1>7, <5>2
      <4> QED
        BY <3>2, <4>1, <4>2
    <3> QED
      BY <1>1, <2>2, <3>1, <3>3
  <2> QED
    BY <2>1, <2>2
<1> QED
  BY <1>5, <1>6, <1>9 DEF Apart

LEMMA GivesOnce ==
    ASSUME Types, Distinct(buf), Apart, Clean, PagesOnce, NEW s, NEW new, NEW b2, NEW S, Gives(s, new, b2, S)
    PROVE  PagesOnce'
<1>1. skbs'[s] = new /\ \A r \in DOMAIN skbs : r # s => skbs'[r] = skbs[r]
  BY GivesHeap
<1>2. PICK old \in SkbType : old = skbs[s]
  BY DEF Gives, Types
<1>3. s \in DOMAIN skbs /\ new \in SkbType /\ cur_rx \in Slots /\ B \in BufType /\ s # 0
  BY DEF Gives, Types
<1>4. old.frags = <<>> \/ s \in Held
  <2>1. CASE s = B.skb
    <3>1. buf[cur_rx].skb = s /\ s > 0
      BY <1>3, <2>1 DEF B, BufType
    <3> QED
      BY <1>2, <1>3, <3>1 DEF Clean
  <2>2. CASE s = skb_top
    BY <1>3, <2>2 DEF Held
  <2> QED
    BY <2>1, <2>2 DEF Gives
<1>5. \A x : Out(x) => x # B.page /\ x # B.page2
  BY <1>3 DEF Out, B
<1>6. ASSUME NEW m \in DOMAIN old.frags PROVE s \in Held /\ old.frags[m] # B.page /\ old.frags[m] # B.page2
  <2>1. s \in Held
    BY <1>4, <1>6
  <2>2. Out(old.frags[m])
    BY <1>2, <1>6, <2>1 DEF Apart
  <2> QED
    BY <1>5, <2>1, <2>2
<1>7. /\ \A m \in DOMAIN old.frags : m \in DOMAIN new.frags /\ new.frags[m] = old.frags[m]
      /\ \A m, n \in DOMAIN new.frags : new.frags[m] = new.frags[n] /\ m # n =>
            m \in DOMAIN old.frags /\ n \in DOMAIN old.frags
  <2>1. OneMore(old, new) /\ B.page # B.page2 /\ B.page \in Nat /\ B.page2 \in Nat
    BY <1>2 DEF Gives, BufType
  <2> QED
    BY <1>2, <1>3, <1>6, <2>1, OneMoreOnce
<1>8. ASSUME NEW r \in Held', r # s PROVE r \in Held /\ r \in DOMAIN skbs /\ skbs'[r] = skbs[r]
  <2>1. r \in Held
    BY <1>8 DEF Gives
  <2> QED
    BY <1>1, <1>8, <2>1 DEF Apart
\* A page new has is in no other skb.
<1>9. ASSUME NEW r \in Held', r # s, NEW m \in DOMAIN new.frags, NEW n \in DOMAIN skbs'[r].frags,
             new.frags[m] = skbs'[r].frags[n]
      PROVE  FALSE
  <2>1. r \in Held /\ skbs'[r] = skbs[r] /\ Out(skbs[r].frags[n])
    BY <1>8, <1>9 DEF Apart
  <2>2. new.frags[m] \notin S
    BY <1>5, <1>9, <2>1 DEF Gives
  <2>3. m \in DOMAIN old.frags /\ new.frags[m] = old.frags[m]
    BY <1>2, <1>9, <2>2 DEF Gives, Extends
  <2>4. s \in Held
    BY <1>6, <2>3
  <2> QED
    BY <1>2, <1>9, <2>1, <2>3, <2>4 DEF PagesOnce
<1> SUFFICES ASSUME NEW r \in Held', NEW q \in Held', NEW m \in DOMAIN skbs'[r].frags, NEW n \in DOMAIN skbs'[q].frags,
                    skbs'[r].frags[m] = skbs'[q].frags[n]
             PROVE  r = q /\ m = n
  BY DEF PagesOnce
<1>10. CASE r # s /\ q # s
  BY <1>8, <1>10 DEF PagesOnce
<1>11. CASE r = s /\ q = s
  <2>1. m \in DOMAIN new.frags /\ n \in DOMAIN new.frags /\ new.frags[m] = new.frags[n]
    BY <1>1, <1>11
  <2> SUFFICES ASSUME m # n PROVE FALSE
    BY <1>11
  <2>2. m \in DOMAIN old.frags /\ n \in DOMAIN old.frags /\ old.frags[m] = old.frags[n] /\ s \in Held
    BY <1>6, <1>7, <2>1
  <2> QED
    BY <1>2, <2>2 DEF PagesOnce
<1>12. CASE r = s /\ q # s
  BY <1>1, <1>9, <1>12
<1>13. CASE r # s /\ q = s
  BY <1>1, <1>9, <1>13
<1> QED
  BY <1>10, <1>11, <1>12, <1>13

LEMMA GivesClean ==
    ASSUME Types, Distinct(buf), Apart, Clean, NEW s, NEW new, NEW b2, NEW S, Gives(s, new, b2, S), dma' = dma
    PROVE  Clean'
<1>1. /\ buf'[cur_rx] = b2
      /\ \A r \in DOMAIN skbs : r # s => skbs'[r] = skbs[r]
      /\ \A i \in Slots : i # cur_rx => buf'[i] = buf[i]
      /\ \A i \in Slots : buf'[i].skb \in {0, buf[i].skb}
  BY GivesHeap
<1>2. cur_rx \in Slots /\ s \in DOMAIN skbs /\ desc' = desc /\ 0 \notin DOMAIN skbs /\ b2.skb # s
  BY DEF Gives, Types
<1>3. s \in Held \/ s = B.skb
  BY DEF Gives, Held
<1> SUFFICES ASSUME NEW i \in Slots, buf'[i].skb > 0
             PROVE  /\ skbs'[buf'[i].skb].frags = <<>>
                    /\ skbs'[buf'[i].skb].put > 0 => Waits(desc[i], skbs[buf[i].skb])'
  BY DEF Clean
<1>4. buf'[i].skb = buf[i].skb /\ buf[i].skb > 0
  BY <1>1
<1>5. buf[i].skb # s
  <2>1. CASE i = cur_rx
    BY <1>1, <1>2, <1>4, <2>1
  <2>2. CASE i # cur_rx /\ s = B.skb
    BY <1>2, <1>4, <2>2 DEF Distinct, B
  <2>3. CASE s \in Held
    BY <2>3 DEF Apart
  <2> QED
    BY <1>3, <2>1, <2>2, <2>3
<1>6. skbs'[buf[i].skb] = skbs[buf[i].skb]
  <2> DEFINE r == buf[i].skb
  <2>1. CASE r \in DOMAIN skbs
    BY <1>1, <1>5, <2>1
  <2>2. CASE r \notin DOMAIN skbs
    BY <1>2, <2>2 DEF Gives
  <2> QED
    BY <2>1, <2>2
<1>7. /\ skbs[buf[i].skb].frags = <<>>
      /\ skbs[buf[i].skb].put > 0 => Waits(desc[i], skbs[buf[i].skb])
  BY <1>4 DEF Clean
<1>8. Waits(desc[i], skbs[buf[i].skb])' <=> Waits(desc[i], skbs[buf[i].skb])
  BY <1>2, <1>4, <1>6 DEF Waits, Late
<1> QED
  BY <1>4, <1>6, <1>7, <1>8

LEMMA AdvanceSum ==
    ASSUME NEW b \in Slots, NEW k \in Nat, NEW p \in Nat, k + p <= RX_DESC_CNT
    PROVE  Advance(Advance(b, k), p) = Advance(b, k + p)
BY Sizes DEF Advance

\* The poll moves on by k descriptors.
Moves(k) == pc = "loop" /\ k \in {1, 2} /\ Coming' = Advance(cur_rx, k) /\ Room' = Room - k

LEMMA NextMoves ==
    ASSUME Types, Counts, pc = "loop", NEW k \in {1, 2},
           NEW received \in 0 .. Quota, NEW cnt \in Nat, NEW hdr \in Nat,
           NextDescriptor(received, cnt, hdr, k), UNCHANGED <<skb_realloc_idx, lost>>
    PROVE  /\ Moves(k) /\ Counts'
           /\ pc' \in {"loop", "refill"} /\ poll' \in PollType /\ cur_rx' \in Slots
           /\ dirty_rx' \in 0 .. MIN_RX_DESC_CNT + 1
<1> DEFINE locals == [poll EXCEPT !.received = received, !.cnt = cnt, !.hdr = hdr]
<1>1. /\ Coming = cur_rx /\ cur_rx \in Slots /\ Behind = lost + dirty_rx /\ Room \in 2 .. RX_DESC_CNT
      /\ Room = RX_DESC_CNT - Behind /\ Behind \in Nat /\ lost \in Nat /\ dirty_rx \in Nat
      /\ dirty_rx < MIN_RX_DESC_CNT /\ skb_realloc_idx \in Slots /\ poll \in PollType
  BY Ground DEF Types, Counts, Room
<1>2. locals \in PollType
  BY <1>1 DEF PollType
<1>0. k \in Nat /\ k >= 1 /\ k <= 2 /\ k - 1 \in Nat
  OBVIOUS
<1>3. dirty_rx' = dirty_rx + k /\ dirty_rx' \in 0 .. MIN_RX_DESC_CNT + 1
  <2>1. dirty_rx' = dirty_rx + k
    BY DEF NextDescriptor
  <2> QED
    BY <1>0, <1>1, <2>1, Sizes
<1>4. /\ Advance(cur_rx, k) \in Slots /\ Advance(cur_rx, k - 1) \in Slots
      /\ Advance(Advance(cur_rx, k - 1), 1) = Advance(cur_rx, k)
  <2>1. k \in 0 .. RX_DESC_CNT /\ k - 1 \in 0 .. RX_DESC_CNT - 1 /\ (k - 1) + 1 = k
    BY <1>0, Sizes
  <2>2. k - 1 \in 0 .. RX_DESC_CNT
    BY <2>1, Sizes
  <2> QED
    BY <1>1, <2>1, <2>2, AdvanceType, AdvanceNext
<1>5. /\ pc' \in {"loop", "refill"} /\ poll' \in PollType /\ cur_rx' \in Slots
      /\ Coming' = Advance(cur_rx, k) /\ Behind' = Behind + k
      /\ pc' = "refill" => poll'.i <= dirty_rx'
      /\ pc' = "loop" => dirty_rx' < MIN_RX_DESC_CNT
  <2>1. CASE dirty_rx + k >= MIN_RX_DESC_CNT
    <3>1. /\ pc' = "refill" /\ poll' = [locals EXCEPT !.i = 0, !.then = "loop"]
          /\ cur_rx' = Advance(cur_rx, k - 1)
      BY <2>1 DEF NextDescriptor
    <3> HIDE DEF locals
    <3>2. poll' \in PollType /\ poll'.i = 0 /\ poll'.then = "loop"
      BY <1>2, <3>1 DEF PollType
    <3>3. Coming' = Advance(cur_rx', 1)
      BY <3>1, <3>2 DEF Coming, Advance
    <3>4. Coming' = Advance(cur_rx, k)
      BY <1>4, <3>1, <3>3
    <3>5. Behind' = Behind + k
      BY <1>0, <1>1, <1>3, <3>1, <3>2 DEF Behind
    <3>6. poll'.i <= dirty_rx'
      BY <1>3, <3>2
    <3> QED
      BY <1>4, <3>1, <3>2, <3>4, <3>5, <3>6
  <2>2. CASE ~(dirty_rx + k >= MIN_RX_DESC_CNT)
    <3>1. pc' = "loop" /\ poll' = locals /\ cur_rx' = Advance(cur_rx, k)
      BY <2>2 DEF NextDescriptor
    <3>2. Coming' = Advance(cur_rx, k)
      BY <3>1 DEF Coming
    <3>3. Behind' = Behind + k
      BY <1>0, <1>1, <1>3, <3>1 DEF Behind
    <3>4. dirty_rx' < MIN_RX_DESC_CNT
      BY <1>0, <1>1, <1>3, <2>2, Sizes
    <3> QED
      BY <1>2, <1>4, <3>1, <3>2, <3>3, <3>4
  <2> QED
    BY <2>1, <2>2
<1>6. Coming' = Advance(skb_realloc_idx, Behind')
  <2>1. Coming = Advance(skb_realloc_idx, Behind)
    BY DEF Counts
  <2>2. Behind + k <= RX_DESC_CNT
    BY <1>0, <1>1, Sizes
  <2>3. Advance(Advance(skb_realloc_idx, Behind), k) = Advance(skb_realloc_idx, Behind + k)
    BY <1>0, <1>1, <2>2, AdvanceSum
  <2> QED
    BY <1>1, <1>5, <2>1, <2>3
<1>7. Counts'
  <2>1. (Coming = Advance(skb_realloc_idx, Behind))'
    BY <1>6 DEF Advance
  <2> QED
    BY <1>5, <2>1 DEF Counts
<1>8. Room' = Room - k
  BY <1>0, <1>1, <1>5, Sizes DEF Room
<1> QED
  BY <1>3, <1>5, <1>7, <1>8 DEF Moves

\* The buffer at cur_rx gives, the others stay.
Shrinks ==
    /\ cur_rx \in Slots /\ ~desc[cur_rx].own /\ UNCHANGED <<pages, desc, mode>>
    /\ buf' \in [Slots -> BufType] /\ Len(skbs') = Len(skbs)
    /\ \A i \in Slots : i # cur_rx => buf'[i] = buf[i]
    /\ \A i \in Slots : buf'[i].skb \in {0, buf[i].skb} /\ buf'[i].page \in {0, buf[i].page}
                            /\ buf'[i].page2 \in {0, buf[i].page2}

LEMMA GivesShrinks ==
    ASSUME Types, NEW s, NEW new, NEW b2, NEW S, Gives(s, new, b2, S)
    PROVE  Shrinks
BY GivesHeap DEF Shrinks, Gives, D

LEMMA StockMoves ==
    ASSUME Types, Counts, Stock, Shrinks, NEW k, Moves(k)
    PROVE  Stock'
<1>1. /\ buf' \in [Slots -> BufType] /\ Len(skbs') = Len(skbs)
      /\ \A i \in Slots : i # cur_rx => buf'[i] = buf[i]
      /\ \A i \in Slots : buf'[i].skb \in {0, buf[i].skb} /\ buf'[i].page \in {0, buf[i].page}
                              /\ buf'[i].page2 \in {0, buf[i].page2}
  BY DEF Shrinks
<1>2. cur_rx \in Slots /\ pages' = pages /\ desc' = desc /\ mode' = mode /\ ~desc[cur_rx].own
  BY DEF Shrinks
<1>3. k \in Nat /\ k >= 1 /\ k <= 2 /\ Coming' = Advance(cur_rx, k) /\ Room' = Room - k /\ Coming = cur_rx
      /\ Room \in 2 .. RX_DESC_CNT
  BY Ground DEF Moves
<1>4. ASSUME NEW p \in 0 .. Room' - 1
      PROVE  Full(buf[Advance(Coming, p)])'
  <2>1. k + p \in 0 .. Room - 1 /\ k + p \in 0 .. RX_DESC_CNT - 1 /\ k + p # 0 /\ p \in Nat /\ k + p <= RX_DESC_CNT
    BY <1>3, Sizes
  <2>2. Advance(Coming', p) = Advance(cur_rx, k + p)
    BY <1>2, <1>3, <2>1, AdvanceSum
  <2>3. Advance(cur_rx, k + p) # cur_rx
    <3>1. 0 \in 0 .. RX_DESC_CNT - 1
      BY Sizes
    <3> QED
      BY <1>2, <2>1, <3>1, AdvanceApart, AdvanceZero
  <2>4. Advance(cur_rx, k + p) \in Slots /\ Full(buf[Advance(cur_rx, k + p)])
    <3>1. k + p \in 0 .. RX_DESC_CNT
      BY <2>1
    <3> QED
      BY <1>2, <1>3, <2>1, <3>1, AdvanceType DEF Stock
  <2>5. buf'[Advance(Coming', p)] = buf[Advance(cur_rx, k + p)]
    BY <1>1, <2>2, <2>3, <2>4
  <2>6. Full(buf'[Advance(Coming', p)]) <=> Full(buf[Advance(cur_rx, k + p)])
    BY <2>5 DEF Full
  <2>7. Advance(Coming, p)' = Advance(Coming', p)
    BY DEF Advance
  <2> QED
    BY <1>2, <2>4, <2>5, <2>7 DEF Full
<1>5. \A i \in Slots : buf'[i].skb <= Len(skbs') /\ buf'[i].page <= Len(pages') /\ buf'[i].page2 <= Len(pages')
  <2>1. Len(skbs) \in Nat /\ Len(pages) \in Nat
    BY DEF Types
  <2> QED
    BY <1>1, <1>2, <2>1 DEF Stock
<1>6. mode' = "split" => \A i \in Slots : buf'[i].page = 0
  BY <1>1, <1>2 DEF Stock
<1>7. \A i \in Slots : desc'[i].own => desc'[i].addr = buf'[i]
  BY <1>1, <1>2 DEF Stock
<1> QED
  BY <1>4, <1>5, <1>6, <1>7 DEF Stock

LEMMA GivesSlots ==
    ASSUME Types, Distinct(buf), Apart, Stock, NEW s, NEW new, NEW b2, NEW S, Gives(s, new, b2, S),
           NEW i \in Slots, i # cur_rx
    PROVE  SlotStays(i)
<1>1. /\ \A r \in DOMAIN skbs : r # s => skbs'[r] = skbs[r]
      /\ buf'[i] = buf[i]
  BY GivesHeap
<1>2. cur_rx \in Slots /\ s \in DOMAIN skbs /\ desc' = desc /\ 0 \notin DOMAIN skbs /\ pages' = pages
  BY DEF Gives, Types
<1>3. s \in Held \/ s = B.skb
  BY DEF Gives, Held
<1>4. buf[i].skb # s
  <2>2. CASE s = B.skb
    BY <1>2, <2>2 DEF Distinct, B
  <2>3. CASE s \in Held
    BY <2>3 DEF Apart
  <2> QED
    BY <1>3, <2>2, <2>3
<1>5. skbs'[buf[i].skb] = skbs[buf[i].skb]
  <2> DEFINE r == buf[i].skb
  <2>1. CASE r \in DOMAIN skbs
    BY <1>1, <1>4, <2>1
  <2>2. CASE r \notin DOMAIN skbs
    BY <1>2, <2>2 DEF Gives
  <2> QED
    BY <2>1, <2>2
<1> QED
  BY <1>1, <1>2, <1>5 DEF SlotStays, DataStays

\* The DMA stays where it was.
LEMMA DueSame ==
    ASSUME NEW b, NEW at \in Nat, UNCHANGED <<dma, frames>>
    PROVE  Due(b, at, at)
BY DEF Due, PartAt, StampAt, DmaAt

\* The poll has moved past the descriptors before base b.
LEMMA LaidMoved ==
    ASSUME Types, Types', Counts, Channel, UNCHANGED <<desc, dma, frames, mode>>,
           NEW k, Moves(k), \A i \in Slots : i # cur_rx => SlotStays(i),
           NEW b \in Slots, b = Advance(cur_rx, k),
           NEW at \in Nat, NEW t \in Nat, NEW n \in Nat,
           NEW room \in Nat, room = Room - k, at <= room,
           Handed(b, at, room), Linked(b, at), PartAt(b, at, 0, t, n),
           Settled(t)', Collected(t + 1, n)'
    PROVE  LaidOut'
<1>1. k \in Nat /\ k >= 1 /\ k <= 2 /\ Coming' = b /\ Room' = Room - k /\ Coming = cur_rx
      /\ Room \in 2 .. RX_DESC_CNT /\ cur_rx \in Slots
  <2>1. k \in {1, 2} /\ Coming' = b /\ Room' = Room - k /\ pc = "loop"
    BY DEF Moves
  <2>2. Coming = cur_rx /\ Room \in 2 .. RX_DESC_CNT
    BY <2>1, Ground
  <2>3. cur_rx \in Slots
    BY DEF Types
  <2> QED
    BY <2>1, <2>2, <2>3
<1>2. at <= RX_DESC_CNT /\ at + k <= RX_DESC_CNT
  BY <1>1, Sizes
<1>3. \A q \in 0 .. at - 1 : SlotStays(Advance(b, q))
  <2> SUFFICES ASSUME NEW q \in 0 .. at - 1 PROVE SlotStays(Advance(b, q))
    OBVIOUS
  <2>1. k + q \in 0 .. RX_DESC_CNT - 1 /\ k + q # 0 /\ 0 \in 0 .. RX_DESC_CNT - 1 /\ q \in 0 .. RX_DESC_CNT
        /\ q \in Nat /\ k + q <= RX_DESC_CNT
    BY <1>1, <1>2, Sizes
  <2>2. Advance(b, q) = Advance(cur_rx, k + q)
    BY <1>1, <2>1, AdvanceSum
  <2>3. Advance(b, q) # cur_rx /\ Advance(b, q) \in Slots
    BY <1>1, <2>1, <2>2, AdvanceApart, AdvanceZero, AdvanceType
  <2> QED
    BY <2>3
<1>4. FramesStay
  <2>1. Len(frames) \in Nat
    BY SMTT(30) DEF Types
  <2> QED
    BY <2>1 DEF FramesStay
<1>5. Due(b, at, at)
  BY DueSame
<1>6. \A i \in Slots : desc[i].of <= Len(frames)
  BY DEF Channel
<1>7. Linked(b, at)'
  <2>1. \A q \in at .. at - 1 : Followed(b, at, q)'
    OBVIOUS
  <2> QED
    BY <1>2, <1>3, <1>4, <1>5, <1>6, <2>1, LinkedStays
<1>8. PartAt(b, at, 0, t, n)'
  <2>1. 0 \in 0 .. at
    OBVIOUS
  <2> QED
    BY <1>2, <1>3, <1>4, <1>5, <2>1, PartStays
<1>9. Handed(b, at, room)'
  BY DEF Handed, Advance
<1>10. room = Room' /\ b = Coming'
  BY <1>1
<1>11. Laid(at, t, n)'
  BY <1>7, <1>8, <1>9, <1>10 DEF Laid
<1> QED
  BY <1>11 DEF LaidOut

\* The poll passes the descriptor it is at.
LEMMA PassOne ==
    ASSUME Ordinary, ChainInv, Available, NEW at \in Nat, NEW t \in Nat, NEW n \in Nat, Laid(at, t, n),
           NEW b, b = Advance(cur_rx, 1)
    PROVE  /\ b \in Slots /\ at - 1 \in Nat /\ Room - 1 \in Nat /\ at - 1 <= Room - 1 /\ at - 1 < RX_DESC_CNT
           /\ Handed(b, at - 1, Room - 1) /\ Linked(b, at - 1)
           /\ ~D.ld => PartAt(b, at - 1, 0, t, n + PerDesc(n))
           /\ D.ld /\ ~D.stamp => PartAt(b, at - 1, 0, t + 1, 0)
           /\ D.ld /\ D.stamp => StampAt(b, at - 1, 0, t + 1)
<1>1. at \in 1 .. RX_DESC_CNT /\ at <= Room /\ Coming = cur_rx /\ cur_rx \in Slots
  BY HeadFacts
<1>2. Room \in 0 .. RX_DESC_CNT
  BY Ground DEF ChainInv
<1>3. b \in Slots
  BY <1>1, AdvanceZero
<1>4. Handed(cur_rx, at, Room) /\ Linked(cur_rx, at) /\ PartAt(cur_rx, at, 0, t, n)
  BY <1>1 DEF Laid
<1>5. Handed(b, at - 1, Room - 1)
  BY <1>1, <1>2, <1>4, PassHanded
<1>6. Linked(b, at - 1)
  BY <1>1, <1>4, PassLinked
<1>7. /\ ~D.ld => PartAt(b, at - 1, 0, t, n + PerDesc(n))
      /\ D.ld /\ ~D.stamp => PartAt(b, at - 1, 0, t + 1, 0)
      /\ D.ld /\ D.stamp => StampAt(b, at - 1, 0, t + 1)
  BY <1>1, <1>4, PassData DEF D
<1>8. at - 1 \in Nat /\ Room - 1 \in Nat /\ at - 1 <= Room - 1 /\ at - 1 < RX_DESC_CNT
  BY <1>1, <1>2, Sizes
<1> QED
  BY <1>3, <1>5, <1>6, <1>7, <1>8

\* The poll passes it and its time stamp.
LEMMA PassTwo ==
    ASSUME Ordinary, ChainInv, Available, NEW at \in Nat, NEW t \in Nat, NEW n \in Nat, Laid(at, t, n),
           D.ld, D.stamp, StampReady, NEW b, b = Advance(cur_rx, 2)
    PROVE  /\ b \in Slots /\ at - 2 \in Nat /\ Room - 2 \in Nat /\ at - 2 <= Room - 2
           /\ Handed(b, at - 2, Room - 2) /\ Linked(b, at - 2)
           /\ PartAt(b, at - 2, 0, t + 1, 0)
<1> DEFINE c == Advance(cur_rx, 1)
<1>1. /\ c \in Slots /\ at - 1 \in Nat /\ Room - 1 \in Nat /\ at - 1 <= Room - 1 /\ at - 1 < RX_DESC_CNT
      /\ Handed(c, at - 1, Room - 1) /\ Linked(c, at - 1) /\ StampAt(c, at - 1, 0, t + 1)
  BY PassOne
<1>2. Room \in 2 .. RX_DESC_CNT /\ cur_rx \in Slots
  BY Ground DEF ChainInv, Available, Types
<1>3. ~desc[c].own
  BY DEF StampReady
<1>4. Advance(c, 1) = b
  <2>1. 1 \in 0 .. RX_DESC_CNT - 1
    BY Sizes
  <2> QED
    BY <1>2, <2>1, AdvanceNext
<1> HIDE DEF c
<1>5. at - 1 # 0
  <2>1. desc[c].own <=> at - 1 <= 0 /\ 0 < Room - 1
    BY <1>1, Sizes, AdvanceZero, SMTT(30) DEF Handed
  <2> QED
    BY <1>1, <1>2, <1>3, <2>1
<1>6. at - 1 \in 1 .. RX_DESC_CNT /\ Room - 1 \in 0 .. RX_DESC_CNT
  BY <1>1, <1>2, <1>5, Sizes
<1>7. t + 1 \in Nat /\ (at - 1) - 1 = at - 2 /\ (Room - 1) - 1 = Room - 2
  BY <1>2
<1>8. b \in Slots
  BY <1>1, <1>4, AdvanceZero
<1>9. Handed(b, at - 2, Room - 2)
  BY <1>1, <1>4, <1>6, <1>7, PassHanded
<1>10. Linked(b, at - 2)
  BY <1>1, <1>4, <1>6, <1>7, PassLinked
<1>11. PartAt(b, at - 2, 0, t + 1, 0)
  BY <1>1, <1>4, <1>6, <1>7, PassContext
<1> QED
  BY <1>1, <1>2, <1>6, <1>8, <1>9, <1>10, <1>11

-----------------------------------------------------------------------------
(* What the stack has stays.                                               *)

FramesGrow ==
    /\ Len(frames) <= Len(frames')
    /\ \A f \in 1 .. Len(frames) : frames'[f] = frames[f]

\* Skb s and what is in it.
SkbStays(s) ==
    skbs'[s] = skbs[s] /\ \A j \in 1 .. Len(skbs[s].frags) : pages'[skbs[s].frags[j]] = pages[skbs[s].frags[j]]

LEMMA CountStays ==
    ASSUME FramesGrow, NEW f \in 1 .. Len(frames), NEW m
    PROVE  Count(f, m)' = Count(f, m)
BY DEF FramesGrow, Count, Lesser

LEMMA ReadsStays ==
    ASSUME NEW s, NEW f, NEW n, SkbStays(s), Reads(skbs[s], f, n)
    PROVE  Reads(skbs[s], f, n)'
<1>1. PICK skb : skb = skbs[s]
  OBVIOUS
<1>2. skbs'[s] = skb /\ \A j \in 1 .. Len(skb.frags) : pages'[skb.frags[j]] = pages[skb.frags[j]]
  BY <1>1 DEF SkbStays
<1>3. Lead(skb)' = Lead(skb)
  BY DEF Lead
<1>4. Reads(skb, f, n)
  BY <1>1
<1>5. Reads(skb, f, n)'
  BY <1>2, <1>3, <1>4 DEF Reads
<1> QED
  BY <1>2, <1>5

LEMMA WholeStays ==
    ASSUME Types, Types', FramesGrow, GivenWhole, NEW m \in DOMAIN delivered,
           NEW d, d = delivered[m], SkbStays(d.skb)
    PROVE  d.of \in 1 .. Len(frames') /\ Reads(skbs[d.skb], d.of, Count(d.of, d.mode))'
<1>1. d.of \in 1 .. Len(frames) /\ Reads(skbs[d.skb], d.of, Count(d.of, d.mode))
  BY DEF GivenWhole
<1>2. PICK c : c = Count(d.of, d.mode)
  OBVIOUS
<1>3. c = Count(d.of, d.mode)'
  BY <1>1, <1>2, CountStays
<1>4. Reads(skbs[d.skb], d.of, c)'
  BY <1>1, <1>2, ReadsStays
<1>5. d.of \in 1 .. Len(frames')
  <2>1. Len(frames) \in Nat /\ Len(frames') \in Nat
    BY SMTT(30) DEF Types
  <2> QED
    BY <1>1, <2>1 DEF FramesGrow
<1> QED
  BY <1>3, <1>4, <1>5

\* No skb the stack has changes.
GivenStays == \A m \in DOMAIN delivered : SkbStays(delivered[m].skb)

LEMMA GivenWholeStays ==
    ASSUME Types, Types', FramesGrow, GivenWhole, GivenStays, delivered' = delivered
    PROVE  GivenWhole'
<1> SUFFICES ASSUME NEW m \in DOMAIN delivered'
             PROVE  (LET d == delivered[m]
                     IN  d.of \in 1 .. Len(frames) /\ Reads(skbs[d.skb], d.of, Count(d.of, d.mode)))'
  BY DEF GivenWhole
<1>1. PICK d : d = delivered[m]
  OBVIOUS
<1>2. d.of \in 1 .. Len(frames') /\ Reads(skbs[d.skb], d.of, Count(d.of, d.mode))'
  BY <1>1, WholeStays DEF GivenStays
<1> QED
  BY <1>1, <1>2

LEMMA OrderedStays ==
    ASSUME Types, Types', FramesGrow, GivenWhole, Ordered, delivered' = delivered, gone \subseteq gone'
    PROVE  Ordered'
<1>1. \A m \in DOMAIN delivered : delivered[m].of \in 1 .. Len(frames)
  BY DEF GivenWhole
<1>2. DOMAIN delivered = 1 .. Len(delivered) /\ Len(delivered) \in Nat /\ Len(frames) \in Nat
  BY DEF Types
<1>3. \A m \in DOMAIN delivered' : ~frames'[delivered'[m].of].es
  BY <1>1 DEF Ordered, FramesGrow
<1>4. LastOf' = LastOf /\ LastOf \in 0 .. Len(frames)
  <2>1. LastOf' = LastOf
    BY DEF LastOf
  <2>2. CASE delivered = <<>>
    BY <1>2, <2>2 DEF LastOf
  <2>3. CASE delivered # <<>>
    <3>1. Len(delivered) \in DOMAIN delivered
      BY <1>2, <2>3 DEF Types
    <3> QED
      BY <1>1, <1>2, <2>3, <3>1 DEF LastOf
  <2> QED
    BY <2>1, <2>2, <2>3
<1>5. ASSUME NEW h \in 1 .. LastOf PROVE Accounted(h)'
  <2>1. Accounted(h) /\ h \in 1 .. Len(frames)
    BY <1>2, <1>4 DEF Ordered
  <2>2. frames'[h] = frames[h]
    BY <2>1 DEF FramesGrow
  <2> QED
    BY <2>1, <2>2 DEF Accounted
<1> QED
  BY <1>3, <1>4, <1>5 DEF Ordered

LEMMA OnceStays ==
    ASSUME Once, delivered' = delivered, Held' \subseteq Held, \A r \in Held : SkbStays(r)
    PROVE  Once'
<1>1. \A r \in Held : skbs'[r] = skbs[r]
  BY DEF SkbStays
<1>2. SkbsOnce'
  BY DEF Once, SkbsOnce
<1>3. PagesOnce'
  BY <1>1 DEF Once, PagesOnce
<1> QED
  BY <1>2, <1>3 DEF Once

\* Skbs and pages that are not touched.
LEMMA HeapSame ==
    ASSUME UNCHANGED <<skbs, pages>>
    PROVE  /\ GivenStays /\ (\A s : SkbStays(s)) /\ \A b : DataStays(b)
BY DEF GivenStays, SkbStays, DataStays

LEMMA HeldSame ==
    ASSUME UNCHANGED <<delivered, skb_top>>
    PROVE  Held' = Held /\ Given' = Given
BY DEF Held, Given

-----------------------------------------------------------------------------
(* The steps of the poll.                                                  *)

LEMMA ChannelSame ==
    ASSUME Channel, UNCHANGED <<mode, dma, frames, desc>>
    PROVE  Channel'
BY DEF Channel, Bytes, Header, Lesser

LEMMA HdrLenType ==
    ASSUME Types
    PROVE  HdrLen \in Nat /\ D \in DescType /\ B \in BufType /\ poll \in PollType
BY DEF Types, HdrLen, D, B, PollType, DescType

LEMMA LastOfType ==
    ASSUME Types
    PROVE  LastOf \in Nat
<1>1. delivered \in Seq(GotType)
  BY DEF Types
<1>2. CASE delivered = <<>>
  BY <1>2 DEF LastOf
<1>3. CASE delivered # <<>>
  <2>1. Len(delivered) \in 1 .. Len(delivered) /\ Len(delivered) \in Nat
    BY <1>1, <1>3
  <2>2. delivered[Len(delivered)] \in GotType
    BY <1>1, <2>1
  <2> QED
    BY <1>3, <2>2 DEF LastOf, GotType
<1> QED
  BY <1>2, <1>3

LEMMA BadStep ==
    ASSUME Ordinary, ChainInv, RxBad
    PROVE  ChainInv'
<1>1. PICK at \in Nat, t \in Nat, n \in Nat : Laid(at, t, n)
  BY DEF ChainInv, LaidOut
<1>2. Available /\ D.es /\ D.ld /\ pc = "loop"
  BY DEF RxBad, Available
<1>3. /\ Types /\ Counts /\ Stock /\ Distinct(buf) /\ Apart /\ Clean /\ Channel /\ GivenWhole /\ Ordered /\ Once
  BY DEF ChainInv
<1>4. /\ cur_rx \in Slots /\ Begun(cur_rx, t + 1, n) /\ t + 1 \in 1 .. Len(frames)
      /\ Room \in 2 .. RX_DESC_CNT /\ Coming = cur_rx
  BY <1>1, <1>2, <1>3, HeadFacts, Ground
<1>5. /\ UNCHANGED <<mode, desc, buf, skb_realloc_idx, skbs, pages, dma, frames, gone, delivered, lost>>
      /\ skb_top' = 0
  BY DEF RxBad, heap, wire
<1>6. poll.received \in 0 .. Quota /\ poll.cnt \in Nat /\ HdrLen \in Nat
  BY <1>3, HdrLenType DEF PollType
<1>7. /\ Moves(1) /\ Counts'
      /\ pc' \in {"loop", "refill"} /\ poll' \in PollType /\ cur_rx' \in Slots
      /\ dirty_rx' \in 0 .. MIN_RX_DESC_CNT + 1
  <2>1. NextDescriptor(poll.received, poll.cnt, HdrLen, 1) /\ UNCHANGED <<skb_realloc_idx, lost>>
    BY <1>5 DEF RxBad
  <2> QED
    BY <1>2, <1>3, <1>6, <2>1, NextMoves
<1>8. Types'
  <2>1. 0 \in 0 .. Len(skbs)
    BY <1>3 DEF Types
  <2> QED
    BY <1>3, <1>5, <1>7, <2>1 DEF Types
<1>9. Stock'
  <2>1. Shrinks
    BY <1>2, <1>3, <1>4, <1>5 DEF Shrinks, Types, Available
  <2> QED
    BY <1>3, <1>7, <2>1, StockMoves
<1>10. Distinct(buf)' /\ Clean' /\ Channel'
  <2>1. Distinct(buf)'
    BY <1>3, <1>5 DEF Distinct
  <2>2. Clean'
    BY <1>3, <1>5 DEF Clean, Waits, Late
  <2> QED
    BY <1>3, <1>5, <2>1, <2>2, ChannelSame
<1>11. Apart'
  <2>1. Given' = Given /\ Held' \subseteq Held
    BY <1>5 DEF Given, Held
  <2>2. 0 \notin DOMAIN skbs
    BY <1>3 DEF Types
  <2>3. 0 \notin Given
    BY <1>3, <2>2 DEF Apart, Held
  <2> QED
    BY <1>3, <1>5, <2>1, <2>3 DEF Apart, Out
<1>12. FramesGrow /\ GivenStays
  BY <1>3, <1>5 DEF FramesGrow, GivenStays, SkbStays, Types
<1>13. GivenWhole' /\ Ordered' /\ Once'
  <2>1. Held' \subseteq Held
    BY <1>5 DEF Given, Held
  <2> QED
    BY <1>3, <1>5, <1>8, <1>12, <2>1, HeapSame, GivenWholeStays, OrderedStays, OnceStays
<1>14. LaidOut'
  <2>1. PICK b : b = Advance(cur_rx, 1)
    OBVIOUS
  <2>2. frames[t + 1].es /\ ~D.stamp
    <3>1. frames[t + 1].es /\ (D.stamp => frames[t + 1].stamp)
      BY <1>2, <1>4 DEF Begun, Describes, D
    <3> QED
      BY <1>3, <1>4, <3>1, FrameFacts
  <2>3. /\ b \in Slots /\ at - 1 \in Nat /\ Room - 1 \in Nat /\ at - 1 <= Room - 1
        /\ Handed(b, at - 1, Room - 1) /\ Linked(b, at - 1) /\ PartAt(b, at - 1, 0, t + 1, 0)
    BY <1>1, <1>2, <2>1, <2>2, PassOne
  <2>4. \A i \in Slots : i # cur_rx => SlotStays(i)
    BY <1>5 DEF SlotStays, DataStays
  <2>5. Settled(t + 1)'
    <3>1. Settled(t)
      BY <1>1 DEF Laid
    <3>2. LastOf' = LastOf /\ LastOf <= t /\ (\A h \in LastOf + 1 .. t : frames[h].es \/ h \in gone)
      BY <1>5, <3>1 DEF Settled, LastOf
    <3>3. LastOf \in Int
      BY <1>3, LastOfType
    <3>4. \A h \in LastOf + 1 .. t + 1 : h = t + 1 \/ h \in LastOf + 1 .. t
      BY <3>3
    <3> QED
      BY <1>4, <1>5, <2>2, <3>2, <3>3, <3>4 DEF Settled
  <2>6. Collected((t + 1) + 1, 0)'
    BY <1>5 DEF Collected
  <2>7. t + 1 \in Nat /\ UNCHANGED <<desc, dma, frames, mode>>
    BY <1>5
  <2> QED
    BY <1>3, <1>7, <1>8, <2>1, <2>3, <2>4, <2>5, <2>6, <2>7, LaidMoved
<1> QED
  BY <1>7, <1>8, <1>9, <1>10, <1>11, <1>13, <1>14 DEF ChainInv

LEMMA PagesDiffer ==
    ASSUME ChainInv, cur_rx \in Slots, B \in BufType, Full(B)
    PROVE  B.page # B.page2
<1>1. B.page = B.page2 => B.page = 0
  BY DEF ChainInv, Distinct, B
<1>2. B.page2 # 0
  BY DEF Full, BufType
<1> QED
  BY <1>1, <1>2

LEMMA GiveStep ==
    ASSUME ChainInv, NEW s, NEW new, NEW b2, NEW S, Gives(s, new, b2, S), NEW k, Moves(k), dma' = dma
    PROVE  /\ Stock' /\ Distinct(buf)' /\ Apart' /\ Clean' /\ Channel' /\ GivenStays /\ PagesOnce'
           /\ \A i \in Slots : i # cur_rx => SlotStays(i)
<1>1. Types /\ Counts /\ Stock /\ Distinct(buf) /\ Apart /\ Clean /\ Channel /\ PagesOnce
  BY DEF ChainInv, Once
<1>2. Stock'
  BY <1>1, GivesShrinks, StockMoves
<1>3. Distinct(buf)' /\ Apart' /\ Clean' /\ PagesOnce'
  BY <1>1, GivesDistinct, GivesApart, GivesClean, GivesOnce
<1>4. Channel'
  BY <1>1, ChannelSame DEF Gives
<1>5. \A i \in Slots : i # cur_rx => SlotStays(i)
  BY <1>1, GivesSlots
<1>6. GivenStays
  <2> SUFFICES ASSUME NEW m \in DOMAIN delivered PROVE SkbStays(delivered[m].skb)
    BY DEF GivenStays
  <2>1. PICK r : r = delivered[m].skb
    OBVIOUS
  <2>2. r \in Given /\ r \in Held
    BY <2>1 DEF Given, Held
  <2>3. r \in DOMAIN skbs /\ r # s
    BY <1>1, <2>2 DEF Apart, Gives, B
  <2>4. skbs'[r] = skbs[r] /\ pages' = pages
    BY <1>1, <2>3, GivesHeap DEF Gives
  <2> QED
    BY <2>1, <2>4 DEF SkbStays
<1> QED
  BY <1>2, <1>3, <1>4, <1>5, <1>6

\* The skb and the pages of a descriptor that begins a chain.
LEMMA FirstSkb ==
    ASSUME Ordinary, ChainInv, Available, ~D.ld, D.fd,
           NEW at \in Nat, NEW t \in Nat, NEW n \in Nat, Laid(at, t, n),
           NEW new, new = Started(skbs[B.skb]),
           NEW S, S = IF mode = "jumbo" THEN {B.page, B.page2} ELSE {B.page2}
    PROVE  /\ n = 0 /\ PerDesc(n) = 2
           /\ new \in SkbType /\ Reads(new, t + 1, 2) /\ 2 = Lead(new) + Len(new.frags)
           /\ Extends(skbs[B.skb], new, S)
<1> DEFINE f == t + 1
<1> DEFINE skb == skbs[B.skb]
<1>1. /\ Types /\ Clean /\ (mode = "jumbo" \/ mode = "split")
  BY DEF ChainInv, Types
<1>2. /\ Begun(cur_rx, f, n) /\ f \in 1 .. Len(frames) /\ cur_rx \in Slots
      /\ D \in DescType /\ B \in BufType /\ B.skb \in 1 .. Len(skbs) /\ Full(B)
  BY HeadFacts
<1>3. n = 0 /\ PerDesc(n) = 2
  BY <1>2 DEF Begun, Describes, D, PerDesc
<1>4. /\ D.len = Bytes(f, 2) /\ Bytes(f, 2) < frames[f].len /\ D.hl = frames[f].hl
  <2>1. D.len = Bytes(f, 0 + 2) /\ ~(frames[f].len <= Bytes(f, 0 + 2)) /\ D.hl = frames[f].hl
    BY <1>2, <1>3 DEF Begun, Describes, D
  <2>2. Bytes(f, 2) \in Nat /\ frames[f].len \in Nat
    BY <1>1, <1>2, BytesNext, FrameFacts
  <2> QED
    BY <2>1, <2>2
<1>5. /\ Bytes(f, 1) \in Nat /\ Bytes(f, 2) = Bytes(f, 1) + BufLen /\ Bytes(f, 1) < frames[f].len
      /\ BufLen \in Nat \ {0} /\ HdrSize \in Nat \ {0} /\ HdrSize < BufLen
  <2>1. Bytes(f, 0 + 1) \in Nat /\ Bytes(f, 0 + 2) = Bytes(f, 0 + 1) + BufLen
    BY <1>1, <1>2, <1>3, BytesPer
  <2>2. BufLen \in Nat \ {0} /\ HdrSize \in Nat \ {0} /\ HdrSize < BufLen /\ frames[f].len \in Nat
    BY <1>1, <1>2, Sizes, FrameFacts
  <2> QED
    BY <1>4, <2>1, <2>2
<1>6. skb \in SkbType /\ skb.frags = <<>> /\ skb.put = 0
  <2>1. skb \in SkbType
    BY <1>1, <1>2 DEF Types
  <2>2. skb.frags = <<>> /\ (skb.put > 0 => Late(desc[cur_rx]))
    BY <1>1, <1>2 DEF Clean, Waits, B, Full
  <2>3. ~Late(desc[cur_rx])
    BY DEF Late, D
  <2> QED
    BY <2>1, <2>2, <2>3 DEF SkbType
<1>7. CASE mode = "jumbo"
  <2>1. pages[B.page] = <<f, 0 + 1>> /\ pages[B.page2] = <<f, 0 + 2>>
    BY <1>2, <1>3, <1>5, <1>7 DEF Begun, Holds, B
  <2>2. new = AddPage(AddPage(skb, B.page, BufLen), B.page2, BufLen)
    BY <1>7 DEF Started
  <2>3. Reads(skb, f, 0) /\ Lead(skb) + Len(skb.frags) = 0
    BY <1>6 DEF Reads, Lead
  <2>4. B.page \in Nat /\ B.page2 \in Nat /\ BufLen \in Nat
    BY <1>2, <1>5 DEF BufType
  <2> DEFINE one == AddPage(skb, B.page, BufLen)
  <2> HIDE DEF skb, f
  <2>5. /\ one \in SkbType /\ Reads(one, f, 1) /\ Lead(one) + Len(one.frags) = 1
    <3>1. skb \in SkbType
      BY <1>6 DEF skb
    <3>2. 0 \in Nat /\ 0 = Lead(skb) + Len(skb.frags) /\ pages[B.page] = <<f, 0 + 1>>
      BY <2>1, <2>3
    <3>3. /\ one \in SkbType /\ Lead(one) = Lead(skb) /\ Len(one.frags) = Len(skb.frags) + 1
          /\ Reads(one, f, 0 + 1)
      BY <2>3, <2>4, <3>1, <3>2, ReadsAdd DEF one
    <3>4. Lead(skb) \in Nat /\ Len(skb.frags) \in Nat
      BY <1>6 DEF Lead
    <3> HIDE DEF one
    <3> QED
      BY <3>2, <3>3, <3>4
  <2>6. Extends(skb, one, {B.page, B.page2})
    BY <1>6, <2>4, AddExtends, PutExtends
  <2> HIDE DEF one
  <2>7. /\ new \in SkbType /\ Reads(new, f, 1 + 1) /\ Lead(new) = Lead(one)
        /\ Len(new.frags) = Len(one.frags) + 1
    BY <2>1, <2>2, <2>4, <2>5, ReadsAdd DEF one
  <2>8. Lead(one) \in Nat /\ Len(one.frags) \in Nat
    BY <2>5 DEF Lead, SkbType
  <2>9. 2 = Lead(new) + Len(new.frags) /\ Reads(new, f, 2)
    BY <2>5, <2>7, <2>8
  <2>10. Extends(skb, new, {B.page, B.page2})
    BY <2>2, <2>4, <2>5, <2>6, AddExtends DEF one
  <2> QED
    BY <1>3, <1>7, <2>7, <2>9, <2>10 DEF skb, f
<1>8. CASE mode = "split"
  <2>1. skb.data = <<f, 1>> /\ pages[B.page2] = <<f, 1 + 1>>
    BY <1>2, <1>3, <1>5, <1>8 DEF Begun, Holds, B
  <2>2. HdrLen = frames[f].hl /\ frames[f].hl \in Nat
    BY <1>1, <1>2, <1>4, <1>8, FrameFacts DEF HdrLen
  <2> DEFINE x == IF HdrLen > 0 THEN HdrLen ELSE HdrSize
  <2> DEFINE y == IF HdrLen > 0 THEN BufLen ELSE D.len - HdrSize
  <2>3. new = AddPage(Put(skb, x), B.page2, y)
    BY <1>8 DEF Started
  <2>4. x \in Nat \ {0} /\ y \in Nat /\ B.page2 \in Nat
    <3>1. D.len - HdrSize \in Nat
      BY <1>4, <1>5
    <3> QED
      BY <1>2, <1>5, <2>2, <3>1, SMTT(30) DEF BufType
  <2> HIDE DEF skb, f, x, y
  <2> DEFINE one == Put(skb, x)
  <2>5. one \in SkbType /\ Reads(one, f, 1) /\ Lead(one) + Len(one.frags) = 1 /\ Extends(skb, one, {B.page2})
    BY <1>6, <2>1, <2>4, ReadsPut, PutExtends
  <2> HIDE DEF one
  <2>6. /\ new \in SkbType /\ Reads(new, f, 1 + 1) /\ Lead(new) = Lead(one)
        /\ Len(new.frags) = Len(one.frags) + 1
    BY <2>1, <2>3, <2>4, <2>5, ReadsAdd DEF one
  <2>7. Lead(one) \in Nat /\ Len(one.frags) \in Nat
    BY <2>5 DEF Lead, SkbType
  <2>8. 2 = Lead(new) + Len(new.frags) /\ Reads(new, f, 2)
    BY <2>5, <2>6, <2>7
  <2>9. Extends(skb, new, {B.page2})
    BY <2>3, <2>4, <2>5, AddExtends DEF one
  <2> QED
    BY <1>3, <1>8, <2>6, <2>8, <2>9 DEF skb, f
<1> QED
  BY <1>1, <1>7, <1>8

\* The frames after the last the stack got are accounted for, and still are.
LEMMA SettledStays ==
    ASSUME Types, Types', FramesGrow, gone \subseteq gone', delivered' = delivered,
           NEW t \in Nat, Settled(t)
    PROVE  Settled(t)'
<1>1. LastOf \in Nat /\ LastOf' = LastOf /\ Len(frames) \in Nat /\ Len(frames') \in Nat
  BY LastOfType DEF LastOf, Types
<1>2. LastOf <= t /\ t <= Len(frames) /\ \A h \in LastOf + 1 .. t : frames[h].es \/ h \in gone
  BY DEF Settled
<1>3. \A h \in LastOf + 1 .. t : h \in 1 .. Len(frames)
  BY <1>1, <1>2
<1>4. t <= Len(frames')
  BY <1>1, <1>2 DEF FramesGrow
<1>5. \A h \in LastOf + 1 .. t : frames'[h].es \/ h \in gone'
  BY <1>2, <1>3 DEF FramesGrow
<1> QED
  BY <1>1, <1>2, <1>4, <1>5 DEF Settled

\* A step that passes one descriptor, gives new to the chain and delivers nothing.
LEMMA ChainStep ==
    ASSUME Ordinary, ChainInv, Available, ~D.ld,
           NEW at \in Nat, NEW t \in Nat, NEW n \in Nat, Laid(at, t, n),
           NEW s, NEW new, NEW b2, NEW S, Gives(s, new, b2, S),
           UNCHANGED <<skb_realloc_idx, dma, gone, delivered, lost>>,
           NextDescriptor(poll.received, poll.cnt + 1, HdrLen, 1),
           skb_top' = s, Reads(new, t + 1, n + PerDesc(n)),
           n + PerDesc(n) = Lead(new) + Len(new.frags)
    PROVE  ChainInv'
<1>1. /\ Types /\ Counts /\ Stock /\ Distinct(buf) /\ Apart /\ Clean /\ Channel /\ GivenWhole /\ Ordered /\ Once
      /\ pc = "loop"
  BY DEF ChainInv, Available
<1>2. poll.received \in 0 .. Quota /\ poll.cnt + 1 \in Nat /\ HdrLen \in Nat
  BY <1>1, HdrLenType DEF PollType
<1>3. /\ Moves(1) /\ Counts'
      /\ pc' \in {"loop", "refill"} /\ poll' \in PollType /\ cur_rx' \in Slots
      /\ dirty_rx' \in 0 .. MIN_RX_DESC_CNT + 1
  BY <1>1, <1>2, NextMoves
<1>4. UNCHANGED <<pages, desc, mode, frames>> /\ s \in DOMAIN skbs
  BY DEF Gives
<1>5. /\ skbs' \in Seq(SkbType) /\ Len(skbs') = Len(skbs) /\ skbs'[s] = new /\ buf' \in [Slots -> BufType]
  BY <1>1, GivesHeap
<1>6. s \in 0 .. Len(skbs') /\ s # 0
  BY <1>1, <1>4, <1>5 DEF Types
<1>7. Types'
  BY <1>1, <1>3, <1>4, <1>5, <1>6 DEF Types
<1>8. /\ Stock' /\ Distinct(buf)' /\ Apart' /\ Clean' /\ Channel' /\ GivenStays /\ PagesOnce'
      /\ \A i \in Slots : i # cur_rx => SlotStays(i)
  BY <1>3, GiveStep
<1>9. FramesGrow
  BY <1>1, <1>4 DEF FramesGrow, Types
<1>10. GivenWhole' /\ Ordered' /\ Once'
  <2>1. SkbsOnce'
    BY <1>1 DEF Once, SkbsOnce
  <2> QED
    BY <1>1, <1>7, <1>8, <1>9, <2>1, GivenWholeStays, OrderedStays DEF Once
<1>11. LaidOut'
  <2>1. PICK b : b = Advance(cur_rx, 1)
    OBVIOUS
  <2>2. PICK m \in Nat : m = n + PerDesc(n)
    BY DEF PerDesc
  <2>3. /\ b \in Slots /\ at - 1 \in Nat /\ Room - 1 \in Nat /\ at - 1 <= Room - 1
        /\ Handed(b, at - 1, Room - 1) /\ Linked(b, at - 1) /\ PartAt(b, at - 1, 0, t, m)
    BY <2>1, <2>2, PassOne
  <2>4. Settled(t)'
    <3>1. Settled(t)
      BY DEF Laid
    <3> QED
      BY <1>1, <1>7, <1>9, <3>1, SettledStays
  <2>5. Collected(t + 1, m)'
    <3>1. m > 0
      BY <2>2 DEF PerDesc
    <3>2. Reads(new, t + 1, m)'
      BY <1>4, <2>2 DEF Reads, Lead
    <3>3. (m = Lead(skbs[skb_top]) + Len(skbs[skb_top].frags))'
      BY <1>5, <2>2 DEF Lead
    <3> QED
      BY <1>5, <1>6, <3>1, <3>2, <3>3 DEF Collected
  <2> QED
    BY <1>1, <1>3, <1>4, <1>7, <1>8, <2>1, <2>3, <2>4, <2>5, LaidMoved
<1> QED
  BY <1>3, <1>7, <1>8, <1>10, <1>11 DEF ChainInv

\* What is left of the buffer at the beginning or in the middle of a chain.
LEMMA LeftType ==
    ASSUME B \in BufType
    PROVE  /\ Consumed(B) \in BufType /\ Consumed(B).skb = B.skb
           /\ Consumed(B).page2 = 0 /\ Consumed(B).page \in {0, B.page}
           /\ mode = "jumbo" => Consumed(B).page = 0
           /\ NoSkb(Consumed(B)) \in BufType /\ NoSkb(Consumed(B)).skb = 0
           /\ NoSkb(Consumed(B)).page2 = 0 /\ NoSkb(Consumed(B)).page = Consumed(B).page
BY DEF Consumed, NoSkb, Page1, Page2, BufType

LEMMA FirstStep ==
    ASSUME Ordinary, ChainInv, RxFirst
    PROVE  ChainInv'
<1>1. PICK at \in Nat, t \in Nat, n \in Nat : Laid(at, t, n)
  BY DEF ChainInv, LaidOut
<1>2. Available /\ ~D.ld /\ D.fd
  BY DEF RxFirst
<1>3. /\ cur_rx \in Slots /\ B \in BufType /\ B.skb \in 1 .. Len(skbs) /\ Full(B) /\ ~D.own
      /\ B.page2 \in 1 .. Len(pages) /\ (mode = "jumbo" => B.page \in 1 .. Len(pages))
      /\ (mode = "split" => B.page = 0)
  BY <1>1, <1>2, HeadFacts DEF Available, D
<1>4. PICK s : s = B.skb
  OBVIOUS
<1>5. PICK new : new = Started(skbs[s])
  OBVIOUS
<1>6. PICK S : S = IF mode = "jumbo" THEN {B.page, B.page2} ELSE {B.page2}
  OBVIOUS
<1>7. PICK b2 : b2 = NoSkb(Consumed(B))
  OBVIOUS
<1>8. /\ n = 0 /\ PerDesc(n) = 2
      /\ new \in SkbType /\ Reads(new, t + 1, 2) /\ 2 = Lead(new) + Len(new.frags)
      /\ Extends(skbs[s], new, S)
  BY <1>1, <1>2, <1>4, <1>5, <1>6, FirstSkb
<1>9. /\ UNCHANGED <<mode, desc, skb_realloc_idx, pages, dma, frames, gone, delivered, lost>>
      /\ skb_top' = s /\ skbs' = [skbs EXCEPT ![s] = new] /\ buf' = [buf EXCEPT ![cur_rx] = b2]
  BY <1>4, <1>5, <1>7 DEF RxFirst, wire, B
<1>10. Types /\ Apart
  BY DEF ChainInv
<1>11. Gives(s, new, b2, S)
  <2>1. s \in DOMAIN skbs
    BY <1>3, <1>4, <1>10 DEF Types
  <2>2. /\ b2 \in BufType /\ b2.skb = 0 /\ b2.page \in {0, B.page} /\ b2.page2 = 0
        /\ mode = "jumbo" => b2.page = 0
    BY <1>3, <1>7, LeftType
  <2>3. s # 0
    BY <1>3, <1>4
  <2>4. \A x \in S : x \in DOMAIN pages /\ x \in {B.page, B.page2} /\ x # b2.page /\ x # b2.page2
    <3>1. CASE mode = "jumbo"
      <4>1. S = {B.page, B.page2} /\ b2.page = 0 /\ B.page \in DOMAIN pages /\ B.page2 \in DOMAIN pages
            /\ 0 \notin DOMAIN pages
        BY <1>3, <1>6, <1>10, <2>2, <3>1 DEF Types
      <4> QED
        BY <2>2, <4>1
    <3>2. CASE mode # "jumbo"
      <4>1. S = {B.page2} /\ b2.page = 0 /\ B.page2 \in DOMAIN pages /\ 0 \notin DOMAIN pages
        BY <1>3, <1>6, <1>10, <2>2, <3>2 DEF Types
      <4> QED
        BY <2>2, <4>1
    <3> QED
      BY <3>1, <3>2
  <2>5. Given' = Given /\ Held' \subseteq Held \cup {s}
    BY <1>9 DEF Given, Held
  <2>6. s \notin Given
    BY <1>3, <1>4, <1>10 DEF Apart, Held, B
  <2>7. OneMore(skbs[s], new) /\ B.page # B.page2
    <3>1. skbs[s] \in SkbType
      BY <1>10, <2>1 DEF Types
    <3>2. OneMore(skbs[s], new)
      BY <1>5, <3>1, StepsAdd
    <3> QED
      BY <1>3, <3>2, PagesDiffer
  <2> QED
    BY <1>3, <1>4, <1>8, <1>9, <2>1, <2>2, <2>3, <2>4, <2>5, <2>6, <2>7 DEF Gives
<1>12. NextDescriptor(poll.received, poll.cnt + 1, HdrLen, 1)
  BY DEF RxFirst
<1>13. n + PerDesc(n) = 2
  BY <1>8
<1> QED
  BY <1>1, <1>2, <1>8, <1>9, <1>11, <1>12, <1>13, ChainStep

\* The skb of a chain is the first of its frame's buffers no more.
LEMMA TopFacts ==
    ASSUME Ordinary, ChainInv, Available, ~D.fd,
           NEW at \in Nat, NEW t \in Nat, NEW n \in Nat, Laid(at, t, n)
    PROVE  /\ n > 0 /\ skb_top \in DOMAIN skbs /\ skb_top # 0 /\ skb_top # B.skb
           /\ skb_top \notin Given /\ skbs[skb_top] \in SkbType
           /\ Reads(skbs[skb_top], t + 1, n)
           /\ n = Lead(skbs[skb_top]) + Len(skbs[skb_top].frags)
<1>1. Begun(cur_rx, t + 1, n) /\ (n = 0 <=> skb_top = 0) /\ cur_rx \in Slots
  BY HeadFacts
<1>2. n > 0 /\ skb_top # 0
  BY <1>1 DEF Begun, Describes, D
<1>3. skb_top \in Held
  BY <1>2 DEF Held
<1>4. skb_top \in DOMAIN skbs /\ skb_top # B.skb /\ skb_top \notin Given
  BY <1>1, <1>3 DEF ChainInv, Apart, B
<1>5. skbs[skb_top] \in SkbType
  BY <1>4 DEF ChainInv, Types
<1>6. /\ Reads(skbs[skb_top], t + 1, n)
      /\ n = Lead(skbs[skb_top]) + Len(skbs[skb_top].frags)
  BY <1>2 DEF Laid, Collected
<1> QED
  BY <1>2, <1>4, <1>5, <1>6

LEMMA MiddleSkb ==
    ASSUME Ordinary, ChainInv, Available, ~D.ld, ~D.fd,
           NEW at \in Nat, NEW t \in Nat, NEW n \in Nat, Laid(at, t, n),
           NEW new, new = IF mode = "jumbo"
                          THEN AddPage(AddPage(skbs[skb_top], B.page, BufLen), B.page2, BufLen)
                          ELSE AddPage(skbs[skb_top], B.page2, BufLen),
           NEW S, S = IF mode = "jumbo" THEN {B.page, B.page2} ELSE {B.page2}
    PROVE  /\ new \in SkbType /\ Reads(new, t + 1, n + PerDesc(n))
           /\ n + PerDesc(n) = Lead(new) + Len(new.frags)
           /\ Extends(skbs[skb_top], new, S)
<1>1. PICK f : f = t + 1
  OBVIOUS
<1>2. PICK skb : skb = skbs[skb_top]
  OBVIOUS
<1>3. n > 0 /\ skb \in SkbType /\ Reads(skb, f, n) /\ n = Lead(skb) + Len(skb.frags)
  BY <1>1, <1>2, TopFacts
<1>4. Begun(cur_rx, f, n) /\ f \in 1 .. Len(frames) /\ B \in BufType
  BY <1>1, HeadFacts
<1>5. Types /\ (mode = "jumbo" \/ mode = "split")
  BY DEF ChainInv, Types
<1>6. B.page \in Nat /\ B.page2 \in Nat /\ BufLen \in Nat
  BY <1>4, Sizes DEF BufType
<1>7. Lead(skb) \in Nat /\ Len(skb.frags) \in Nat
  BY <1>3 DEF Lead, SkbType
<1>8. CASE mode = "jumbo"
  <2>1. PerDesc(n) = 2
    BY <1>8 DEF PerDesc
  <2>2. Bytes(f, n + 1) < frames[f].len
    <3>1. ~(frames[f].len <= Bytes(f, n + PerDesc(n)))
      BY <1>4 DEF Begun, Describes, D
    <3>2. /\ Bytes(f, n + 1) \in Nat /\ Bytes(f, n + PerDesc(n)) \in Nat
          /\ Bytes(f, n + 1) <= Bytes(f, n + PerDesc(n)) /\ frames[f].len \in Nat
      BY <1>4, <1>5, BytesPer, FrameFacts
    <3> QED
      BY <3>1, <3>2
  <2>3. pages[B.page] = <<f, n + 1>> /\ pages[B.page2] = <<f, n + 2>>
    BY <1>4, <1>8, <2>2 DEF Begun, Holds, B
  <2>4. PICK one : one = AddPage(skb, B.page, BufLen)
    OBVIOUS
  <2>5. /\ one \in SkbType /\ Lead(one) = Lead(skb) /\ Len(one.frags) = Len(skb.frags) + 1
        /\ Reads(one, f, n + 1)
    BY <1>3, <1>6, <2>3, <2>4, ReadsAdd, SMTT(30)
  <2>6. PICK m \in Nat : m = n + 1
    OBVIOUS
  <2>7. new = AddPage(one, B.page2, BufLen)
    BY <1>2, <1>8, <2>4
  <2>8. /\ new \in SkbType /\ Lead(new) = Lead(one) /\ Len(new.frags) = Len(one.frags) + 1
        /\ Reads(new, f, m + 1)
    <3>1. m + 1 = n + 2
      BY <2>6
    <3>2. pages[B.page2] = <<f, m + 1>>
      BY <2>3, <3>1
    <3>3. m = Lead(one) + Len(one.frags)
      BY <1>3, <1>7, <2>5, <2>6
    <3>4. Reads(one, f, m)
      BY <2>5, <2>6
    <3>5. /\ AddPage(one, B.page2, BufLen) \in SkbType
          /\ Lead(AddPage(one, B.page2, BufLen)) = Lead(one)
          /\ Len(AddPage(one, B.page2, BufLen).frags) = Len(one.frags) + 1
      <4>1. PICK p \in Nat, x \in Nat : p = B.page2 /\ x = BufLen
        BY <1>6
      <4>2. /\ AddPage(one, p, x) \in SkbType
            /\ Lead(AddPage(one, p, x)) = Lead(one)
            /\ Len(AddPage(one, p, x).frags) = Len(one.frags) + 1
        BY <2>5, <3>4, ReadsAdd, SMTT(30)
      <4> QED
        BY <4>1, <4>2
    <3>6. Reads(AddPage(one, B.page2, BufLen), f, m + 1)
      BY <1>6, <2>5, <3>2, <3>3, <3>4, ReadsAdd
    <3> QED
      BY <2>7, <3>5, <3>6
  <2>9. n + 2 = Lead(new) + Len(new.frags) /\ m + 1 = n + 2
    <3>1. Lead(new) = Lead(skb) /\ Len(new.frags) = (Len(skb.frags) + 1) + 1
      BY <2>5, <2>8
    <3> QED
      BY <1>3, <1>7, <2>6, <3>1
  <2>10. Extends(skb, one, S) /\ Extends(skb, new, S)
    <3>1. S = {B.page, B.page2} /\ Extends(skb, skb, S)
      BY <1>3, <1>8, PutExtends
    <3>2. Extends(skb, one, S)
      BY <1>3, <1>6, <2>4, <3>1, AddExtends
    <3> QED
      BY <1>6, <2>5, <2>7, <3>1, <3>2, AddExtends
  <2> QED
    BY <1>1, <1>2, <2>1, <2>8, <2>9, <2>10
<1>9. CASE mode = "split"
  <2>1. PerDesc(n) = 1
    BY <1>3, <1>9 DEF PerDesc
  <2>2. pages[B.page2] = <<f, n + 1>>
    BY <1>3, <1>4, <1>9 DEF Begun, Holds, B
  <2>3. new = AddPage(skb, B.page2, BufLen)
    BY <1>2, <1>9
  <2>4. /\ new \in SkbType /\ Lead(new) = Lead(skb) /\ Len(new.frags) = Len(skb.frags) + 1
        /\ Reads(new, f, n + 1)
    BY <1>3, <1>6, <2>2, <2>3, ReadsAdd, SMTT(30)
  <2>5. n + 1 = Lead(new) + Len(new.frags)
    BY <1>3, <1>7, <2>4
  <2>6. Extends(skb, new, S)
    <3>1. S = {B.page2} /\ Extends(skb, skb, S)
      BY <1>3, <1>9, PutExtends
    <3> QED
      BY <1>3, <1>6, <2>3, <3>1, AddExtends
  <2> QED
    BY <1>1, <1>2, <2>1, <2>4, <2>5, <2>6
<1> QED
  BY <1>5, <1>8, <1>9

LEMMA MiddleStep ==
    ASSUME Ordinary, ChainInv, RxMiddle
    PROVE  ChainInv'
<1>1. PICK at \in Nat, t \in Nat, n \in Nat : Laid(at, t, n)
  BY DEF ChainInv, LaidOut
<1>2. Available /\ ~D.ld /\ ~D.fd
  BY DEF RxMiddle
<1>3. /\ cur_rx \in Slots /\ B \in BufType /\ B.skb \in 1 .. Len(skbs) /\ Full(B) /\ ~D.own
      /\ B.page2 \in 1 .. Len(pages) /\ (mode = "jumbo" => B.page \in 1 .. Len(pages))
      /\ (mode = "split" => B.page = 0)
  BY <1>1, <1>2, HeadFacts DEF Available, D
<1>4. PICK s : s = skb_top
  OBVIOUS
<1>5. PICK new : new = IF mode = "jumbo"
                       THEN AddPage(AddPage(skbs[s], B.page, BufLen), B.page2, BufLen)
                       ELSE AddPage(skbs[s], B.page2, BufLen)
  OBVIOUS
<1>6. PICK S : S = IF mode = "jumbo" THEN {B.page, B.page2} ELSE {B.page2}
  OBVIOUS
<1>7. PICK b2 : b2 = Consumed(B)
  OBVIOUS
<1>8. /\ new \in SkbType /\ Reads(new, t + 1, n + PerDesc(n))
      /\ n + PerDesc(n) = Lead(new) + Len(new.frags)
      /\ Extends(skbs[s], new, S)
  BY <1>1, <1>2, <1>4, <1>5, <1>6, MiddleSkb
<1>9. /\ UNCHANGED <<mode, desc, skb_realloc_idx, skb_top, pages, dma, frames, gone, delivered, lost>>
      /\ skbs' = [skbs EXCEPT ![s] = new] /\ buf' = [buf EXCEPT ![cur_rx] = b2]
  BY <1>4, <1>5, <1>7 DEF RxMiddle, wire, B
<1>10. Types /\ s \in DOMAIN skbs /\ s # 0 /\ s # B.skb /\ s \notin Given
  BY <1>1, <1>2, <1>4, TopFacts DEF ChainInv
<1>11. Gives(s, new, b2, S)
  <2>2. /\ b2 \in BufType /\ b2.skb = B.skb /\ b2.page \in {0, B.page} /\ b2.page2 = 0
        /\ mode = "jumbo" => b2.page = 0
    BY <1>3, <1>7, LeftType
  <2>4. \A x \in S : x \in DOMAIN pages /\ x \in {B.page, B.page2} /\ x # b2.page /\ x # b2.page2
    <3>1. CASE mode = "jumbo"
      <4>1. S = {B.page, B.page2} /\ b2.page = 0 /\ B.page \in DOMAIN pages /\ B.page2 \in DOMAIN pages
            /\ 0 \notin DOMAIN pages
        BY <1>3, <1>6, <1>10, <2>2, <3>1 DEF Types
      <4> QED
        BY <2>2, <4>1
    <3>2. CASE mode # "jumbo"
      <4>1. S = {B.page2} /\ b2.page = 0 /\ B.page2 \in DOMAIN pages /\ 0 \notin DOMAIN pages
        BY <1>3, <1>6, <1>10, <2>2, <3>2 DEF Types
      <4> QED
        BY <2>2, <4>1
    <3> QED
      BY <3>1, <3>2
  <2>5. Given' = Given /\ Held' = Held
    BY <1>9 DEF Given, Held
  <2>6. OneMore(skbs[s], new) /\ B.page # B.page2
    BY <1>3, <1>5, <1>10, AddsOneMore, PagesDiffer DEF Types
  <2> QED
    BY <1>3, <1>4, <1>8, <1>9, <1>10, <2>2, <2>4, <2>5, <2>6 DEF Gives
<1>12. NextDescriptor(poll.received, poll.cnt + 1, HdrLen, 1)
  BY DEF RxMiddle
<1>13. skb_top' = s
  BY <1>4, <1>9
<1> QED
  BY <1>1, <1>2, <1>8, <1>9, <1>11, <1>12, <1>13, ChainStep

\* The pages of the buffer that are not left in b2.
Taken(b2) == {B.page, B.page2} \ {b2.page, b2.page2, 0}

\* What the last descriptor of a frame adds to an skb.
LEMMA EndedSkb ==
    ASSUME Types, B \in BufType, Full(B), B.page = B.page2 => B.page = 0,
           NEW skb \in SkbType, NEW f, NEW n \in Nat, NEW x \in Nat,
           Reads(skb, f, n), n = Lead(skb) + Len(skb.frags),
           NEW b2, b2 = EndConsumed(B, x), NEW S, S = Taken(b2)
    PROVE  /\ Ended(skb, x) \in SkbType
           /\ mode = "jumbo" /\ pages[B.page] = <<f, n + 1>> => Reads(Ended(skb, x), f, n + 1)
           /\ mode = "jumbo" /\ x > BufLen /\ pages[B.page] = <<f, n + 1>> /\ pages[B.page2] = <<f, n + 2>> =>
                 Reads(Ended(skb, x), f, n + 2)
           /\ mode = "split" /\ pages[B.page2] = <<f, n + 1>> => Reads(Ended(skb, x), f, n + 1)
           /\ Extends(skb, Ended(skb, x), S)
           /\ b2 \in BufType /\ b2.skb = B.skb /\ b2.page \in {0, B.page} /\ b2.page2 \in {0, B.page2}
<1>1. /\ B.page \in Nat /\ B.page2 \in Nat /\ B.page2 # 0 /\ BufLen \in Nat /\ (mode = "jumbo" \/ mode = "split")
      /\ (mode = "jumbo" => B.page # 0) /\ Lead(skb) \in Nat /\ Len(skb.frags) \in Nat
  <2>1. B.page \in Nat /\ B.page2 \in Nat
    BY DEF BufType
  <2>2. B.page2 # 0 /\ (mode = "jumbo" => B.page # 0)
    BY <2>1 DEF Full
  <2>3. Lead(skb) \in Nat /\ Len(skb.frags) \in Nat
    BY DEF Lead, SkbType
  <2> QED
    BY <2>1, <2>2, <2>3, Sizes DEF Types
<1>2. Extends(skb, skb, S)
  BY PutExtends
<1>3. CASE mode = "split"
  <2>1. /\ b2 \in BufType /\ b2.skb = B.skb /\ b2.page = B.page /\ b2.page2 = 0
    BY <1>3 DEF EndConsumed, Consumed, Page2, BufType
  <2>2. Ended(skb, x) = AddPage(skb, B.page2, x)
    BY <1>3 DEF Ended
  <2>3. B.page2 \in S
    BY <1>1, <2>1 DEF Taken
  <2>4. /\ AddPage(skb, B.page2, x) \in SkbType
        /\ pages[B.page2] = <<f, n + 1>> => Reads(AddPage(skb, B.page2, x), f, n + 1)
    BY <1>1, ReadsAdd
  <2>5. Extends(skb, AddPage(skb, B.page2, x), S)
    BY <1>1, <1>2, <2>3, AddExtends
  <2> QED
    BY <1>3, <2>1, <2>2, <2>4, <2>5
<1>4. CASE mode = "jumbo" /\ x <= BufLen
  <2>1. /\ b2 \in BufType /\ b2.skb = B.skb /\ b2.page = 0 /\ b2.page2 = B.page2
    BY <1>4 DEF EndConsumed, Page1, BufType
  <2>2. Ended(skb, x) = AddPage(skb, B.page, x)
    BY <1>1, <1>4 DEF Ended
  <2>3. B.page \in S
    BY <1>1, <1>4, <2>1 DEF Taken
  <2>4. /\ AddPage(skb, B.page, x) \in SkbType
        /\ pages[B.page] = <<f, n + 1>> => Reads(AddPage(skb, B.page, x), f, n + 1)
    BY <1>1, ReadsAdd
  <2>5. Extends(skb, AddPage(skb, B.page, x), S)
    BY <1>1, <1>2, <2>3, AddExtends
  <2>6. ~(x > BufLen)
    BY <1>1, <1>4
  <2> QED
    BY <1>4, <2>1, <2>2, <2>4, <2>5, <2>6
<1>5. CASE mode = "jumbo" /\ x > BufLen
  <2>0. ~(x <= BufLen) /\ x - BufLen \in Nat
    BY <1>1, <1>5
  <2>1. /\ b2 \in BufType /\ b2.skb = B.skb /\ b2.page = 0 /\ b2.page2 = 0
    BY <1>5, <2>0 DEF EndConsumed, Consumed, Page1, Page2, BufType
  <2>2. PICK one : one = AddPage(skb, B.page, BufLen)
    OBVIOUS
  <2>3. Ended(skb, x) = AddPage(one, B.page2, x - BufLen)
    BY <1>5, <2>2 DEF Ended
  <2>4. B.page \in S /\ B.page2 \in S
    BY <1>1, <1>5, <2>1 DEF Taken
  <2>5. /\ one \in SkbType /\ Lead(one) = Lead(skb) /\ Len(one.frags) = Len(skb.frags) + 1
        /\ Reads(one, f, n)
        /\ pages[B.page] = <<f, n + 1>> => Reads(one, f, n + 1)
    <3>1. pages[B.page] = <<f, n + 1>> => Reads(one, f, n + 1)
      BY <1>1, <2>2, ReadsAdd
    <3>2. /\ one \in SkbType /\ Lead(one) = Lead(skb) /\ Len(one.frags) = Len(skb.frags) + 1
          /\ Reads(one, f, n)
      BY <1>1, <2>2, ReadsAdd
    <3> QED
      BY <3>1, <3>2
  <2>6. AddPage(one, B.page2, x - BufLen) \in SkbType
    BY <1>1, <2>0, <2>5, ReadsAdd
  <2>7. PICK m \in Nat : m = n + 1
    OBVIOUS
  <2>8. ASSUME pages[B.page] = <<f, n + 1>>
        PROVE  /\ Reads(AddPage(one, B.page2, x - BufLen), f, n + 1)
               /\ pages[B.page2] = <<f, n + 2>> => Reads(AddPage(one, B.page2, x - BufLen), f, n + 2)
    <3>1. Reads(one, f, m) /\ m = Lead(one) + Len(one.frags) /\ m + 1 = n + 2
      BY <1>1, <2>5, <2>7, <2>8, SMTT(30)
    <3>2. Reads(AddPage(one, B.page2, x - BufLen), f, m)
      BY <1>1, <2>0, <2>5, <3>1, ReadsAdd
    <3>3. pages[B.page2] = <<f, m + 1>> => Reads(AddPage(one, B.page2, x - BufLen), f, m + 1)
      BY <1>1, <2>0, <2>5, <3>1, ReadsAdd
    <3> QED
      BY <2>7, <3>1, <3>2, <3>3
  <2>9. Extends(skb, one, S)
    BY <1>1, <1>2, <2>2, <2>4, AddExtends
  <2>10. Extends(skb, AddPage(one, B.page2, x - BufLen), S)
    BY <1>1, <2>0, <2>4, <2>5, <2>9, AddExtends
  <2> QED
    BY <1>5, <2>1, <2>3, <2>6, <2>8, <2>10
<1> QED
  BY <1>1, <1>3, <1>4, <1>5

\* The copies of a frame whose time stamp is late, and one more.
LEMMA SumOfLates ==
    ASSUME NEW l \in Nat, NEW len \in Nat
    PROVE  /\ l * len \in Nat /\ 0 <= l * len /\ l * len + len = (l + 1) * len
           /\ \A m \in Nat : l <= m => l * len + len <= (m + 1) * len /\ (m + 1) * len \in Nat
<1>1. l * len \in Nat /\ l * len + len = (l + 1) * len
  OBVIOUS
<1>2. ASSUME NEW m \in Nat, l <= m PROVE l * len + len <= (m + 1) * len /\ (m + 1) * len \in Nat
  <2>1. PICK k \in Nat : m = l + k
    <3>1. m - l \in Nat /\ m = l + (m - l)
      BY <1>2
    <3> QED
      BY <3>1
  <2>2. (l + k + 1) * len = l * len + k * len + len /\ k * len \in Nat
    OBVIOUS
  <2> QED
    BY <1>1, <2>1, <2>2
<1> QED
  BY <1>1, <1>2

\* The frame ends with a descriptor that holds all of it.
LEMMA WholeFrame ==
    ASSUME Ordinary, ChainInv, Good, D.fd,
           NEW at \in Nat, NEW t \in Nat, NEW n \in Nat, Laid(at, t, n),
           NEW f, f = t + 1
    PROVE  /\ n = 0 /\ f \in 1 .. Len(frames) /\ ~frames[f].es /\ D.of = f
           /\ D.len = frames[f].len /\ frames[f].len \in Nat \ {0} /\ frames[f].hl \in Nat
           /\ D.hl = frames[f].hl /\ frames[f].hl <= frames[f].len
           /\ D.stamp => frames[f].stamp
           /\ Bytes(f, 0) = 0 /\ Bytes(f, 1) \in Nat /\ Bytes(f, 2) = Bytes(f, 1) + BufLen
           /\ Bytes(f, 1) = (IF mode = "jumbo" THEN BufLen ELSE Header(f))
           /\ frames[f].len <= Bytes(f, 2)
           /\ frames[f].len <= Bytes(f, 1) => Count(f, mode) = 1
           /\ Bytes(f, 1) < frames[f].len => Count(f, mode) = 2
           /\ skbs[B.skb] \in SkbType /\ skbs[B.skb].frags = <<>>
           /\ skbs[B.skb].put > 0 => D.stamp /\ MaxLates > 0
           /\ D.stamp /\ MaxLates > 0 =>
                 /\ frames[f].len <= Copybreak /\ frames[f].len <= HdrSize /\ frames[f].hl = 0
                 /\ skbs[B.skb].put <= dma.lates * frames[f].len /\ skbs[B.skb].put + frames[f].len <= Tailroom
<1>1. Types /\ Clean /\ Available /\ ~D.es /\ D.ld /\ (mode = "jumbo" \/ mode = "split")
  BY DEF ChainInv, Good, Types
<1>2. /\ Begun(cur_rx, f, n) /\ f \in 1 .. Len(frames) /\ cur_rx \in Slots
      /\ D \in DescType /\ B \in BufType /\ B.skb \in 1 .. Len(skbs) /\ Full(B)
  BY <1>1, HeadFacts
<1>3. n = 0 /\ PerDesc(n) = 2
  BY <1>2 DEF Begun, Describes, D, PerDesc
<1>4. /\ frames[f].len <= Bytes(f, 0 + 2) /\ D.len = frames[f].len /\ ~frames[f].es /\ D.of = f
      /\ D.hl = frames[f].hl /\ (D.stamp => frames[f].stamp)
  BY <1>1, <1>2, <1>3 DEF Begun, Describes, D
<1>5. /\ frames[f].len \in Nat \ {0} /\ frames[f].hl \in Nat /\ frames[f].hl <= frames[f].len
      /\ Header(f) \in Nat \ {0} /\ BufLen \in Nat \ {0}
      /\ frames[f].stamp /\ MaxLates > 0 =>
            /\ frames[f].len <= Copybreak /\ frames[f].len <= HdrSize /\ frames[f].hl = 0
            /\ (MaxLates + 1) * frames[f].len <= Tailroom
  BY <1>1, <1>2, FrameFacts, Sizes
<1>6. Bytes(f, 0) = 0
  BY <1>5 DEF Bytes
<1>7. /\ Bytes(f, 0 + 1) = Bytes(f, 0) + (IF mode = "split" /\ 0 = 0 THEN Header(f) ELSE BufLen)
  BY <1>1, <1>2, BytesNext
<1>8. /\ Bytes(f, 1) \in Nat /\ Bytes(f, 1) = (IF mode = "jumbo" THEN BufLen ELSE Header(f))
  BY <1>1, <1>5, <1>6, <1>7
<1>9. Bytes(f, 2) = Bytes(f, 1) + BufLen
  <2>1. Bytes(f, 0 + 2) = Bytes(f, 0 + 1) + BufLen
    BY <1>1, <1>2, <1>3, BytesPer
  <2> QED
    BY <2>1
<1>10. frames[f].len <= Bytes(f, 1) => Count(f, mode) = 1
  <2>1. Bytes(f, 0) < frames[f].len /\ frames[f].len <= Bytes(f, 0 + 1) => Count(f, mode) = 0 + 1
    BY <1>1, <1>2, CountIs
  <2> QED
    BY <1>5, <1>6, <2>1
<1>11. Bytes(f, 1) < frames[f].len => Count(f, mode) = 2
  <2>1. Bytes(f, 1) < frames[f].len /\ frames[f].len <= Bytes(f, 1 + 1) => Count(f, mode) = 1 + 1
    BY <1>1, <1>2, CountIs
  <2> QED
    BY <1>4, <2>1
<1>12. skbs[B.skb] \in SkbType /\ skbs[B.skb].frags = <<>> /\ (skbs[B.skb].put > 0 => Waits(D, skbs[B.skb]))
  BY <1>1, <1>2 DEF Types, Clean, B, D, Full
<1>13. skbs[B.skb].put > 0 => MaxLates > 0 /\ D.stamp
  BY <1>12 DEF Waits, Late, D
<1>14. ASSUME D.stamp, MaxLates > 0
       PROVE  skbs[B.skb].put <= dma.lates * frames[f].len /\ skbs[B.skb].put + frames[f].len <= Tailroom
  <2>1. PICK l \in Nat, len \in Nat, put \in Nat : l = dma.lates /\ len = frames[f].len /\ put = skbs[B.skb].put
    <3>1. dma.lates \in Nat
      BY <1>1, Sizes DEF Types, DmaType
    <3>2. skbs[B.skb].put \in Nat
      BY <1>12 DEF SkbType
    <3> QED
      BY <1>5, <3>1, <3>2
  <2>2. l <= MaxLates /\ MaxLates \in Nat /\ Tailroom \in Nat
    BY <1>1, <2>1, Sizes DEF Types, DmaType
  <2>3. put <= l * len
    <3>1. 0 <= l * len
      BY SumOfLates
    <3> QED
      BY <1>4, <1>12, <2>1, <3>1 DEF Waits
  <2>4. l * len + len <= (MaxLates + 1) * len /\ l * len \in Nat /\ (MaxLates + 1) * len \in Nat
    BY <2>2, SumOfLates
  <2>5. (MaxLates + 1) * len <= Tailroom
    BY <1>4, <1>5, <1>14, <2>1
  <2>6. put + len <= Tailroom
    BY <2>2, <2>3, <2>4, <2>5
  <2> QED
    BY <2>1, <2>3, <2>6
<1> QED
  BY <1>2, <1>3, <1>4, <1>5, <1>6, <1>8, <1>9, <1>10, <1>11, <1>12, <1>13, <1>14

LEMMA WholeSkb ==
    ASSUME Ordinary, ChainInv, Good, D.fd,
           NEW at \in Nat, NEW t \in Nat, NEW n \in Nat, Laid(at, t, n),
           NEW new, new = Whole(skbs[B.skb]), NEW b2, b2 = WholeConsumed(B),
           NEW S, S = Taken(b2)
    PROVE  /\ new \in SkbType /\ Reads(new, t + 1, Count(t + 1, mode))
           /\ Extends(skbs[B.skb], new, S)
           /\ b2 \in BufType /\ b2.skb = B.skb /\ b2.page \in {0, B.page} /\ b2.page2 \in {0, B.page2}
           /\ D.stamp /\ MaxLates > 0 =>
                 b2 = B /\ new.frags = <<>> /\ new.put = skbs[B.skb].put + D.len
<1>1. PICK f : f = t + 1
  OBVIOUS
<1>2. PICK skb : skb = skbs[B.skb]
  OBVIOUS
<1>3. /\ n = 0 /\ f \in 1 .. Len(frames) /\ D.len = frames[f].len /\ frames[f].len \in Nat \ {0}
      /\ frames[f].hl \in Nat /\ D.hl = frames[f].hl /\ frames[f].hl <= frames[f].len
      /\ Bytes(f, 1) \in Nat /\ Bytes(f, 2) = Bytes(f, 1) + BufLen
      /\ Bytes(f, 1) = (IF mode = "jumbo" THEN BufLen ELSE Header(f))
      /\ frames[f].len <= Bytes(f, 1) => Count(f, mode) = 1
      /\ Bytes(f, 1) < frames[f].len => Count(f, mode) = 2
      /\ skb \in SkbType /\ skb.frags = <<>>
      /\ skb.put > 0 => D.stamp /\ MaxLates > 0
      /\ D.stamp /\ MaxLates > 0 =>
            /\ frames[f].len <= Copybreak /\ frames[f].len <= HdrSize /\ frames[f].hl = 0
            /\ skb.put + frames[f].len <= Tailroom
  BY <1>1, <1>2, WholeFrame
<1>4. Types /\ Available /\ (mode = "jumbo" \/ mode = "split")
  BY DEF ChainInv, Good, Types
<1>5. /\ Begun(cur_rx, f, n) /\ cur_rx \in Slots /\ D \in DescType /\ B \in BufType /\ Full(B)
  BY <1>1, <1>4, HeadFacts
<1>6. B.page = B.page2 => B.page = 0
  BY <1>5 DEF ChainInv, Distinct, B
<1>7. /\ BufLen \in Nat \ {0} /\ HdrSize \in Nat \ {0} /\ HdrSize < BufLen /\ Copybreak < BufLen
      /\ Copybreak \in Nat /\ B.page \in Nat /\ B.page2 \in Nat
  BY <1>5, Sizes DEF BufType
<1>8. B.page2 # 0 /\ (mode = "jumbo" => B.page # 0)
  BY <1>5, <1>7 DEF Full
<1>9. skb.put \in Nat /\ skb.data \in DataType /\ skb.len \in Nat
  BY <1>3 DEF SkbType
<1>10. Extends(skb, skb, S)
  BY <1>3, PutExtends
<1>11. CASE mode = "jumbo" /\ Copied(skb)
  <2>1. pages[B.page] = <<f, 0 + 1>>
    BY <1>3, <1>5, <1>11 DEF Begun, Holds, B
  <2>2. b2 = B
    BY <1>2, <1>11 DEF WholeConsumed, B
  <2>3. new = [Put(skb, D.len) EXCEPT !.data = pages[B.page]]
    BY <1>2, <1>11 DEF Whole
  <2>4. Put(skb, D.len) = [skb EXCEPT !.put = @ + D.len, !.len = @ + D.len]
    BY DEF Put
  <2>5. skb.put + D.len \in Nat \ {0} /\ skb.len + D.len \in Nat /\ <<f, 0 + 1>> \in DataType
    <3>1. D.len \in Nat \ {0} /\ f \in Nat /\ 0 + 1 \in Nat
      BY <1>3
    <3>2. <<f, 0 + 1>> \in DataType
      BY <3>1 DEF DataType
    <3> QED
      BY <1>9, <3>1, <3>2
  <2>6. /\ new.put = skb.put + D.len /\ new.frags = <<>> /\ new.data = <<f, 0 + 1>> /\ new \in SkbType
    <3>1. Put(skb, D.len) \in SkbType
      BY <1>3, <2>4, <2>5 DEF SkbType
    <3>2. Put(skb, D.len).put = skb.put + D.len /\ Put(skb, D.len).frags = <<>>
      BY <1>3, <2>4 DEF SkbType
    <3> QED
      BY <2>1, <2>3, <2>5, <3>1, <3>2 DEF SkbType
  <2>7. Count(f, mode) = 1
    BY <1>3, <1>7, <1>11 DEF Copied
  <2>8. Reads(new, f, 1)
    BY <2>5, <2>6 DEF Reads, Lead
  <2>9. Extends(skb, new, S)
    BY <2>6 DEF Extends
  <2> QED
    BY <1>1, <1>2, <1>5, <2>2, <2>6, <2>7, <2>8, <2>9
<1>12. CASE mode = "jumbo" /\ ~Copied(skb)
  <2>0. ~(D.stamp /\ MaxLates > 0)
    BY <1>3, <1>12 DEF Copied
  <2>1. skb.put = 0 /\ Lead(skb) = 0 /\ Len(skb.frags) = 0
    BY <1>3, <1>9, <2>0 DEF Lead
  <2>2. Reads(skb, f, 0) /\ 0 = Lead(skb) + Len(skb.frags)
    BY <1>3, <2>1 DEF Reads
  <2>3. b2 = EndConsumed(B, D.len) /\ new = Ended(skb, D.len) /\ D.len \in Nat
    BY <1>2, <1>3, <1>12 DEF WholeConsumed, Whole, B
  <2>4. pages[B.page] = <<f, 0 + 1>> /\ (Bytes(f, 0 + 1) < frames[f].len => pages[B.page2] = <<f, 0 + 2>>)
    BY <1>3, <1>5, <1>12 DEF Begun, Holds, B
  <2>5. /\ new \in SkbType /\ Reads(new, f, 0 + 1)
        /\ D.len > BufLen /\ pages[B.page2] = <<f, 0 + 2>> => Reads(new, f, 0 + 2)
        /\ Extends(skb, new, S)
        /\ b2 \in BufType /\ b2.skb = B.skb /\ b2.page \in {0, B.page} /\ b2.page2 \in {0, B.page2}
    BY <1>3, <1>4, <1>5, <1>6, <1>12, <2>2, <2>3, <2>4, EndedSkb
  <2>6. Reads(new, f, Count(f, mode))
    <3>1. CASE D.len > BufLen
      <4>1. Bytes(f, 0 + 1) < frames[f].len /\ Count(f, mode) = 2
        BY <1>3, <1>7, <1>12, <3>1
      <4>2. Reads(new, f, 0 + 2)
        BY <2>4, <2>5, <3>1, <4>1
      <4> QED
        BY <4>1, <4>2
    <3>2. CASE ~(D.len > BufLen)
      <4>1. Count(f, mode) = 1
        BY <1>3, <1>7, <1>12, <3>2
      <4> QED
        BY <2>5, <4>1
    <3> QED
      BY <3>1, <3>2
  <2> QED
    BY <1>1, <1>2, <1>3, <1>12, <2>0, <2>5, <2>6
<1>13. CASE mode = "split"
  <2>1. HdrLen = frames[f].hl
    <3>1. HdrLen = D.hl
      BY <1>13 DEF HdrLen
    <3> QED
      BY <1>3, <3>1
  <2>2. skb.data = <<f, 1>> /\ (Bytes(f, 1) < frames[f].len => pages[B.page2] = <<f, 2>>)
    BY <1>2, <1>3, <1>5, <1>13 DEF Begun, Holds, B
  <2>3. CASE HdrLen > 0 \/ D.len > HdrSize
    <3>1. PICK hdr : hdr = IF HdrLen > 0 THEN HdrLen ELSE Lesser(HdrSize, D.len)
      OBVIOUS
    <3>2. new = AddPage(Put(skb, hdr), B.page2, D.len - hdr) /\ b2 = Page2(B)
      <4>1. mode # "jumbo"
        BY <1>13
      <4>2. new = AddPage(Put(skb, hdr), B.page2, D.len - hdr)
        BY <1>2, <2>3, <3>1, <4>1 DEF Whole
      <4>3. b2 = Page2(B)
        BY <2>3, <4>1 DEF WholeConsumed
      <4> QED
        BY <4>2, <4>3
    <3>3. hdr = Header(f) /\ hdr \in Nat \ {0} /\ D.len - hdr \in Nat /\ Bytes(f, 1) = hdr
      <4>1. hdr = Header(f)
        BY <1>3, <2>1, <3>1 DEF Header
      <4>2. Header(f) \in Nat \ {0} /\ Header(f) <= frames[f].len
        BY <1>3, <1>4, FrameFacts
      <4>3. Bytes(f, 1) = Header(f)
        BY <1>3, <1>13
      <4> QED
        BY <1>3, <4>1, <4>2, <4>3
    <3>4. PICK one : one = Put(skb, hdr)
      OBVIOUS
    <3>5. one \in SkbType /\ Reads(one, f, 1) /\ 1 = Lead(one) + Len(one.frags) /\ Extends(skb, one, S)
      BY <1>3, <2>2, <3>3, <3>4, ReadsPut, PutExtends
    <3>6. b2 \in BufType /\ b2.skb = B.skb /\ b2.page = B.page /\ b2.page2 = 0
      BY <1>5, <3>2 DEF Page2, BufType
    <3>7. B.page2 \in S
      BY <1>4, <1>6, <1>8, <3>6 DEF Taken
    <3>8. new \in SkbType /\ Reads(new, f, 1)
      BY <1>7, <3>2, <3>3, <3>4, <3>5, ReadsAdd
    <3>9. pages[B.page2] = <<f, 1 + 1>> => Reads(new, f, 1 + 1)
      BY <1>7, <3>2, <3>3, <3>4, <3>5, ReadsAdd, SMTT(30)
    <3>10. Extends(skb, new, S)
      BY <1>7, <3>2, <3>4, <3>5, <3>7, AddExtends
    <3>11. Reads(new, f, Count(f, mode))
      <4>1. CASE Bytes(f, 1) < frames[f].len
        BY <1>3, <2>2, <3>9, <4>1
      <4>2. CASE frames[f].len <= Bytes(f, 1)
        BY <1>3, <3>8, <4>2
      <4> QED
        BY <1>3, <4>1, <4>2
    <3>12. ~(D.stamp /\ MaxLates > 0)
      BY <1>3, <1>7, <2>1, <2>3
    <3> QED
      BY <1>1, <1>2, <3>6, <3>8, <3>10, <3>11, <3>12
  <2>4. CASE ~(HdrLen > 0 \/ D.len > HdrSize)
    <3>1. new = Put(skb, D.len) /\ b2 = B
      <4>1. mode # "jumbo"
        BY <1>13
      <4>2. new = Put(skb, D.len)
        BY <1>2, <2>4, <4>1 DEF Whole
      <4>3. b2 = B
        BY <2>4, <4>1 DEF WholeConsumed
      <4> QED
        BY <4>2, <4>3
    <3>2. new \in SkbType /\ Reads(new, f, 1) /\ new.frags = <<>> /\ Extends(skb, new, S)
      BY <1>3, <2>2, <3>1, ReadsPut, PutExtends
    <3>5. new.put = skb.put + D.len
      <4>1. ASSUME NEW x \in SkbType, NEW y PROVE Put(x, y).put = x.put + y
        BY DEF Put, SkbType
      <4> QED
        BY <1>3, <3>1, <4>1
    <3>3. Header(f) = frames[f].len
      <4>1. frames[f].hl = 0 /\ frames[f].len <= HdrSize
        BY <1>3, <1>7, <2>1, <2>4
      <4> QED
        BY <1>3, <1>7, <4>1 DEF Header, Lesser
    <3>4. Count(f, mode) = 1
      BY <1>3, <1>13, <3>3
    <3> QED
      BY <1>1, <1>2, <1>5, <3>1, <3>2, <3>4, <3>5
  <2> QED
    BY <2>3, <2>4
<1> QED
  BY <1>4, <1>11, <1>12, <1>13

LEMMA RestType ==
    ASSUME Types
    PROVE  Rest \in Nat
<1>1. D.len \in Nat /\ HdrLen \in Nat /\ poll.cnt \in Nat
  BY HdrLenType DEF DescType, PollType
<1>2. U16 \in Nat \ {0} /\ BufLen \in Nat /\ HdrSize \in Nat
  BY Sizes
<1>3. ASSUME NEW x \in Int PROVE x % U16 \in Nat
  BY <1>2
<1>4. PICK before : before \in Nat /\ before = BufLen * poll.cnt
  BY <1>1, <1>2
<1>5. D.len - before - (IF mode = "split" THEN IF HdrLen > 0 THEN HdrLen ELSE HdrSize ELSE 0) \in Int
  BY <1>1, <1>2, <1>4
<1> QED
  BY <1>3, <1>4, <1>5 DEF Rest

LEMMA ChainEndSkb ==
    ASSUME Ordinary, ChainInv, Good, ~D.fd,
           NEW at \in Nat, NEW t \in Nat, NEW n \in Nat, Laid(at, t, n),
           NEW new, new = Ended(skbs[skb_top], Rest), NEW b2, b2 = EndConsumed(B, Rest),
           NEW S, S = Taken(b2)
    PROVE  /\ new \in SkbType /\ Reads(new, t + 1, Count(t + 1, mode))
           /\ Extends(skbs[skb_top], new, S)
           /\ b2 \in BufType /\ b2.skb = B.skb /\ b2.page \in {0, B.page} /\ b2.page2 \in {0, B.page2}
           /\ D.of = t + 1 /\ D.len = frames[t + 1].len /\ ~frames[t + 1].es
           /\ D.stamp => MaxLates = 0
<1>1. PICK f : f = t + 1
  OBVIOUS
<1>2. PICK skb : skb = skbs[skb_top]
  OBVIOUS
<1>3. PICK x \in Nat : x = Rest
  BY RestType DEF ChainInv
<1>4. Types /\ Available /\ ~D.es /\ D.ld /\ (mode = "jumbo" \/ mode = "split")
  BY DEF ChainInv, Good, Types
<1>5. n > 0 /\ skb \in SkbType /\ Reads(skb, f, n) /\ n = Lead(skb) + Len(skb.frags)
  BY <1>1, <1>2, <1>4, TopFacts
<1>6. Begun(cur_rx, f, n) /\ f \in 1 .. Len(frames) /\ B \in BufType /\ Full(B) /\ cur_rx \in Slots
  BY <1>1, <1>4, HeadFacts
<1>7. B.page = B.page2 => B.page = 0
  BY <1>6 DEF ChainInv, Distinct, B
<1>8. /\ n # 1 /\ Bytes(f, n) < frames[f].len /\ frames[f].len <= Bytes(f, n + PerDesc(n))
      /\ D.len = frames[f].len /\ D.of = f /\ ~frames[f].es /\ (D.stamp => frames[f].stamp)
  BY <1>4, <1>6 DEF Begun, Describes, D
<1>9. /\ frames[f].len \in Nat \ {0} /\ frames[f].len <= 3 * BufLen
      /\ frames[f].stamp /\ MaxLates > 0 => frames[f].len <= Copybreak
      /\ Header(f) \in Nat /\ BufLen \in Nat \ {0} /\ Copybreak < BufLen /\ Copybreak \in Nat
      /\ MaxLates \in Nat
  BY <1>4, <1>6, <1>8, FrameFacts, Sizes
<1>10. /\ new \in SkbType /\ Extends(skb, new, S)
       /\ mode = "jumbo" /\ pages[B.page] = <<f, n + 1>> => Reads(new, f, n + 1)
       /\ mode = "split" /\ pages[B.page2] = <<f, n + 1>> => Reads(new, f, n + 1)
       /\ b2 \in BufType /\ b2.skb = B.skb /\ b2.page \in {0, B.page} /\ b2.page2 \in {0, B.page2}
  <2>1. new = Ended(skb, x) /\ b2 = EndConsumed(B, x)
    BY <1>2, <1>3
  <2> QED
    BY <1>4, <1>5, <1>6, <1>7, <2>1, EndedSkb, SMTT(30)
<1>11. Reads(new, f, n + 1)
  <2>1. mode = "jumbo" => pages[B.page] = <<f, n + 1>>
    BY <1>6 DEF Begun, Holds, B
  <2>2. mode = "split" => pages[B.page2] = <<f, n + 1>>
    BY <1>5, <1>6 DEF Begun, Holds, B
  <2> QED
    BY <1>4, <1>10, <2>1, <2>2
<1>12. Count(f, mode) = n + 1 /\ BufLen < frames[f].len
  <2>1. CASE mode = "jumbo"
    <3>1. Bytes(f, n) = BufLen * n
      BY <2>1 DEF Bytes
    <3>2. n = 2
      <4>1. BufLen * n < BufLen * 3
        BY <1>8, <1>9, <3>1
      <4>2. n < 3
        BY <1>9, <4>1
      <4> QED
        BY <1>5, <1>8, <4>2
    <3>3. Bytes(f, 2) < frames[f].len /\ Bytes(f, 2) = BufLen * 2 /\ Bytes(f, 2 + 1) = BufLen * 3
      BY <1>8, <2>1, <3>1, <3>2 DEF Bytes
    <3>4. frames[f].len <= Bytes(f, 2 + 1) /\ BufLen < frames[f].len
      BY <1>9, <3>3
    <3>5. Count(f, mode) = 2 + 1
      BY <1>4, <1>6, <3>3, <3>4, CountIs
    <3> QED
      BY <3>2, <3>4, <3>5
  <2>2. CASE mode = "split"
    <3>1. PerDesc(n) = 1
      BY <1>5, <2>2 DEF PerDesc
    <3>2. Count(f, mode) = n + 1
      BY <1>4, <1>6, <1>8, <3>1, CountIs
    <3>3. Bytes(f, n) = Header(f) + BufLen * (n - 1)
      BY <1>5, <2>2 DEF Bytes
    <3>4. BufLen * (n - 1) >= BufLen
      <4>1. PICK m \in Nat : n - 1 = m + 1
        <5>1. n - 2 \in Nat /\ n - 1 = (n - 2) + 1
          BY <1>5, <1>8
        <5> QED
          BY <5>1
      <4>2. BufLen * (m + 1) = BufLen * m + BufLen /\ BufLen * m \in Nat
        BY <1>9
      <4> QED
        BY <1>9, <4>1, <4>2
    <3>5. BufLen * (n - 1) \in Int
      BY <1>9
    <3> QED
      BY <1>8, <1>9, <3>2, <3>3, <3>4, <3>5
  <2> QED
    BY <1>4, <2>1, <2>2
<1>13. D.stamp => MaxLates = 0
  BY <1>8, <1>9, <1>12
<1> QED
  BY <1>1, <1>2, <1>8, <1>10, <1>11, <1>12, <1>13

\* The skb that holds the frame now, and what is left of the descriptor.
LEMMA CompleteFacts ==
    ASSUME Ordinary, ChainInv, Good,
           NEW at \in Nat, NEW t \in Nat, NEW n \in Nat, Laid(at, t, n),
           NEW s, s = Complete.skb, NEW new, new = Complete.new,
           NEW b2, b2 = Complete.left, NEW S, S = Taken(b2)
    PROVE  /\ new \in SkbType /\ Reads(new, t + 1, Count(t + 1, mode))
           /\ s \in DOMAIN skbs /\ s # 0 /\ Extends(skbs[s], new, S)
           /\ s = IF D.fd THEN B.skb ELSE skb_top
           /\ s \notin Given
           /\ b2 \in BufType /\ b2.skb \in {0, B.skb} /\ b2.skb # s
           /\ b2.page \in {0, B.page} /\ b2.page2 \in {0, B.page2}
           /\ D.of = t + 1 /\ D.len = frames[t + 1].len /\ ~frames[t + 1].es
           /\ D.stamp /\ MaxLates > 0 =>
                 /\ D.fd /\ new.frags = <<>> /\ new.put = skbs[s].put + D.len
                 /\ skbs[s].put <= dma.lates * D.len
                 /\ [b2 EXCEPT !.skb = s] = B
<1>1. Types /\ Available /\ Apart
  BY DEF ChainInv, Good
<1>2. /\ cur_rx \in Slots /\ B \in BufType /\ B.skb \in 1 .. Len(skbs) /\ MaxLates \in Nat
      /\ t + 1 \in 1 .. Len(frames)
  BY <1>1, HeadFacts, Sizes
<1>3. CASE D.fd
  <2>1. PICK b1 : b1 = WholeConsumed(B)
    OBVIOUS
  <2>2. s = B.skb /\ new = Whole(skbs[B.skb]) /\ b2 = NoSkb(b1)
    BY <1>3, <2>1 DEF Complete
  <2>3. PICK S1 : S1 = Taken(b1)
    OBVIOUS
  <2>4. /\ new \in SkbType /\ Reads(new, t + 1, Count(t + 1, mode))
        /\ Extends(skbs[B.skb], new, S1)
        /\ b1 \in BufType /\ b1.skb = B.skb /\ b1.page \in {0, B.page} /\ b1.page2 \in {0, B.page2}
        /\ D.stamp /\ MaxLates > 0 => b1 = B /\ new.frags = <<>> /\ new.put = skbs[B.skb].put + D.len
    BY <1>3, <2>1, <2>2, <2>3, WholeSkb
  <2>5. b2.skb = 0 /\ b2.page = b1.page /\ b2.page2 = b1.page2 /\ b2 \in BufType /\ S1 = S
        /\ [b2 EXCEPT !.skb = b1.skb] = b1
    <3>1. b2 = [skb |-> 0, page |-> b1.page, page2 |-> b1.page2]
      BY <2>2, <2>4 DEF NoSkb, BufType
    <3>2. b1 = [skb |-> b1.skb, page |-> b1.page, page2 |-> b1.page2]
      BY <2>4 DEF BufType
    <3>3. b1.page \in Nat /\ b1.page2 \in Nat
      BY <2>4 DEF BufType
    <3>4. b2 \in BufType
      BY <3>1, <3>3 DEF BufType
    <3>5. [b2 EXCEPT !.skb = b1.skb] = b1
      BY <3>1, <3>2
    <3>6. b2.skb = 0 /\ b2.page = b1.page /\ b2.page2 = b1.page2
      BY <3>1
    <3>7. S1 = S
      BY <2>3, <3>6 DEF Taken
    <3> QED
      BY <3>4, <3>5, <3>6, <3>7
  <2>6. s \in DOMAIN skbs /\ s # 0
    BY <1>1, <1>2, <2>2 DEF Types
  <2>7. s \notin Given
    BY <1>1, <1>2, <2>2 DEF Apart, Held, B
  <2>8. D.of = t + 1 /\ D.len = frames[t + 1].len /\ ~frames[t + 1].es /\ (D.stamp => frames[t + 1].stamp)
    <3>1. PICK f : f = t + 1
      OBVIOUS
    <3>2. D.of = f /\ D.len = frames[f].len /\ ~frames[f].es /\ (D.stamp => frames[f].stamp)
      BY <1>3, <3>1, WholeFrame
    <3> QED
      BY <3>1, <3>2
  <2>9. ASSUME D.stamp, MaxLates > 0
        PROVE  /\ new.frags = <<>> /\ [b2 EXCEPT !.skb = s] = B
               /\ new.put = skbs[s].put + D.len /\ skbs[s].put <= dma.lates * D.len
    <3>1. skbs[B.skb].put <= dma.lates * D.len
      BY <1>3, <2>8, <2>9, WholeFrame
    <3>2. b1 = B /\ new.frags = <<>> /\ s = b1.skb /\ new.put = skbs[B.skb].put + D.len
      BY <2>2, <2>4, <2>9
    <3> QED
      BY <2>2, <2>5, <3>1, <3>2
  <2>10. Extends(skbs[s], new, S)
    BY <2>2, <2>4, <2>5
  <2>11. b2.skb \in {0, B.skb} /\ b2.skb # s /\ b2.page \in {0, B.page} /\ b2.page2 \in {0, B.page2}
    BY <2>4, <2>5, <2>6
  <2> QED
    BY <1>3, <2>2, <2>4, <2>5, <2>6, <2>7, <2>8, <2>9, <2>10, <2>11
<1>4. CASE ~D.fd
  <2>1. s = skb_top /\ new = Ended(skbs[skb_top], Rest) /\ b2 = EndConsumed(B, Rest)
    BY <1>4 DEF Complete
  <2>2. /\ new \in SkbType /\ Reads(new, t + 1, Count(t + 1, mode))
        /\ Extends(skbs[skb_top], new, S)
        /\ b2 \in BufType /\ b2.skb = B.skb /\ b2.page \in {0, B.page} /\ b2.page2 \in {0, B.page2}
        /\ D.of = t + 1 /\ D.len = frames[t + 1].len /\ ~frames[t + 1].es
        /\ D.stamp => MaxLates = 0
    BY <1>4, <2>1, ChainEndSkb
  <2>3. s \in DOMAIN skbs /\ s # 0 /\ s # B.skb /\ s \notin Given
    BY <1>1, <1>4, <2>1, TopFacts
  <2>4. ~(D.stamp /\ MaxLates > 0)
    BY <1>2, <2>2
  <2> QED
    BY <1>4, <2>1, <2>2, <2>3, <2>4
<1> QED
  BY <1>3, <1>4

\* The next frame that is accounted for is delivered.
LEMMA OrderedAdds ==
    ASSUME Types, Ordered, UNCHANGED <<frames, gone>>,
           NEW got \in GotType, delivered' = Append(delivered, got),
           NEW t \in Nat, got.of = t + 1, Settled(t), t + 1 \in 1 .. Len(frames), ~frames[t + 1].es
    PROVE  Ordered' /\ Settled(t + 1)'
<1>1. /\ delivered \in Seq(GotType) /\ Len(delivered) \in Nat /\ DOMAIN delivered = 1 .. Len(delivered)
      /\ DOMAIN delivered' = 1 .. Len(delivered) + 1 /\ Len(delivered') = Len(delivered) + 1
      /\ Len(frames) \in Nat
  BY DEF Types
<1>2. /\ delivered'[Len(delivered) + 1] = got
      /\ \A m \in 1 .. Len(delivered) : delivered'[m] = delivered[m]
  BY <1>1
<1>3. LastOf' = t + 1
  <2>1. delivered' # <<>>
    BY <1>1
  <2> QED
    BY <1>1, <1>2, <2>1 DEF LastOf
<1>4. Settled(t + 1)'
  <2>1. \A h \in (t + 1) + 1 .. t + 1 : FALSE
    OBVIOUS
  <2> QED
    BY <1>3, <2>1 DEF Settled
<1>5. \A m \in DOMAIN delivered' : ~frames'[delivered'[m].of].es
  <2> SUFFICES ASSUME NEW m \in DOMAIN delivered' PROVE ~frames[delivered'[m].of].es
    OBVIOUS
  <2>1. CASE m = Len(delivered) + 1
    BY <1>2, <2>1
  <2>2. CASE m \in 1 .. Len(delivered)
    BY <1>1, <1>2, <2>2 DEF Ordered
  <2> QED
    BY <1>1, <2>1, <2>2
<1>6. ASSUME NEW m \in 1 .. Len(delivered) PROVE delivered[m].of \in Nat /\ delivered[m].of <= t
  <2>1. \A k \in 1 .. Len(delivered) : delivered[k].of \in Nat
    <3>1. \A k \in 1 .. Len(delivered) : delivered[k] \in GotType
      BY <1>1
    <3> QED
      BY <3>1 DEF GotType
  <2>2. PICK last : last = Len(delivered)
    OBVIOUS
  <2>3. m \in Nat /\ last \in Nat /\ last \in 1 .. Len(delivered) /\ m <= last
    BY <1>1, <1>6, <2>2
  <2>4. LastOf = delivered[last].of
    <3>1. delivered # <<>>
      BY <1>1, <2>2, <2>3
    <3> QED
      BY <2>2, <3>1 DEF LastOf
  <2>5. m = last \/ delivered[m].of < delivered[last].of
    <3>1. m = last \/ m < last
      BY <2>3
    <3> QED
      BY <1>1, <1>6, <2>3, <3>1 DEF Ordered
  <2>6. LastOf <= t
    BY DEF Settled
  <2> QED
    BY <1>6, <2>1, <2>3, <2>4, <2>5, <2>6
<1>7. ASSUME NEW m \in DOMAIN delivered', NEW n \in DOMAIN delivered', m < n
      PROVE  delivered'[m].of < delivered'[n].of
  <2>1. m \in 1 .. Len(delivered)
    BY <1>1, <1>7
  <2>2. CASE n = Len(delivered) + 1
    BY <1>2, <1>6, <2>1, <2>2
  <2>3. CASE n \in 1 .. Len(delivered)
    BY <1>1, <1>2, <1>7, <2>1, <2>3 DEF Ordered
  <2> QED
    BY <1>1, <2>2, <2>3
<1>8. ASSUME NEW h \in 1 .. LastOf' PROVE Accounted(h)'
  <2>1. h \in Nat /\ (h = t + 1 \/ h \in 1 .. LastOf \/ h \in LastOf + 1 .. t)
    BY <1>1, <1>3, LastOfType
  <2>2. CASE h = t + 1
    <3>1. Len(delivered) + 1 \in DOMAIN delivered' /\ delivered'[Len(delivered) + 1].of = h
      BY <1>1, <1>2, <2>2
    <3> QED
      BY <3>1 DEF Accounted
  <2>3. CASE h \in LastOf + 1 .. t
    BY <2>3 DEF Settled, Accounted
  <2>4. CASE h \in 1 .. LastOf
    <3>1. Accounted(h)
      BY <2>4 DEF Ordered
    <3> QED
      BY <1>1, <1>2, <3>1 DEF Accounted
  <2> QED
    BY <2>1, <2>2, <2>3, <2>4
<1> QED
  BY <1>4, <1>5, <1>7, <1>8 DEF Ordered

LEMMA GoodStep ==
    ASSUME Ordinary, ChainInv, RxGood
    PROVE  ChainInv'
<1>1. PICK at \in Nat, t \in Nat, n \in Nat : Laid(at, t, n)
  BY DEF ChainInv, LaidOut
<1>2. Good /\ Available /\ pc = "loop" /\ D.ld /\ ~D.es /\ (D.stamp => StampReady) /\ ~D.own
  BY DEF RxGood, Good, Available, D
<1>3. /\ Types /\ Counts /\ Stock /\ Distinct(buf) /\ Apart /\ Clean /\ Channel /\ GivenWhole /\ Ordered /\ Once
  BY DEF ChainInv
<1>4. /\ cur_rx \in Slots /\ B \in BufType /\ D \in DescType /\ Begun(cur_rx, t + 1, n)
      /\ t + 1 \in 1 .. Len(frames) /\ (n = 0 <=> skb_top = 0) /\ Full(B)
      /\ B.page2 \in 1 .. Len(pages) /\ (mode = "jumbo" => B.page \in 1 .. Len(pages))
      /\ (mode = "split" => B.page = 0)
  BY <1>1, <1>2, HeadFacts
<1>5. D.fd <=> n = 0
  BY <1>4 DEF Begun, Describes, D
<1>6. PICK s, new, b2 : s = Complete.skb /\ new = Complete.new /\ b2 = Complete.left
  OBVIOUS
<1>7. PICK S : S = Taken(b2)
  OBVIOUS
<1>8. /\ new \in SkbType /\ Reads(new, t + 1, Count(t + 1, mode))
      /\ s \in DOMAIN skbs /\ s # 0 /\ Extends(skbs[s], new, S)
      /\ s = (IF D.fd THEN B.skb ELSE skb_top)
      /\ s \notin Given
      /\ b2 \in BufType /\ b2.skb \in {0, B.skb} /\ b2.skb # s
      /\ b2.page \in {0, B.page} /\ b2.page2 \in {0, B.page2}
      /\ D.of = t + 1 /\ D.len = frames[t + 1].len /\ ~frames[t + 1].es
  BY <1>1, <1>2, <1>6, <1>7, CompleteFacts
<1>9. PICK got : got = [of |-> D.of, len |-> D.len, skb |-> s, mode |-> mode]
  OBVIOUS
<1>10. /\ UNCHANGED <<mode, desc, skb_realloc_idx, pages, dma, frames, gone, lost>>
       /\ skb_top' = (IF D.fd THEN skb_top ELSE 0)
       /\ skbs' = [skbs EXCEPT ![s] = new] /\ buf' = [buf EXCEPT ![cur_rx] = b2]
       /\ delivered' = Append(delivered, got)
  BY <1>6, <1>9 DEF RxGood, wire
<1>11. skb_top' = 0
  BY <1>4, <1>5, <1>10
<1>12. PICK k \in {1, 2} : k = IF D.stamp THEN 2 ELSE 1
  OBVIOUS
<1>13. /\ Moves(k) /\ Counts'
       /\ pc' \in {"loop", "refill"} /\ poll' \in PollType /\ cur_rx' \in Slots
       /\ dirty_rx' \in 0 .. MIN_RX_DESC_CNT + 1
  <2>1. NextDescriptor(poll.received + 1, 0, 0, k)
    BY <1>12 DEF RxGood
  <2>2. poll.received \in 0 .. Quota /\ poll.received < Quota
    BY <1>2, <1>3 DEF Types, PollType, Available
  <2>3. poll.received + 1 \in 0 .. Quota
    BY <2>2, Sizes
  <2> QED
    BY <1>2, <1>3, <1>10, <2>1, <2>3, NextMoves
<1>14. got \in GotType /\ got.of = t + 1 /\ got.skb = s /\ got.mode = mode
  <2>1. s \in Nat /\ D.of \in Nat /\ D.len \in Nat /\ mode \in {"jumbo", "split"}
    <3>1. s \in Nat /\ mode \in {"jumbo", "split"}
      BY <1>3, <1>8 DEF Types
    <3>2. D.of \in Nat /\ D.len \in Nat
      BY <1>4 DEF DescType
    <3> QED
      BY <3>1, <3>2
  <2> QED
    BY <1>8, <1>9, <2>1 DEF GotType
<1>15. /\ DOMAIN delivered = 1 .. Len(delivered) /\ Len(delivered) \in Nat
       /\ DOMAIN delivered' = 1 .. Len(delivered) + 1
       /\ delivered'[Len(delivered) + 1] = got /\ delivered' \in Seq(GotType)
       /\ \A m \in 1 .. Len(delivered) : delivered'[m] = delivered[m]
  BY <1>3, <1>10, <1>14 DEF Types
<1>16. Given' = Given \cup {s} /\ 0 \notin Given' /\ Held' \subseteq Held \cup {s}
  <2>1. Given' = Given \cup {s}
    <3>1. Given' \subseteq Given \cup {s}
      BY <1>14, <1>15 DEF Given
    <3>2. s \in Given'
      <4>1. Len(delivered) + 1 \in DOMAIN delivered' /\ delivered'[Len(delivered) + 1].skb = s
        BY <1>14, <1>15
      <4> QED
        BY <4>1 DEF Given
    <3>3. Given \subseteq Given'
      BY <1>15 DEF Given
    <3> QED
      BY <3>1, <3>2, <3>3
  <2>2. 0 \notin Given
    <3>1. 0 \notin DOMAIN skbs
      BY <1>3 DEF Types
    <3> QED
      BY <1>3, <3>1 DEF Apart, Held
  <2> QED
    BY <1>8, <1>11, <2>1, <2>2 DEF Held
<1>17. Gives(s, new, b2, S)
  <2>1. s = B.skb \/ (s = skb_top /\ skb_top # 0)
    BY <1>8
  <2>2. \A x \in S : x \in DOMAIN pages /\ x \in {B.page, B.page2} /\ x # b2.page /\ x # b2.page2
    BY <1>3, <1>4, <1>7 DEF Types, Taken
  <2>3. OneMore(skbs[s], new) /\ B.page # B.page2
    <3>1. skbs[s] \in SkbType
      BY <1>3, <1>8 DEF Types
    <3>2. new = Whole(skbs[s]) \/ new = Ended(skbs[s], Rest)
      BY <1>6, <1>8 DEF Complete
    <3>3. OneMore(skbs[s], new)
      BY <3>1, <3>2, StepsAdd
    <3>4. B.page # B.page2
      BY <1>4, PagesDiffer
    <3> QED
      BY <3>3, <3>4
  <2> QED
    BY <1>2, <1>4, <1>8, <1>10, <1>11, <1>16, <2>1, <2>2, <2>3 DEF Gives
<1>18. /\ Stock' /\ Distinct(buf)' /\ Apart' /\ Clean' /\ Channel' /\ GivenStays /\ PagesOnce'
       /\ \A i \in Slots : i # cur_rx => SlotStays(i)
  BY <1>10, <1>13, <1>17, GiveStep
<1>19. /\ skbs' \in Seq(SkbType) /\ Len(skbs') = Len(skbs) /\ skbs'[s] = new /\ buf' \in [Slots -> BufType]
  BY <1>3, <1>17, GivesHeap
<1>20. Types'
  <2>1. 0 \in 0 .. Len(skbs)
    BY <1>3 DEF Types
  <2> QED
    BY <1>3, <1>10, <1>11, <1>13, <1>15, <1>19, <2>1 DEF Types
<1>21. FramesGrow
  BY <1>3, <1>10 DEF FramesGrow, Types
<1>22. Settled(t)
  BY <1>1 DEF Laid
<1>23. Ordered' /\ Settled(t + 1)' /\ Once'
  <2>1. SkbsOnce'
    <3> SUFFICES ASSUME NEW m \in DOMAIN delivered', NEW q \in DOMAIN delivered', delivered'[m].skb = delivered'[q].skb
                 PROVE  m = q
      BY DEF SkbsOnce
    <3>1. \A k2 \in 1 .. Len(delivered) : delivered[k2].skb # s
      BY <1>8, <1>15 DEF Given
    <3>2. CASE m \in 1 .. Len(delivered) /\ q \in 1 .. Len(delivered)
      BY <1>3, <1>15, <3>2 DEF Once, SkbsOnce
    <3>3. CASE m = Len(delivered) + 1 \/ q = Len(delivered) + 1
      BY <1>14, <1>15, <3>1, <3>3
    <3> QED
      BY <1>15, <3>2, <3>3
  <2> QED
    BY <1>3, <1>4, <1>8, <1>10, <1>14, <1>18, <1>22, <2>1, OrderedAdds DEF Once
<1>24. GivenWhole'
  <2> SUFFICES ASSUME NEW m \in DOMAIN delivered'
               PROVE  (LET d == delivered[m]
                       IN  d.of \in 1 .. Len(frames) /\ Reads(skbs[d.skb], d.of, Count(d.of, d.mode)))'
    BY DEF GivenWhole
  <2>1. CASE m = Len(delivered) + 1
    <3>1. PICK c : c = Count(t + 1, mode)
      OBVIOUS
    <3>2. Count(t + 1, mode)' = Count(t + 1, mode) /\ mode' = mode
      BY <1>10 DEF Count, Lesser
    <3>3. Reads(new, t + 1, c)'
      BY <1>8, <1>10, <3>1 DEF Reads, Lead
    <3>4. delivered'[m] = got
      BY <1>15, <2>1
    <3>5. Count(got.of, got.mode)' = c
      BY <1>10, <1>14, <3>1 DEF Count, Lesser
    <3> QED
      BY <1>4, <1>10, <1>14, <1>19, <3>3, <3>4, <3>5
  <2>2. CASE m \in 1 .. Len(delivered)
    <3>1. PICK d : d = delivered[m]
      OBVIOUS
    <3>2. SkbStays(d.skb) /\ delivered'[m] = d
      BY <1>15, <1>18, <2>2, <3>1 DEF GivenStays
    <3>3. d.of \in 1 .. Len(frames') /\ Reads(skbs[d.skb], d.of, Count(d.of, d.mode))'
      BY <1>3, <1>15, <1>20, <1>21, <2>2, <3>1, <3>2, WholeStays
    <3> QED
      BY <3>2, <3>3
  <2> QED
    BY <1>15, <2>1, <2>2
<1>25. LaidOut'
  <2>1. PICK b : b = Advance(cur_rx, k)
    OBVIOUS
  <2>2. PICK at2 : at2 = at - k
    OBVIOUS
  <2>3. PICK room : room = Room - k
    OBVIOUS
  <2>4. /\ b \in Slots /\ at2 \in Nat /\ room \in Nat /\ at2 <= room
        /\ Handed(b, at2, room) /\ Linked(b, at2) /\ PartAt(b, at2, 0, t + 1, 0)
    <3>1. CASE D.stamp
      <4>1. k = 2
        BY <1>12, <3>1
      <4> QED
        BY <1>1, <1>2, <2>1, <2>2, <2>3, <3>1, <4>1, PassTwo
    <3>2. CASE ~D.stamp
      <4>1. k = 1
        BY <1>12, <3>2
      <4> QED
        BY <1>1, <1>2, <2>1, <2>2, <2>3, <3>2, <4>1, PassOne
    <3> QED
      BY <3>1, <3>2
  <2>5. Collected((t + 1) + 1, 0)'
    BY <1>11 DEF Collected
  <2>6. t + 1 \in Nat /\ UNCHANGED <<desc, dma, frames, mode>>
    BY <1>10
  <2> QED
    BY <1>3, <1>13, <1>18, <1>20, <1>23, <2>1, <2>3, <2>4, <2>5, <2>6, LaidMoved
<1> QED
  BY <1>13, <1>18, <1>20, <1>23, <1>24, <1>25 DEF ChainInv

\* The poll is at the same descriptor, and place at2 is the DMA's now.
LEMMA LaidKept ==
    ASSUME Types, Types', Counts, FramesStay, Channel,
           NEW at \in Nat, NEW t \in Nat, NEW n \in Nat, Laid(at, t, n),
           NEW b, b = Coming, Coming' = b, NEW room \in Nat, Room' = room,
           NEW at2 \in Nat, at <= at2, at2 <= room, room <= RX_DESC_CNT,
           \A q \in 0 .. at - 1 : SlotStays(Advance(b, q)),
           Due(b, at, at2), \A q \in at .. at2 - 1 : Followed(b, at2, q)',
           Handed(b, at2, room)', Settled(t)', Collected(t + 1, n)'
    PROVE  LaidOut'
<1>1. b \in Slots /\ at <= RX_DESC_CNT /\ RX_DESC_CNT \in Nat
  BY Ground, Sizes
<1>2. PartAt(b, at, 0, t, n) /\ Linked(b, at) /\ 0 \in 0 .. at
  BY DEF Laid
<1>3. PartAt(b, at2, 0, t, n)'
  BY <1>1, <1>2, PartStays
<1>4. \A i \in Slots : desc[i].of <= Len(frames)
  BY DEF Channel
<1>5. Linked(b, at2)'
  BY <1>1, <1>2, <1>4, LinkedStays
<1>6. Laid(at2, t, n)'
  BY <1>3, <1>5 DEF Laid
<1> QED
  BY <1>6 DEF LaidOut

LEMMA CollectedStays ==
    ASSUME NEW f, NEW n, Collected(f, n), skb_top' = skb_top,
           skb_top # 0 => SkbStays(skb_top)
    PROVE  Collected(f, n)'
<1>1. CASE skb_top = 0
  BY <1>1 DEF Collected
<1>2. CASE skb_top # 0
  <2>1. PICK s : s = skb_top
    OBVIOUS
  <2>2. SkbStays(s) /\ s' = s /\ skbs'[s] = skbs[s]
    BY <1>2, <2>1 DEF SkbStays
  <2>3. n > 0 => Reads(skbs[s], f, n)'
    BY <2>1, <2>2, ReadsStays DEF Collected
  <2>4. n > 0 => n = Lead(skbs'[s]) + Len(skbs'[s].frags)
    BY <2>1, <2>2 DEF Collected
  <2>5. n > 0 => (n = Lead(skbs[s]) + Len(skbs[s].frags))'
    BY <2>4 DEF Lead
  <2> QED
    BY <1>2, <2>1, <2>3, <2>5 DEF Collected
<1> QED
  BY <1>1, <1>2

LEMMA LoopEndsFacts ==
    ASSUME Types, Counts, pc = "loop", LoopEnds(dirty_rx),
           UNCHANGED <<cur_rx, dirty_rx, skb_realloc_idx, lost>>
    PROVE  /\ Coming' = Coming /\ Room' = Room /\ Counts'
           /\ pc' \in {"idle", "refill"} /\ poll' \in PollType
<1>1. /\ Coming = cur_rx /\ Behind = lost + dirty_rx /\ lost \in Nat /\ dirty_rx \in Nat /\ poll \in PollType
      /\ Coming = Advance(skb_realloc_idx, Behind)
  BY Ground DEF Types, Counts
<1>2. CASE dirty_rx > 0
  <2>1. pc' = "refill" /\ poll' = [poll EXCEPT !.i = 0, !.then = "idle"]
    BY <1>2 DEF LoopEnds
  <2>2. poll' \in PollType /\ poll'.i = 0 /\ poll'.then = "idle"
    BY <1>1, <2>1 DEF PollType
  <2>3. Coming' = cur_rx /\ Behind' = lost + dirty_rx
    BY <1>1, <2>1, <2>2 DEF Coming, Behind
  <2>4. Room' = Room
    BY <1>1, <2>3 DEF Room
  <2>5. (Coming = Advance(skb_realloc_idx, Behind))'
    BY <1>1, <2>3 DEF Advance
  <2> QED
    BY <1>1, <2>1, <2>2, <2>3, <2>4, <2>5 DEF Counts
<1>3. CASE ~(dirty_rx > 0)
  <2>1. pc' = "idle" /\ poll' = poll /\ dirty_rx = 0
    BY <1>1, <1>3 DEF LoopEnds
  <2>3. Coming' = cur_rx /\ Behind' = lost + dirty_rx
    BY <1>1, <2>1 DEF Coming, Behind
  <2>4. Room' = Room
    BY <1>1, <2>3 DEF Room
  <2>5. (Coming = Advance(skb_realloc_idx, Behind))'
    BY <1>1, <2>3 DEF Advance
  <2> QED
    BY <1>1, <2>1, <2>3, <2>4, <2>5 DEF Counts
<1> QED
  BY <1>2, <1>3

\* A step of the poll that leaves the ring, the heap and the DMA as they are.
LEMMA QuietStep ==
    ASSUME ChainInv, Types', Counts', Coming' = Coming, Room' = Room,
           UNCHANGED <<mode, desc, buf, skbs, pages, skb_top, dma, frames, gone, delivered>>
    PROVE  ChainInv'
<1>1. /\ Types /\ Counts /\ Stock /\ Distinct(buf) /\ Apart /\ Clean /\ Channel /\ GivenWhole /\ Ordered /\ Once
  BY DEF ChainInv
<1>2. PICK at \in Nat, t \in Nat, n \in Nat : Laid(at, t, n)
  BY DEF ChainInv, LaidOut
<1>3. FramesStay /\ FramesGrow
  BY <1>1 DEF FramesStay, FramesGrow, Types
<1>4. GivenWhole' /\ Ordered' /\ Once'
  BY <1>1, <1>3, HeapSame, HeldSame, GivenWholeStays, OrderedStays, OnceStays
<1>5. PICK b, room : b = Coming /\ room = Room
  OBVIOUS
<1>6. b \in Slots /\ room \in Nat /\ room <= RX_DESC_CNT /\ at <= room
  BY <1>1, <1>2, <1>5, Ground, Sizes DEF Laid
<1>7. Stock'
  <2> SUFFICES ASSUME NEW p \in 0 .. Room' - 1 PROVE Full(buf[Advance(Coming, p)])'
    BY <1>1 DEF Stock
  <2>1. Full(buf[Advance(b, p)])
    BY <1>1, <1>5 DEF Stock
  <2>2. Full(buf[Advance(b, p)])'
    BY <2>1 DEF Full, Advance
  <2> QED
    BY <1>5, <2>2 DEF Full
<1>8. Distinct(buf)' /\ Apart' /\ Clean' /\ Channel'
  <2>1. Distinct(buf)'
    BY <1>1 DEF Distinct
  <2>2. Given' = Given /\ Held' = Held
    BY DEF Given, Held
  <2>3. Apart'
    BY <1>1, <2>2 DEF Apart, Out
  <2>4. Clean'
    BY <1>1 DEF Clean, Waits, Late
  <2> QED
    BY <1>1, <2>1, <2>3, <2>4, ChannelSame
<1>9. LaidOut'
  <2>1. Settled(t)'
    BY <1>1, <1>2, <1>3, SettledStays DEF Laid
  <2>2. Collected(t + 1, n)'
    BY <1>2, HeapSame, CollectedStays DEF Laid
  <2>3. \A q \in 0 .. at - 1 : SlotStays(Advance(b, q))
    BY HeapSame DEF SlotStays
  <2>4. Due(b, at, at) /\ \A q \in at .. at - 1 : Followed(b, at, q)'
    BY DueSame
  <2>5. Handed(b, at, room)'
    <3>1. Handed(b, at, room)
      BY <1>2, <1>5 DEF Laid
    <3> QED
      BY <3>1 DEF Handed, Advance
  <2> QED
    BY <1>1, <1>2, <1>3, <1>5, <1>6, <2>1, <2>2, <2>3, <2>4, <2>5, LaidKept
<1> QED
  BY <1>1, <1>4, <1>7, <1>8, <1>9 DEF ChainInv

LEMMA StartStep ==
    ASSUME ChainInv, PollStart
    PROVE  ChainInv'
<1>1. Types /\ Counts
  BY DEF ChainInv
<1>2. /\ UNCHANGED <<mode, desc, buf, skbs, pages, skb_top, dma, frames, gone, delivered>>
      /\ UNCHANGED <<cur_rx, dirty_rx, skb_realloc_idx, lost>>
      /\ pc = "idle" /\ pc' = "loop" /\ poll' = [poll EXCEPT !.received = 0, !.cnt = 0, !.hdr = 0]
  BY DEF PollStart, ring, heap, wire
<1>3. poll' \in PollType
  <2>1. 0 \in 0 .. Quota /\ poll \in PollType
    BY <1>1, Sizes DEF Types
  <2> QED
    BY <1>2, <2>1 DEF PollType
<1>4. Types'
  BY <1>1, <1>2, <1>3 DEF Types
<1>5. Coming' = Coming /\ Behind' = Behind /\ Room' = Room
  BY <1>1, <1>2 DEF Coming, Behind, Room
<1>6. Counts'
  <2>1. (Coming = Advance(skb_realloc_idx, Behind))'
    BY <1>1, <1>2, <1>5 DEF Counts, Advance
  <2> QED
    BY <1>1, <1>2, <2>1, Sizes DEF Counts
<1> QED
  BY <1>2, <1>4, <1>5, <1>6, QuietStep

LEMMA EndStep ==
    ASSUME ChainInv, RxEnd
    PROVE  ChainInv'
<1>1. Types /\ Counts
  BY DEF ChainInv
<1>2. /\ UNCHANGED <<mode, desc, buf, skbs, pages, skb_top, dma, frames, gone, delivered>>
      /\ UNCHANGED <<cur_rx, dirty_rx, skb_realloc_idx, lost>> /\ pc = "loop" /\ LoopEnds(dirty_rx)
  BY DEF RxEnd, ring, heap, wire
<1>3. /\ Coming' = Coming /\ Room' = Room /\ Counts'
      /\ pc' \in {"idle", "refill"} /\ poll' \in PollType
  BY <1>1, <1>2, LoopEndsFacts
<1>4. Types'
  BY <1>1, <1>2, <1>3 DEF Types
<1> QED
  BY <1>2, <1>3, <1>4, QuietStep

LEMMA LateStep ==
    ASSUME Ordinary, ChainInv, RxLate
    PROVE  ChainInv'
<1>1. PICK at \in Nat, t \in Nat, n \in Nat : Laid(at, t, n)
  BY DEF ChainInv, LaidOut
<1>2. /\ Good /\ Available /\ pc = "loop" /\ D.ld /\ ~D.es /\ ~D.own /\ D.stamp
      /\ dma.lates < MaxLates
  BY DEF RxLate, Good, Available, D
<1>3. /\ Types /\ Counts /\ Stock /\ Distinct(buf) /\ Apart /\ Clean /\ Channel /\ GivenWhole /\ Ordered /\ Once
  BY DEF ChainInv
<1>4. /\ cur_rx \in Slots /\ B \in BufType /\ D \in DescType /\ Begun(cur_rx, t + 1, n)
      /\ t + 1 \in 1 .. Len(frames) /\ (n = 0 <=> skb_top = 0)
  BY <1>1, <1>2, HeadFacts
<1>5. MaxLates > 0 /\ dma \in DmaType /\ dma.lates \in Nat
  <2>1. dma \in DmaType /\ dma.lates \in Nat
    BY <1>3 DEF Types, DmaType
  <2> QED
    BY <1>2, <2>1, Sizes
<1>6. PICK s, new, b2 : s = Complete.skb /\ new = Complete.new /\ b2 = Complete.left
  OBVIOUS
<1>7. /\ new \in SkbType /\ s \in DOMAIN skbs /\ s # 0 /\ s \notin Given
      /\ D.fd /\ s = B.skb /\ new.frags = <<>> /\ [b2 EXCEPT !.skb = s] = B
      /\ new.put = skbs[s].put + D.len /\ skbs[s].put <= dma.lates * D.len
  <2>1. PICK S : S = Taken(b2)
    OBVIOUS
  <2> QED
    BY <1>1, <1>2, <1>5, <1>6, <2>1, CompleteFacts
<1>8. /\ UNCHANGED <<mode, desc, pages, frames, gone, delivered>>
      /\ UNCHANGED <<cur_rx, dirty_rx, skb_realloc_idx, lost>>
      /\ skb_top' = skb_top /\ skbs' = [skbs EXCEPT ![s] = new] /\ LoopEnds(dirty_rx)
      /\ dma' = [dma EXCEPT !.lates = @ + 1]
  BY <1>6, <1>7 DEF RxLate, ring
<1>9. buf' = buf
  <2>1. buf' = [buf EXCEPT ![cur_rx] = [b2 EXCEPT !.skb = s]]
    BY <1>6 DEF RxLate
  <2>2. buf' = [buf EXCEPT ![cur_rx] = buf[cur_rx]]
    BY <1>7, <2>1 DEF B
  <2> QED
    BY <1>3, <2>2 DEF Types
<1>10. /\ dma'.idx = dma.idx /\ dma'.left = dma.left /\ dma'.part = dma.part /\ dma'.owes = dma.owes
       /\ dma' \in DmaType /\ dma'.lates = dma.lates + 1
  <2>1. dma.lates + 1 \in 0 .. MaxLates
    BY <1>2, <1>5, Sizes
  <2> QED
    BY <1>5, <1>8, <2>1 DEF DmaType
<1>11. /\ Coming' = Coming /\ Room' = Room /\ Counts'
       /\ pc' \in {"idle", "refill"} /\ poll' \in PollType
  BY <1>2, <1>3, <1>8, LoopEndsFacts
<1>12. /\ skbs' \in Seq(SkbType) /\ Len(skbs') = Len(skbs) /\ DOMAIN skbs' = DOMAIN skbs /\ skbs'[s] = new
       /\ \A r : r # s => skbs'[r] = skbs[r]
  <2>1. skbs \in Seq(SkbType)
    BY <1>3 DEF Types
  <2>2. /\ skbs' \in Seq(SkbType) /\ Len(skbs') = Len(skbs) /\ DOMAIN skbs' = DOMAIN skbs /\ skbs'[s] = new
    BY <1>7, <1>8, <2>1
  <2>3. ASSUME NEW r, r # s PROVE skbs'[r] = skbs[r]
    BY <1>7, <1>8, <2>1, <2>3
  <2> QED
    BY <2>2, <2>3
<1>13. Types'
  BY <1>3, <1>8, <1>9, <1>10, <1>11, <1>12 DEF Types
<1>14. s \notin Held /\ Given' = Given /\ Held' = Held
  <2>1. skb_top = 0
    BY <1>4, <1>7 DEF Begun, Describes, D
  <2> QED
    BY <1>7, <1>8, <2>1 DEF Given, Held
<1>15. \A r \in Held : SkbStays(r)
  BY <1>8, <1>12, <1>14 DEF SkbStays
<1>16. GivenStays
  BY <1>15 DEF GivenStays, Held, Given
<1>17. FramesStay /\ FramesGrow
  BY <1>3, <1>8 DEF FramesStay, FramesGrow, Types
<1>18. GivenWhole' /\ Ordered' /\ Once'
  BY <1>3, <1>8, <1>13, <1>14, <1>15, <1>16, <1>17, GivenWholeStays, OrderedStays, OnceStays
<1>19. PICK b, room : b = Coming /\ room = Room
  OBVIOUS
<1>20. b \in Slots /\ room \in Nat /\ room <= RX_DESC_CNT /\ at <= room
  BY <1>1, <1>3, <1>19, Ground, Sizes DEF Laid
<1>21. Stock'
  <2>1. ASSUME NEW p \in 0 .. Room' - 1 PROVE Full(buf[Advance(Coming, p)])'
    <3>1. Full(buf[Advance(b, p)])
      BY <1>3, <1>11, <1>19, <2>1 DEF Stock
    <3>2. Full(buf[Advance(b, p)])'
      BY <1>8, <1>9, <3>1 DEF Full, Advance
    <3> QED
      BY <1>11, <1>19, <3>2 DEF Full
  <2> QED
    BY <1>3, <1>8, <1>9, <1>12, <2>1 DEF Stock
<1>22. Distinct(buf)'
  BY <1>3, <1>9 DEF Distinct
<1>23. Apart'
  <2>1. \A r \in Held : skbs'[r] = skbs[r]
    BY <1>12, <1>14
  <2> QED
    BY <1>3, <1>8, <1>9, <1>12, <1>14, <2>1 DEF Apart, Out
<1>24. Clean'
  <2> SUFFICES ASSUME NEW i \in Slots, buf'[i].skb > 0
               PROVE  /\ skbs'[buf'[i].skb].frags = <<>>
                      /\ skbs'[buf'[i].skb].put > 0 => Waits(desc[i], skbs[buf[i].skb])'
    BY DEF Clean
  <2>1. Late(desc[i])' <=> Late(desc[i])
    BY <1>8 DEF Late
  <2>4. PICK l \in Nat, len \in Nat : l = dma.lates /\ len = desc[i].len /\ len = desc'[i].len
    BY <1>3, <1>5, <1>8 DEF Types, DescType
  <2>5. l * len + len = (l + 1) * len /\ l * len \in Nat
    BY SumOfLates
  <2>2. CASE buf[i].skb = s
    <3>1. i = cur_rx
      BY <1>3, <1>4, <1>7, <2>2 DEF Distinct, B
    <3>2. Late(desc[i])
      <4>1. ~D.ctxt
        BY <1>4 DEF Begun, Describes, D
      <4> QED
        BY <1>2, <1>5, <1>7, <3>1, <4>1 DEF Late, D
    <3>3. skbs[s].put \in Nat
      <4>1. skbs[s] \in SkbType
        BY <1>3, <1>7 DEF Types
      <4> QED
        BY <4>1 DEF SkbType
    <3>4. new.put <= (l + 1) * len
      <4>1. PICK x \in Nat, y \in Nat, z \in Nat : x = skbs[s].put /\ y = l * len /\ z = (l + 1) * len
        BY <2>5, <3>3
      <4>2. new.put = x + len /\ x <= y /\ y + len = z
        BY <1>7, <2>4, <2>5, <3>1, <4>1 DEF D
      <4> QED
        BY <4>1, <4>2
    <3>5. Waits(desc[i], skbs[buf[i].skb])'
      BY <1>9, <1>10, <1>12, <2>1, <2>2, <2>4, <3>2, <3>4 DEF Waits
    <3> QED
      BY <1>7, <1>9, <1>12, <2>2, <3>5
  <2>3. CASE buf[i].skb # s
    <3>1. skbs'[buf[i].skb] = skbs[buf[i].skb] /\ buf'[i] = buf[i]
      BY <1>9, <1>12, <2>3
    <3>2. /\ skbs[buf[i].skb].frags = <<>>
          /\ skbs[buf[i].skb].put > 0 => Late(desc[i]) /\ skbs[buf[i].skb].put <= l * len
      BY <1>3, <2>4, <3>1 DEF Clean, Waits
    <3>3. skbs[buf[i].skb].put > 0 => skbs[buf[i].skb].put <= (l + 1) * len
      <4>1. skbs[buf[i].skb].put \in Nat
        <5>1. buf[i].skb \in DOMAIN skbs /\ skbs[buf[i].skb] \in SkbType
          <6>1. buf[i].skb <= Len(skbs) /\ buf[i].skb \in Nat /\ buf[i].skb > 0
            BY <1>3, <3>1 DEF Stock, Types, BufType
          <6> QED
            BY <1>3, <6>1 DEF Types
        <5> QED
          BY <5>1 DEF SkbType
      <4> QED
        BY <2>5, <3>2, <4>1
    <3> QED
      BY <1>10, <2>1, <2>4, <3>1, <3>2, <3>3 DEF Waits
  <2> QED
    BY <2>2, <2>3
<1>25. Channel'
  BY <1>3, <1>8, <1>10 DEF Channel, Bytes, Header, Lesser
<1>26. mode = "split" => new.data = skbs[s].data
  <2> SUFFICES ASSUME mode = "split" PROVE new.data = skbs[s].data
    OBVIOUS
  <2>1. PICK skb \in SkbType : skb = skbs[s]
    BY <1>3, <1>7 DEF Types
  <2>2. new = Whole(skb) /\ mode # "jumbo"
    BY <1>6, <1>7, <2>1 DEF Complete
  <2>3. \A x : Put(skb, x).data = skb.data /\ \A p, y : AddPage(Put(skb, x), p, y).data = skb.data
    BY DEF Put, AddPage, SkbType
  <2> QED
    BY <2>1, <2>2, <2>3 DEF Whole
<1>27. \A i \in Slots : SlotStays(i)
  <2> SUFFICES ASSUME NEW i \in Slots PROVE SlotStays(i)
    OBVIOUS
  <2>1. mode = "split" => skbs'[buf[i].skb].data = skbs[buf[i].skb].data
    BY <1>12, <1>26
  <2> QED
    BY <1>8, <1>9, <2>1 DEF SlotStays, DataStays
<1>28. LaidOut'
  <2>1. Settled(t)'
    BY <1>1, <1>3, <1>8, <1>13, <1>17, SettledStays DEF Laid
  <2>2. Collected(t + 1, n)'
    <3>1. skb_top # 0 => SkbStays(skb_top)
      BY <1>15 DEF Held
    <3> QED
      BY <1>1, <1>8, <3>1, CollectedStays DEF Laid
  <2>3. \A q \in 0 .. at - 1 : SlotStays(Advance(b, q))
    <3> SUFFICES ASSUME NEW q \in 0 .. at - 1 PROVE SlotStays(Advance(b, q))
      OBVIOUS
    <3>1. q \in 0 .. RX_DESC_CNT
      BY <1>20, Sizes
    <3> QED
      BY <1>20, <1>27, <3>1, AdvanceType
  <2>4. Due(b, at, at) /\ \A q \in at .. at - 1 : Followed(b, at, q)'
    BY <1>8, <1>10 DEF Due, PartAt, StampAt, DmaAt
  <2>5. Handed(b, at, room)'
    <3>1. Handed(b, at, room)
      BY <1>1, <1>19 DEF Laid
    <3> QED
      BY <1>8, <1>10, <3>1 DEF Handed, Advance
  <2> QED
    BY <1>1, <1>3, <1>11, <1>13, <1>17, <1>19, <1>20, <2>1, <2>2, <2>3, <2>4, <2>5, LaidKept
<1> QED
  BY <1>11, <1>13, <1>18, <1>21, <1>22, <1>23, <1>24, <1>25, <1>28 DEF ChainInv

-----------------------------------------------------------------------------
(* The refill.                                                             *)

LEMMA Appended ==
    ASSUME NEW T, NEW old \in Seq(T), NEW more \in Seq(T)
    PROVE  /\ old \o more \in Seq(T) /\ Len(old \o more) = Len(old) + Len(more)
           /\ \A p \in DOMAIN old : (old \o more)[p] = old[p]
           /\ \A p \in 1 .. Len(more) : (old \o more)[Len(old) + p] = more[p]
OBVIOUS

\* The skbs and pages there were keep what they have.
HeapGrows ==
    /\ skbs' \in Seq(SkbType) /\ pages' \in Seq(DataType)
    /\ Len(skbs) <= Len(skbs') /\ Len(pages) <= Len(pages')
    /\ \A p \in DOMAIN pages : pages'[p] = pages[p]
    /\ \A r \in DOMAIN skbs : skbs'[r].frags = skbs[r].frags /\ skbs'[r].data = skbs[r].data

\* Buffer new has what old has, and of what old does not have something new.
Adds(old, new) ==
    /\ new.skb = old.skb \/ (old.skb = 0 /\ new.skb = Len(skbs) + 1 /\ Len(skbs') = Len(skbs) + 1)
    /\ new.page = old.page \/ (old.page = 0 /\ mode = "jumbo" /\ new.page \in Len(pages) + 1 .. Len(pages'))
    /\ new.page2 = old.page2 \/ (old.page2 = 0 /\ new.page2 \in Len(pages) + 1 .. Len(pages'))
    /\ new.page = new.page2 => new.page = old.page /\ new.page2 = old.page2

LEMMA Allocates ==
    ASSUME Types, Stock, Clean, NEW i \in Slots, NEW n \in 0 .. 3, Allocate(i, n)
    PROVE  /\ buf' \in [Slots -> BufType] /\ (\A j \in Slots : j # i => buf'[j] = buf[j])
           /\ Adds(buf[i], buf'[i]) /\ HeapGrows
           /\ \A r \in DOMAIN skbs : r # buf[i].skb => skbs'[r] = skbs[r]
           /\ buf'[i].skb > 0 => skbs'[buf'[i].skb].frags = <<>> /\ skbs'[buf'[i].skb].put = 0
           /\ n = 3 => buf'[i].skb > 0 /\ buf'[i].page2 > 0 /\ (mode = "jumbo" => buf'[i].page > 0)
<1>1. PICK b \in BufType : b = buf[i]
  BY DEF Types
<1>2. /\ buf \in [Slots -> BufType] /\ skbs \in Seq(SkbType) /\ pages \in Seq(DataType)
      /\ Len(skbs) \in Nat /\ Len(pages) \in Nat
  BY DEF Types
<1>3. /\ b.skb \in Nat /\ b.page \in Nat /\ b.page2 \in Nat
      /\ b.skb <= Len(skbs) /\ b.page <= Len(pages) /\ b.page2 <= Len(pages)
  BY <1>1 DEF BufType, Stock
<1>4. PICK skb : skb = IF b.skb = 0 /\ n >= 1 THEN Len(skbs) + 1 ELSE b.skb
  OBVIOUS
<1>5. PICK page : page = IF mode = "jumbo" /\ b.page = 0 /\ n >= 2 THEN Len(pages) + 1 ELSE b.page
  OBVIOUS
<1>6. PICK page2 : page2 = IF b.page2 = 0 /\ n >= 3
                           THEN Len(pages) + (IF page # b.page THEN 2 ELSE 1) ELSE b.page2
  OBVIOUS
<1>7. /\ buf' = [buf EXCEPT ![i] = [skb |-> skb, page |-> page, page2 |-> page2]]
      /\ skbs' = IF skb # b.skb THEN Append(skbs, EmptySkb)
                 ELSE [s \in DOMAIN skbs |->
                          IF s = skb THEN [skbs[s] EXCEPT !.put = 0, !.len = 0] ELSE skbs[s]]
      /\ pages' = (pages \o (IF page # b.page THEN <<NoData>> ELSE <<>>))
                       \o (IF page2 # b.page2 THEN <<NoData>> ELSE <<>>)
  BY <1>1, <1>4, <1>5, <1>6 DEF Allocate, Missing
<1>8. skb \in Nat /\ page \in Nat /\ page2 \in Nat
  BY <1>2, <1>3, <1>4, <1>5, <1>6
<1>9. /\ buf' \in [Slots -> BufType] /\ (\A j \in Slots : j # i => buf'[j] = buf[j])
      /\ buf'[i] = [skb |-> skb, page |-> page, page2 |-> page2]
  BY <1>2, <1>7, <1>8 DEF BufType
<1>10. buf'[i].skb = skb /\ buf'[i].page = page /\ buf'[i].page2 = page2
  BY <1>9
<1>11. /\ pages' \in Seq(DataType)
       /\ Len(pages') = (Len(pages) + (IF page # b.page THEN 1 ELSE 0)) + (IF page2 # b.page2 THEN 1 ELSE 0)
       /\ \A p \in DOMAIN pages : pages'[p] = pages[p]
  <2>1. PICK m1 : m1 = IF page # b.page THEN <<NoData>> ELSE <<>>
    OBVIOUS
  <2>2. PICK m2 : m2 = IF page2 # b.page2 THEN <<NoData>> ELSE <<>>
    OBVIOUS
  <2>3. NoData \in DataType
    BY DEF NoData, DataType
  <2>4. /\ m1 \in Seq(DataType) /\ m2 \in Seq(DataType)
        /\ Len(m1) = (IF page # b.page THEN 1 ELSE 0) /\ Len(m2) = (IF page2 # b.page2 THEN 1 ELSE 0)
    BY <2>1, <2>2, <2>3
  <2>5. PICK mid : mid = pages \o m1
    OBVIOUS
  <2>6. /\ mid \in Seq(DataType) /\ Len(mid) = Len(pages) + Len(m1)
        /\ \A p \in DOMAIN pages : mid[p] = pages[p]
    BY <1>2, <2>4, <2>5, Appended
  <2>7. pages' = mid \o m2
    BY <1>7, <2>1, <2>2, <2>5
  <2>8. /\ pages' \in Seq(DataType) /\ Len(pages') = Len(mid) + Len(m2)
        /\ \A p \in DOMAIN mid : pages'[p] = mid[p]
    BY <2>4, <2>6, <2>7, Appended
  <2>9. DOMAIN pages \subseteq DOMAIN mid
    BY <1>2, <2>4, <2>6
  <2> QED
    BY <2>4, <2>6, <2>8, <2>9
<1>12. /\ skbs' \in Seq(SkbType) /\ Len(skbs') = Len(skbs) + (IF skb # b.skb THEN 1 ELSE 0)
       /\ \A r \in DOMAIN skbs : skbs'[r].frags = skbs[r].frags /\ skbs'[r].data = skbs[r].data
       /\ \A r \in DOMAIN skbs : r # b.skb => skbs'[r] = skbs[r]
       /\ skb > 0 => skbs'[skb].frags = <<>> /\ skbs'[skb].put = 0
  <2>1. CASE skb # b.skb
    <3>1. EmptySkb \in SkbType /\ EmptySkb.frags = <<>> /\ EmptySkb.put = 0
      BY DEF EmptySkb, SkbType, NoData, DataType
    <3>2. skbs' = Append(skbs, EmptySkb) /\ skb = Len(skbs) + 1
      BY <1>4, <1>7, <2>1
    <3>3. /\ skbs' \in Seq(SkbType) /\ Len(skbs') = Len(skbs) + 1 /\ skbs'[Len(skbs) + 1] = EmptySkb
          /\ \A r \in DOMAIN skbs : skbs'[r] = skbs[r]
      BY <1>2, <3>1, <3>2
    <3> QED
      BY <2>1, <3>1, <3>2, <3>3
  <2>2. CASE skb = b.skb
    <3>1. skbs' = [s \in DOMAIN skbs |->
                      IF s = skb THEN [skbs[s] EXCEPT !.put = 0, !.len = 0] ELSE skbs[s]]
      BY <1>7, <2>2
    <3>2. ASSUME NEW r \in DOMAIN skbs
          PROVE  /\ [skbs[r] EXCEPT !.put = 0, !.len = 0] \in SkbType
                 /\ [skbs[r] EXCEPT !.put = 0, !.len = 0].frags = skbs[r].frags
                 /\ [skbs[r] EXCEPT !.put = 0, !.len = 0].data = skbs[r].data
                 /\ [skbs[r] EXCEPT !.put = 0, !.len = 0].put = 0
                 /\ skbs[r] \in SkbType
      <4>1. skbs[r] \in SkbType
        BY <1>2
      <4> QED
        BY <4>1 DEF SkbType
    <3>3. skbs' \in [1 .. Len(skbs) -> SkbType]
      <4>1. DOMAIN skbs = 1 .. Len(skbs)
        BY <1>2
      <4>2. \A r \in 1 .. Len(skbs) :
               (IF r = skb THEN [skbs[r] EXCEPT !.put = 0, !.len = 0] ELSE skbs[r]) \in SkbType
        BY <3>2, <4>1
      <4> QED
        BY <3>1, <4>1, <4>2
    <3>4. skbs' \in Seq(SkbType) /\ Len(skbs') = Len(skbs)
      BY <1>2, <3>3
    <3>5. \A r \in DOMAIN skbs : skbs'[r].frags = skbs[r].frags /\ skbs'[r].data = skbs[r].data
      BY <3>1, <3>2
    <3>6. \A r \in DOMAIN skbs : r # b.skb => skbs'[r] = skbs[r]
      BY <2>2, <3>1
    <3>7. skb > 0 => skbs'[skb].frags = <<>> /\ skbs'[skb].put = 0
      <4> SUFFICES ASSUME skb > 0 PROVE skbs'[skb].frags = <<>> /\ skbs'[skb].put = 0
        OBVIOUS
      <4>1. skb \in DOMAIN skbs
        BY <1>2, <1>3, <2>2
      <4>2. skbs[skb].frags = <<>>
        BY <1>1, <2>2 DEF Clean
      <4> QED
        BY <3>1, <3>2, <4>1, <4>2
    <3> QED
      BY <2>2, <3>4, <3>5, <3>6, <3>7
  <2> QED
    BY <2>1, <2>2
<1>0. PICK np \in Nat, np2 \in Nat, ns2 \in Nat :
          /\ np = Len(pages) /\ np2 = Len(pages') /\ ns2 = Len(skbs')
          /\ np2 = (np + (IF page # b.page THEN 1 ELSE 0)) + (IF page2 # b.page2 THEN 1 ELSE 0)
          /\ np <= np2 /\ Len(skbs) <= ns2
  <2>1. PICK x \in {0, 1} : x = IF page # b.page THEN 1 ELSE 0
    OBVIOUS
  <2>2. PICK y \in {0, 1} : y = IF page2 # b.page2 THEN 1 ELSE 0
    OBVIOUS
  <2>3. PICK z \in {0, 1} : z = IF skb # b.skb THEN 1 ELSE 0
    OBVIOUS
  <2>4. Len(pages') = (Len(pages) + x) + y /\ Len(skbs') = Len(skbs) + z
    BY <1>11, <1>12, <2>1, <2>2, <2>3
  <2>5. Len(pages') \in Nat /\ Len(skbs') \in Nat /\ Len(pages) <= Len(pages') /\ Len(skbs) <= Len(skbs')
    BY <1>2, <2>4
  <2> QED
    BY <1>2, <1>11, <2>5
<1>13. HeapGrows
  BY <1>0, <1>11, <1>12 DEF HeapGrows
<1>14. Adds(buf[i], buf'[i])
  <2>1. skb = b.skb \/ (b.skb = 0 /\ skb = Len(skbs) + 1 /\ Len(skbs') = Len(skbs) + 1)
    BY <1>2, <1>3, <1>4, <1>12
  <2>2. page = b.page \/ (b.page = 0 /\ mode = "jumbo" /\ page \in Len(pages) + 1 .. Len(pages'))
    <3>1. page # b.page => b.page = 0 /\ mode = "jumbo" /\ page = np + 1
      BY <1>0, <1>5
    <3>2. page # b.page => np + 1 <= np2
      BY <1>0
    <3>3. page # b.page => page \in np + 1 .. np2
      BY <3>1, <3>2
    <3> QED
      BY <1>0, <3>1, <3>3
  <2>3. page2 = b.page2 \/ (b.page2 = 0 /\ page2 \in Len(pages) + 1 .. Len(pages'))
    <3>1. page2 # b.page2 => b.page2 = 0 /\ page2 = np + (IF page # b.page THEN 2 ELSE 1)
      BY <1>0, <1>6
    <3>2. page2 # b.page2 => np + (IF page # b.page THEN 2 ELSE 1) <= np2
      BY <1>0
    <3>3. np + 1 <= np + (IF page # b.page THEN 2 ELSE 1) /\ np + (IF page # b.page THEN 2 ELSE 1) \in Nat
      OBVIOUS
    <3>4. page2 # b.page2 => page2 \in np + 1 .. np2
      BY <3>1, <3>2, <3>3
    <3> QED
      BY <1>0, <3>1, <3>4
  <2>4. page = page2 => page = b.page /\ page2 = b.page2
    BY <1>2, <1>3, <1>5, <1>6
  <2> QED
    BY <1>1, <1>10, <2>1, <2>2, <2>3, <2>4 DEF Adds
<1>15. n = 3 => skb > 0 /\ page2 > 0 /\ (mode = "jumbo" => page > 0)
  BY <1>2, <1>3, <1>4, <1>5, <1>6
<1> QED
  BY <1>1, <1>9, <1>10, <1>12, <1>13, <1>14, <1>15

LEMMA AllocateStep ==
    ASSUME Types, Stock, Distinct(buf), Apart, Clean,
           NEW i \in Slots, NEW n \in 0 .. 3, Allocate(i, n),
           UNCHANGED <<mode, skb_top, delivered, frames, dma>>,
           \A j \in Slots : j # i => desc'[j] = desc[j]
    PROVE  /\ Distinct(buf)' /\ Apart' /\ Clean' /\ (\A r \in Held : SkbStays(r))
           /\ \A j \in Slots : j # i /\ Full(buf[j]) => SlotStays(j)
           /\ \A j \in Slots : /\ buf'[j].skb <= Len(skbs') /\ buf'[j].page <= Len(pages')
                               /\ buf'[j].page2 <= Len(pages')
                               /\ mode = "split" => buf'[j].page = 0
<1>1. /\ buf' \in [Slots -> BufType] /\ (\A j \in Slots : j # i => buf'[j] = buf[j])
      /\ Adds(buf[i], buf'[i]) /\ HeapGrows
      /\ \A r \in DOMAIN skbs : r # buf[i].skb => skbs'[r] = skbs[r]
      /\ buf'[i].skb > 0 => skbs'[buf'[i].skb].frags = <<>> /\ skbs'[buf'[i].skb].put = 0
  BY Allocates
<1>2. PICK ns \in Nat, np \in Nat, ns2 \in Nat, np2 \in Nat :
          /\ ns = Len(skbs) /\ np = Len(pages) /\ ns2 = Len(skbs') /\ np2 = Len(pages')
          /\ ns <= ns2 /\ np <= np2
  <2>1. skbs \in Seq(SkbType) /\ pages \in Seq(DataType) /\ skbs' \in Seq(SkbType) /\ pages' \in Seq(DataType)
        /\ Len(skbs) <= Len(skbs') /\ Len(pages) <= Len(pages')
    BY <1>1 DEF Types, HeapGrows
  <2> QED
    BY <2>1
<1>3. DOMAIN skbs = 1 .. ns /\ DOMAIN pages = 1 .. np /\ DOMAIN skbs' = 1 .. ns2 /\ DOMAIN pages' = 1 .. np2
  BY <1>1, <1>2 DEF Types, HeapGrows
<1>4. ASSUME NEW j \in Slots
      PROVE  /\ buf[j].skb \in 0 .. ns /\ buf[j].page \in 0 .. np /\ buf[j].page2 \in 0 .. np
             /\ mode = "split" => buf[j].page = 0
  <2>1. buf[j] \in BufType
    BY DEF Types
  <2>2. buf[j].skb \in Nat /\ buf[j].page \in Nat /\ buf[j].page2 \in Nat
    BY <2>1 DEF BufType
  <2> QED
    BY <1>2, <2>2 DEF Stock
<1>5. /\ buf'[i].skb = buf[i].skb \/ (buf[i].skb = 0 /\ buf'[i].skb = ns + 1 /\ ns2 = ns + 1)
      /\ buf'[i].page = buf[i].page \/ (buf[i].page = 0 /\ mode = "jumbo" /\ buf'[i].page \in np + 1 .. np2)
      /\ buf'[i].page2 = buf[i].page2 \/ (buf[i].page2 = 0 /\ buf'[i].page2 \in np + 1 .. np2)
      /\ buf'[i].page = buf'[i].page2 => buf'[i].page = buf[i].page /\ buf'[i].page2 = buf[i].page2
  BY <1>1, <1>2 DEF Adds
<1>6. ASSUME NEW j \in Slots
      PROVE  /\ buf'[j].skb \in 0 .. ns2 /\ buf'[j].page \in 0 .. np2 /\ buf'[j].page2 \in 0 .. np2
             /\ mode = "split" => buf'[j].page = 0
  <2>1. CASE j # i
    BY <1>1, <1>2, <1>4, <2>1
  <2>2. CASE j = i
    <3>1. /\ buf[i].skb \in 0 .. ns /\ buf[i].page \in 0 .. np /\ buf[i].page2 \in 0 .. np
          /\ mode = "split" => buf[i].page = 0
      BY <1>4
    <3>2. buf'[i].skb \in 0 .. ns2
      BY <1>2, <1>5, <3>1, SMTT(30)
    <3>3. buf'[i].page \in 0 .. np2
      BY <1>2, <1>5, <3>1
    <3>4. buf'[i].page2 \in 0 .. np2
      BY <1>2, <1>5, <3>1
    <3>5. mode = "split" => buf'[i].page = 0
      BY <1>5, <3>1
    <3> QED
      BY <2>2, <3>2, <3>3, <3>4, <3>5
  <2> QED
    BY <2>1, <2>2
<1>7. Distinct(buf)'
  <2>1. ASSUME NEW j \in Slots, j # i
        PROVE  /\ buf'[i].skb = buf'[j].skb => buf'[i].skb = 0
               /\ buf'[i].page = buf'[j].page => buf'[i].page = 0
               /\ buf'[i].page2 = buf'[j].page2 => buf'[i].page2 = 0
               /\ buf'[i].page = buf'[j].page2 => buf'[i].page = 0
               /\ buf'[j].page = buf'[i].page2 => buf'[j].page = 0
    <3>1. /\ buf[j].skb \in 0 .. ns /\ buf[j].page \in 0 .. np /\ buf[j].page2 \in 0 .. np /\ buf'[j] = buf[j]
      BY <1>1, <1>4, <2>1
    <3>2. /\ buf[i].skb = buf[j].skb => buf[i].skb = 0
          /\ buf[i].page = buf[j].page => buf[i].page = 0
          /\ buf[i].page2 = buf[j].page2 => buf[i].page2 = 0
          /\ buf[i].page = buf[j].page2 => buf[i].page = 0
          /\ buf[j].page = buf[i].page2 => buf[j].page = 0
      BY <2>1 DEF Distinct
    <3>3. buf'[i].skb = buf'[j].skb => buf'[i].skb = 0
      BY <1>2, <1>5, <3>1, <3>2
    <3>4. /\ buf'[i].page = buf'[j].page => buf'[i].page = 0
          /\ buf'[i].page = buf'[j].page2 => buf'[i].page = 0
      BY <1>2, <1>5, <3>1, <3>2
    <3>5. /\ buf'[i].page2 = buf'[j].page2 => buf'[i].page2 = 0
          /\ buf'[j].page = buf'[i].page2 => buf'[j].page = 0
      BY <1>2, <1>5, <3>1, <3>2
    <3> QED
      BY <3>3, <3>4, <3>5
  <2>2. buf'[i].page = buf'[i].page2 => buf'[i].page = 0
    BY <1>5 DEF Distinct
  <2>3. ASSUME NEW j \in Slots, NEW k \in Slots, j # i, k # i
        PROVE  /\ j # k =>
                     /\ buf'[j].skb = buf'[k].skb => buf'[j].skb = 0
                     /\ buf'[j].page = buf'[k].page => buf'[j].page = 0
                     /\ buf'[j].page2 = buf'[k].page2 => buf'[j].page2 = 0
               /\ buf'[j].page = buf'[k].page2 => buf'[j].page = 0
    <3>1. buf'[j] = buf[j] /\ buf'[k] = buf[k]
      BY <1>1, <2>3
    <3> QED
      BY <3>1 DEF Distinct
  <2>4. ASSUME NEW j \in Slots, NEW k \in Slots, j # k
        PROVE  /\ buf'[j].skb = buf'[k].skb => buf'[j].skb = 0
               /\ buf'[j].page = buf'[k].page => buf'[j].page = 0
               /\ buf'[j].page2 = buf'[k].page2 => buf'[j].page2 = 0
    <3>1. CASE j = i
      BY <2>1, <2>4, <3>1
    <3>2. CASE k = i
      BY <2>1, <2>4, <3>2
    <3>3. CASE j # i /\ k # i
      BY <2>3, <2>4, <3>3
    <3> QED
      BY <3>1, <3>2, <3>3
  <2>5. ASSUME NEW j \in Slots, NEW k \in Slots, buf'[j].page = buf'[k].page2
        PROVE  buf'[j].page = 0
    <3>1. CASE j = i /\ k = i
      BY <2>2, <2>5, <3>1
    <3>2. CASE j = i /\ k # i
      BY <2>1, <2>5, <3>2
    <3>3. CASE j # i /\ k = i
      BY <2>1, <2>5, <3>3
    <3>4. CASE j # i /\ k # i
      BY <2>3, <2>5, <3>4
    <3> QED
      BY <3>1, <3>2, <3>3, <3>4
  <2> QED
    BY <2>4, <2>5 DEF Distinct
<1>8. ASSUME NEW r \in Held
      PROVE  /\ r \in 1 .. ns /\ skbs'[r] = skbs[r] /\ (\A j \in Slots : buf'[j].skb # r)
             /\ \A m \in DOMAIN skbs[r].frags : Out(skbs[r].frags[m])
  <2>1. r \in 1 .. ns /\ (\A j \in Slots : buf[j].skb # r)
        /\ \A m \in DOMAIN skbs[r].frags : Out(skbs[r].frags[m])
    BY <1>3 DEF Apart
  <2>2. skbs'[r] = skbs[r]
    BY <1>1, <1>3, <2>1
  <2>3. ASSUME NEW j \in Slots PROVE buf'[j].skb # r
    <3>1. CASE j = i
      BY <1>2, <1>5, <2>1, <3>1
    <3>2. CASE j # i
      BY <1>1, <2>1, <3>2
    <3> QED
      BY <3>1, <3>2
  <2> QED
    BY <2>1, <2>2, <2>3
<1>9. ASSUME NEW x, Out(x) PROVE Out(x)' /\ pages'[x] = pages[x]
  <2>1. x \in 1 .. np /\ \A j \in Slots : buf[j].page # x /\ buf[j].page2 # x
    BY <1>3, <1>9 DEF Out
  <2>2. pages'[x] = pages[x] /\ x \in 1 .. np2
    BY <1>1, <1>2, <1>3, <2>1 DEF HeapGrows
  <2>3. ASSUME NEW j \in Slots PROVE buf'[j].page # x /\ buf'[j].page2 # x
    <3>1. CASE j = i
      BY <1>2, <1>5, <2>1, <3>1
    <3>2. CASE j # i
      BY <1>1, <2>1, <3>2
    <3> QED
      BY <3>1, <3>2
  <2> QED
    BY <1>3, <2>2, <2>3 DEF Out
<1>10. Apart'
  <2>1. Given' = Given /\ Held' = Held
    BY DEF Given, Held
  <2>2. ASSUME NEW r \in Held, NEW m \in DOMAIN skbs'[r].frags PROVE Out(skbs[r].frags[m])'
    <3>1. PICK x : x = skbs[r].frags[m]
      OBVIOUS
    <3>2. skbs'[r] = skbs[r] /\ Out(x)
      BY <1>8, <2>2, <3>1
    <3>3. Out(x)'
      BY <1>9, <3>2
    <3> QED
      BY <3>1, <3>2, <3>3
  <2>3. \A r \in Held : r \in DOMAIN skbs' /\ \A j \in Slots : buf'[j].skb # r
    BY <1>2, <1>3, <1>8
  <2>4. skb_top' \notin Given'
    BY <2>1 DEF Apart
  <2> QED
    BY <2>1, <2>2, <2>3, <2>4 DEF Apart
<1>11. ASSUME NEW r \in Held PROVE SkbStays(r)
  <2>1. skbs[r] \in SkbType
    BY <1>3, <1>8 DEF Types
  <2>2. \A m \in 1 .. Len(skbs[r].frags) : m \in DOMAIN skbs[r].frags
    BY <2>1 DEF SkbType
  <2> QED
    BY <1>8, <1>9, <2>2 DEF SkbStays
<1>12. Clean'
  <2> SUFFICES ASSUME NEW j \in Slots, buf'[j].skb > 0
               PROVE  /\ skbs'[buf'[j].skb].frags = <<>>
                      /\ skbs'[buf'[j].skb].put > 0 => Waits(desc[j], skbs[buf[j].skb])'
    BY DEF Clean
  <2>1. CASE j = i
    BY <1>1, <2>1
  <2>2. CASE j # i
    <3>1. buf'[j] = buf[j] /\ buf[j].skb > 0 /\ desc'[j] = desc[j] /\ buf[j].skb \in 1 .. ns
      BY <1>1, <1>4, <2>2
    <3>2. buf[j].skb # buf[i].skb
      BY <2>2, <3>1 DEF Distinct
    <3>3. skbs'[buf[j].skb] = skbs[buf[j].skb]
      BY <1>1, <1>3, <3>1, <3>2
    <3>4. Waits(desc[j], skbs[buf[j].skb])' <=> Waits(desc[j], skbs[buf[j].skb])
      BY <3>1, <3>3 DEF Waits, Late
    <3> QED
      BY <3>1, <3>3, <3>4 DEF Clean
  <2> QED
    BY <2>1, <2>2
<1>13. ASSUME NEW j \in Slots, j # i, Full(buf[j])
       PROVE  SlotStays(j)
  <2>1. buf[j].skb \in 1 .. ns /\ buf[j].page2 \in 1 .. np /\ (mode = "jumbo" => buf[j].page \in 1 .. np)
    BY <1>4, <1>13 DEF Full
  <2>2. DataStays(buf[j])
    BY <1>1, <1>3, <2>1 DEF DataStays, HeapGrows
  <2> QED
    BY <1>1, <1>13, <2>2 DEF SlotStays
<1>14. ASSUME NEW j \in Slots
       PROVE  /\ buf'[j].skb <= Len(skbs') /\ buf'[j].page <= Len(pages') /\ buf'[j].page2 <= Len(pages')
              /\ mode = "split" => buf'[j].page = 0
  BY <1>2, <1>6
<1> QED
  BY <1>7, <1>10, <1>11, <1>12, <1>13, <1>14

\* The descriptor that is refilled lies behind those the DMA may have.
LEMMA RefillSlot ==
    ASSUME ChainInv, pc = "refill", poll.i < dirty_rx,
           NEW at \in Nat, NEW t \in Nat, NEW n \in Nat, Laid(at, t, n),
           NEW i, i = skb_realloc_idx, NEW b, b = Coming, NEW room, room = Room
    PROVE  /\ i \in Slots /\ b \in Slots /\ room \in 0 .. RX_DESC_CNT - 1 /\ i = Advance(b, room)
           /\ ~desc[i].own /\ at <= room
           /\ \A p \in 0 .. RX_DESC_CNT - 1 : p # room => Advance(b, p) # i /\ Advance(b, p) \in Slots
<1>1. Types /\ Counts
  BY DEF ChainInv
<1>2. /\ Coming \in Slots /\ poll.i \in Nat /\ lost \in Nat /\ dirty_rx \in Nat
      /\ Behind \in 0 .. RX_DESC_CNT /\ skb_realloc_idx \in Slots
  BY <1>1, Ground DEF Types
<1>3. Behind = lost + dirty_rx - poll.i /\ Behind >= 1
  <2>1. Behind = lost + dirty_rx - poll.i
    BY DEF Behind
  <2> QED
    BY <1>2, <2>1
<1>4. room \in 0 .. RX_DESC_CNT - 1 /\ room = RX_DESC_CNT - Behind
  BY <1>2, <1>3, Sizes, SMTT(30) DEF Room
<1>5. i = Advance(b, room)
  <2>1. b = Advance(i, Behind)
    BY <1>1 DEF Counts
  <2> QED
    BY <1>2, <1>4, <2>1, AdvanceRound
<1>6. at <= room /\ Handed(b, at, room)
  BY DEF Laid
<1>7. ~desc[i].own
  BY <1>4, <1>5, <1>6 DEF Handed
<1>8. ASSUME NEW p \in 0 .. RX_DESC_CNT - 1, p # room
      PROVE  Advance(b, p) # i /\ Advance(b, p) \in Slots
  <2>1. p \in 0 .. RX_DESC_CNT
    BY Sizes
  <2> QED
    BY <1>2, <1>4, <1>5, <1>8, <2>1, AdvanceApart, AdvanceType
<1> QED
  BY <1>2, <1>4, <1>5, <1>6, <1>7, <1>8

LEMMA LeftFacts ==
    ASSUME Types, Counts, pc = "refill", RefillLeft, skb_realloc_idx' = skb_realloc_idx,
           lost' = lost + dirty_rx - poll.i, lost' <= MaxLost
    PROVE  /\ Coming' = Coming /\ Room' = Room /\ Counts'
           /\ pc' \in {"idle", "loop"} /\ poll' = poll /\ cur_rx' \in Slots /\ dirty_rx' = 0
           /\ 0 \in 0 .. MIN_RX_DESC_CNT + 1
           /\ lost' \in 0 .. MaxLost
<1>1. /\ poll \in PollType /\ cur_rx \in Slots /\ poll.i \in Nat /\ lost \in Nat /\ dirty_rx \in Nat
      /\ poll.i <= dirty_rx /\ Coming = Advance(skb_realloc_idx, Behind)
  BY Ground DEF Types, Counts
<1>2. poll.then \in {"idle", "loop"}
  BY <1>1 DEF PollType
<1>3. /\ dirty_rx' = 0 /\ pc' = poll.then /\ poll' = poll
      /\ cur_rx' = IF poll.then = "loop" THEN Advance(cur_rx, 1) ELSE cur_rx
  BY DEF RefillLeft
<1>4. pc' \in {"idle", "loop"} /\ pc' # "refill" /\ cur_rx' \in Slots
  BY <1>1, <1>2, <1>3, AdvanceZero
<1>5. Behind = lost + dirty_rx - poll.i /\ Behind' = lost' + 0
  BY <1>3, <1>4 DEF Behind
<1>6. lost' \in 0 .. MaxLost /\ Behind' = Behind
  BY <1>1, <1>5, Sizes
<1>7. Coming' = Coming
  BY <1>2, <1>3, <1>4 DEF Coming
<1>8. Counts'
  <2>1. (Coming = Advance(skb_realloc_idx, Behind))'
    BY <1>1, <1>6, <1>7 DEF Advance
  <2> QED
    BY <1>3, <1>4, <2>1, Sizes DEF Counts
<1>9. Room' = Room
  BY <1>6 DEF Room
<1> QED
  BY <1>3, <1>4, <1>6, <1>7, <1>8, <1>9, Sizes

LEMMA RefillEndStep ==
    ASSUME ChainInv, RefillEnd
    PROVE  ChainInv'
<1>1. Types /\ Counts /\ poll.i \in Nat /\ lost \in 0 .. MaxLost /\ dirty_rx \in Nat
  BY Ground DEF ChainInv, Types
<1>2. /\ UNCHANGED <<mode, desc, buf, skbs, pages, skb_top, dma, frames, gone, delivered>>
      /\ UNCHANGED <<skb_realloc_idx, lost>> /\ pc = "refill" /\ RefillLeft /\ poll.i = dirty_rx
  BY DEF RefillEnd, RefillLeft, heap, wire
<1>3. lost' = lost + dirty_rx - poll.i /\ lost' <= MaxLost
  BY <1>1, <1>2, Sizes
<1>4. /\ Coming' = Coming /\ Room' = Room /\ Counts'
      /\ pc' \in {"idle", "loop"} /\ poll' = poll /\ cur_rx' \in Slots /\ dirty_rx' = 0
      /\ 0 \in 0 .. MIN_RX_DESC_CNT + 1 /\ lost' \in 0 .. MaxLost
  BY <1>1, <1>2, <1>3, LeftFacts
<1>5. Types'
  BY <1>1, <1>2, <1>4 DEF Types
<1> QED
  BY <1>2, <1>4, <1>5, QuietStep

LEMMA RefillFailsStep ==
    ASSUME ChainInv, RefillFails
    PROVE  ChainInv'
<1>1. PICK at \in Nat, t \in Nat, n \in Nat : Laid(at, t, n)
  BY DEF ChainInv, LaidOut
<1>2. /\ Types /\ Counts /\ Stock /\ Distinct(buf) /\ Apart /\ Clean /\ Channel /\ GivenWhole /\ Ordered /\ Once
  BY DEF ChainInv
<1>3. /\ UNCHANGED <<mode, desc, skb_top, dma, frames, gone, delivered, skb_realloc_idx>>
      /\ pc = "refill" /\ RefillLeft /\ poll.i < dirty_rx
      /\ lost' = lost + dirty_rx - poll.i /\ lost' <= MaxLost
  BY DEF RefillFails, RefillLeft, wire
<1>4. PICK i, b, room : i = skb_realloc_idx /\ b = Coming /\ room = Room
  OBVIOUS
<1>5. PICK m \in 0 .. 3 : Allocate(i, m)
  <2>1. Allocate(i, 0) \/ Allocate(i, 1) \/ Allocate(i, 2)
    BY <1>4 DEF RefillFails
  <2>2. 0 \in 0 .. 3 /\ 1 \in 0 .. 3 /\ 2 \in 0 .. 3
    OBVIOUS
  <2> QED
    BY <2>1, <2>2
<1>6. /\ i \in Slots /\ b \in Slots /\ room \in 0 .. RX_DESC_CNT - 1 /\ i = Advance(b, room)
      /\ ~desc[i].own /\ at <= room
      /\ \A p \in 0 .. RX_DESC_CNT - 1 : p # room => Advance(b, p) # i /\ Advance(b, p) \in Slots
  BY <1>1, <1>3, <1>4, RefillSlot
<1>7. /\ Coming' = Coming /\ Room' = Room /\ Counts'
      /\ pc' \in {"idle", "loop"} /\ poll' = poll /\ cur_rx' \in Slots /\ dirty_rx' = 0
      /\ 0 \in 0 .. MIN_RX_DESC_CNT + 1 /\ lost' \in 0 .. MaxLost
  BY <1>2, <1>3, LeftFacts
<1>8. buf' \in [Slots -> BufType] /\ (\A j \in Slots : j # i => buf'[j] = buf[j]) /\ HeapGrows
  BY <1>2, <1>5, <1>6, Allocates
<1>9. Types'
  <2>1. skb_top' \in 0 .. Len(skbs')
    <3>1. skb_top \in 0 .. Len(skbs) /\ Len(skbs) <= Len(skbs') /\ Len(skbs) \in Nat /\ Len(skbs') \in Nat
      BY <1>2, <1>8 DEF Types, HeapGrows
    <3> QED
      BY <1>3, <3>1
  <2> QED
    BY <1>2, <1>3, <1>7, <1>8, <2>1 DEF Types, HeapGrows
<1>10. /\ Distinct(buf)' /\ Apart' /\ Clean' /\ (\A r \in Held : SkbStays(r))
       /\ \A j \in Slots : j # i /\ Full(buf[j]) => SlotStays(j)
       /\ \A j \in Slots : /\ buf'[j].skb <= Len(skbs') /\ buf'[j].page <= Len(pages')
                           /\ buf'[j].page2 <= Len(pages')
                           /\ mode = "split" => buf'[j].page = 0
  BY <1>2, <1>3, <1>5, <1>6, AllocateStep
<1>11. ASSUME NEW p \in 0 .. room - 1
       PROVE  Advance(b, p) \in Slots /\ Advance(b, p) # i /\ Full(buf[Advance(b, p)])
  <2>1. p \in 0 .. RX_DESC_CNT - 1 /\ p # room
    BY <1>6, Sizes
  <2>2. Full(buf[Advance(b, p)])
    BY <1>2, <1>4 DEF Stock
  <2> QED
    BY <1>6, <2>1, <2>2
<1>12. Stock'
  <2>1. ASSUME NEW p \in 0 .. Room' - 1 PROVE Full(buf[Advance(Coming, p)])'
    <3>1. p \in 0 .. room - 1
      BY <1>4, <1>7
    <3>2. Full(buf[Advance(b, p)]) /\ buf'[Advance(b, p)] = buf[Advance(b, p)]
      BY <1>8, <1>11, <3>1
    <3>3. Full(buf[Advance(b, p)])'
      BY <1>3, <3>2 DEF Full, Advance
    <3> QED
      BY <1>4, <1>7, <3>3 DEF Full
  <2>2. \A j \in Slots : desc'[j].own => desc'[j].addr = buf'[j]
    BY <1>2, <1>3, <1>6, <1>8 DEF Stock
  <2> QED
    BY <1>3, <1>10, <2>1, <2>2 DEF Stock
<1>13. FramesStay /\ FramesGrow
  BY <1>2, <1>3 DEF FramesStay, FramesGrow, Types
<1>14. GivenStays
  BY <1>10 DEF GivenStays, Held, Given
<1>15. GivenWhole' /\ Ordered' /\ Once'
  BY <1>2, <1>3, <1>9, <1>10, <1>13, <1>14, HeldSame, GivenWholeStays, OrderedStays, OnceStays
<1>16. Channel'
  BY <1>2, <1>3, ChannelSame
<1>17. LaidOut'
  <2>1. Settled(t)'
    BY <1>1, <1>2, <1>3, <1>9, <1>13, SettledStays DEF Laid
  <2>2. Collected(t + 1, n)'
    <3>1. skb_top # 0 => SkbStays(skb_top)
      BY <1>10 DEF Held
    <3> QED
      BY <1>1, <1>3, <3>1, CollectedStays DEF Laid
  <2>3. \A q \in 0 .. at - 1 : SlotStays(Advance(b, q))
    <3> SUFFICES ASSUME NEW q \in 0 .. at - 1 PROVE SlotStays(Advance(b, q))
      OBVIOUS
    <3>1. q \in 0 .. room - 1
      BY <1>6
    <3> QED
      BY <1>10, <1>11, <3>1
  <2>4. Due(b, at, at) /\ \A q \in at .. at - 1 : Followed(b, at, q)'
    BY <1>3, DueSame
  <2>5. Handed(b, at, room)'
    <3>1. Handed(b, at, room)
      BY <1>1, <1>4 DEF Laid
    <3> QED
      BY <1>3, <3>1 DEF Handed, Advance
  <2>6. room \in Nat /\ room <= RX_DESC_CNT
    BY <1>6, Sizes
  <2> QED
    BY <1>1, <1>2, <1>4, <1>6, <1>7, <1>9, <1>13, <2>1, <2>2, <2>3, <2>4, <2>5, <2>6, LaidKept
<1> QED
  BY <1>7, <1>9, <1>10, <1>12, <1>15, <1>16, <1>17 DEF ChainInv

LEMMA RefillOneStep ==
    ASSUME ChainInv, RefillOne
    PROVE  ChainInv'
<1>1. PICK at \in Nat, t \in Nat, n \in Nat : Laid(at, t, n)
  BY DEF ChainInv, LaidOut
<1>2. /\ Types /\ Counts /\ Stock /\ Distinct(buf) /\ Apart /\ Clean /\ Channel /\ GivenWhole /\ Ordered /\ Once
  BY DEF ChainInv
<1>3. PICK i, b, room : i = skb_realloc_idx /\ b = Coming /\ room = Room
  OBVIOUS
<1>4. /\ UNCHANGED <<mode, pc, cur_rx, dirty_rx, skb_top, dma, frames, gone, delivered, lost>>
      /\ pc = "refill" /\ poll.i < dirty_rx /\ Allocate(i, 3)
      /\ desc' = [desc EXCEPT ![i] = Armed(buf'[i])]
      /\ skb_realloc_idx' = Advance(i, 1) /\ poll' = [poll EXCEPT !.i = @ + 1]
  BY <1>3 DEF RefillOne, wire
<1>5. /\ i \in Slots /\ b \in Slots /\ room \in 0 .. RX_DESC_CNT - 1 /\ i = Advance(b, room)
      /\ ~desc[i].own /\ at <= room
      /\ \A p \in 0 .. RX_DESC_CNT - 1 : p # room => Advance(b, p) # i /\ Advance(b, p) \in Slots
  BY <1>1, <1>3, <1>4, RefillSlot
<1>6. /\ poll \in PollType /\ poll.i \in Nat /\ lost \in Nat /\ dirty_rx \in Nat /\ Behind \in 0 .. RX_DESC_CNT
      /\ desc \in [Slots -> DescType]
  BY <1>2, Ground DEF Types
<1>7. poll' \in PollType /\ poll'.i = poll.i + 1 /\ poll'.then = poll.then
  BY <1>4, <1>6 DEF PollType
<1>8. Coming' = Coming
  BY <1>4, <1>7 DEF Coming
<1>9. Behind' = Behind - 1 /\ Behind = lost + dirty_rx - poll.i /\ Behind >= 1
  <2>1. Behind = lost + dirty_rx - poll.i /\ Behind' = lost + dirty_rx - (poll.i + 1)
    BY <1>4, <1>7 DEF Behind
  <2> QED
    BY <1>4, <1>6, <2>1
<1>10. Room' = room + 1 /\ room + 1 \in 1 .. RX_DESC_CNT /\ room + 1 <= RX_DESC_CNT
  <2>1. room = RX_DESC_CNT - Behind /\ Room' = RX_DESC_CNT - Behind'
    BY <1>3 DEF Room
  <2>2. Room' = room + 1
    BY <1>6, <1>9, <2>1, Sizes
  <2> QED
    BY <1>5, <2>2, Sizes
<1>11. Counts'
  <2>1. Coming = Advance(i, Behind)
    BY <1>2, <1>3 DEF Counts
  <2>2. Advance(Advance(i, 1), Behind - 1) = Advance(i, Behind)
    <3>1. Behind - 1 \in 0 .. RX_DESC_CNT - 1 /\ (Behind - 1) + 1 = Behind
      BY <1>6, <1>9, Sizes
    <3> QED
      BY <1>5, <3>1, AdvanceFrom
  <2>3. Coming' = Advance(skb_realloc_idx', Behind')
    BY <1>4, <1>8, <1>9, <2>1, <2>2
  <2>4. (Coming = Advance(skb_realloc_idx, Behind))'
    BY <2>3 DEF Advance
  <2>5. poll'.i <= dirty_rx'
    BY <1>4, <1>6, <1>7
  <2> QED
    BY <1>4, <2>4, <2>5 DEF Counts
<1>12. /\ buf' \in [Slots -> BufType] /\ (\A j \in Slots : j # i => buf'[j] = buf[j]) /\ HeapGrows
       /\ buf'[i].skb > 0 /\ buf'[i].page2 > 0 /\ (mode = "jumbo" => buf'[i].page > 0)
  <2>1. 3 \in 0 .. 3
    OBVIOUS
  <2> QED
    BY <1>2, <1>4, <1>5, <2>1, Allocates
<1>13. /\ desc' \in [Slots -> DescType] /\ desc'[i] = Armed(buf'[i])
       /\ \A j \in Slots : j # i => desc'[j] = desc[j]
  <2>1. Armed(buf'[i]) \in DescType
    BY <1>5, <1>12 DEF Armed, DescType
  <2> QED
    BY <1>4, <1>5, <1>6, <2>1
<1>14. desc'[i].own /\ desc'[i].addr = buf'[i] /\ desc'[i].of = 0
  BY <1>13 DEF Armed
<1>15. Types'
  <2>1. skb_top' \in 0 .. Len(skbs')
    <3>1. skb_top \in 0 .. Len(skbs) /\ Len(skbs) <= Len(skbs') /\ Len(skbs) \in Nat /\ Len(skbs') \in Nat
      BY <1>2, <1>12 DEF Types, HeapGrows
    <3> QED
      BY <1>4, <3>1
  <2>2. skb_realloc_idx' \in Slots
    BY <1>4, <1>5, AdvanceZero
  <2> QED
    BY <1>2, <1>4, <1>7, <1>12, <1>13, <2>1, <2>2 DEF Types, HeapGrows
<1>16. /\ Distinct(buf)' /\ Apart' /\ Clean' /\ (\A r \in Held : SkbStays(r))
       /\ \A j \in Slots : j # i /\ Full(buf[j]) => SlotStays(j)
       /\ \A j \in Slots : /\ buf'[j].skb <= Len(skbs') /\ buf'[j].page <= Len(pages')
                           /\ buf'[j].page2 <= Len(pages')
                           /\ mode = "split" => buf'[j].page = 0
  <2>1. 3 \in 0 .. 3
    OBVIOUS
  <2> QED
    BY <1>2, <1>4, <1>5, <1>13, <2>1, AllocateStep
<1>17. ASSUME NEW p \in 0 .. room - 1
       PROVE  Advance(b, p) \in Slots /\ Advance(b, p) # i /\ Full(buf[Advance(b, p)])
  <2>1. p \in 0 .. RX_DESC_CNT - 1 /\ p # room
    BY <1>5, Sizes
  <2>2. Full(buf[Advance(b, p)])
    BY <1>2, <1>3 DEF Stock
  <2> QED
    BY <1>5, <2>1, <2>2
<1>18. Stock'
  <2>1. ASSUME NEW p \in 0 .. Room' - 1 PROVE Full(buf[Advance(Coming, p)])'
    <3>1. CASE p = room
      <4>1. Advance(b, p)' = i
        BY <1>5, <3>1 DEF Advance
      <4>2. Full(buf[i])'
        BY <1>4, <1>12 DEF Full
      <4> QED
        BY <1>3, <1>8, <4>1, <4>2 DEF Full, Advance
    <3>2. CASE p # room
      <4>1. p \in 0 .. room - 1
        BY <1>5, <1>10, <2>1, <3>2
      <4>2. Full(buf[Advance(b, p)]) /\ buf'[Advance(b, p)] = buf[Advance(b, p)]
        BY <1>12, <1>17, <4>1
      <4>3. Full(buf[Advance(b, p)])'
        BY <1>4, <4>2 DEF Full, Advance
      <4> QED
        BY <1>3, <1>8, <4>3 DEF Full
    <3> QED
      BY <3>1, <3>2
  <2>2. ASSUME NEW j \in Slots, desc'[j].own PROVE desc'[j].addr = buf'[j]
    <3>1. CASE j = i
      BY <1>14, <3>1
    <3>2. CASE j # i
      BY <1>2, <1>12, <1>13, <2>2, <3>2 DEF Stock
    <3> QED
      BY <3>1, <3>2
  <2> QED
    BY <1>4, <1>16, <2>1, <2>2 DEF Stock
<1>19. FramesStay /\ FramesGrow
  BY <1>2, <1>4 DEF FramesStay, FramesGrow, Types
<1>20. GivenStays
  BY <1>16 DEF GivenStays, Held, Given
<1>21. GivenWhole' /\ Ordered' /\ Once'
  BY <1>2, <1>4, <1>15, <1>16, <1>19, <1>20, HeldSame, GivenWholeStays, OrderedStays, OnceStays
<1>22. Channel'
  <2>1. \A j \in Slots : desc'[j].of <= Len(frames')
    <3> SUFFICES ASSUME NEW j \in Slots PROVE desc'[j].of <= Len(frames)
      BY <1>4
    <3>1. CASE j = i
      <4>1. Len(frames) \in Nat
        BY <1>2 DEF Types
      <4> QED
        BY <1>14, <3>1, <4>1
    <3>2. CASE j # i
      BY <1>2, <1>13, <3>2 DEF Channel
    <3> QED
      BY <3>1, <3>2
  <2> QED
    BY <1>2, <1>4, <2>1 DEF Channel, Bytes, Header, Lesser
<1>23. LaidOut'
  <2>1. Settled(t)'
    BY <1>1, <1>2, <1>4, <1>15, <1>19, SettledStays DEF Laid
  <2>2. Collected(t + 1, n)'
    <3>1. skb_top # 0 => SkbStays(skb_top)
      BY <1>16 DEF Held
    <3> QED
      BY <1>1, <1>4, <3>1, CollectedStays DEF Laid
  <2>3. \A q \in 0 .. at - 1 : SlotStays(Advance(b, q))
    <3> SUFFICES ASSUME NEW q \in 0 .. at - 1 PROVE SlotStays(Advance(b, q))
      OBVIOUS
    <3>1. q \in 0 .. room - 1
      BY <1>5
    <3> QED
      BY <1>16, <1>17, <3>1
  <2>4. Due(b, at, at) /\ \A q \in at .. at - 1 : Followed(b, at, q)'
    BY <1>4, DueSame
  <2>5. Handed(b, at, room + 1)'
    <3>1. dma.idx = Advance(b, at) /\ \A p \in 0 .. RX_DESC_CNT - 1 : desc[Advance(b, p)].own <=> at <= p /\ p < room
      BY <1>1, <1>3 DEF Laid, Handed
    <3>2. ASSUME NEW p \in 0 .. RX_DESC_CNT - 1
          PROVE  desc'[Advance(b, p)].own <=> at <= p /\ p < room + 1
      <4>1. CASE p = room
        BY <1>5, <1>14, <4>1
      <4>2. CASE p # room
        <5>1. desc'[Advance(b, p)] = desc[Advance(b, p)]
          BY <1>5, <1>13, <4>2
        <5>2. p < room + 1 <=> p < room
          BY <1>5, <4>2
        <5> QED
          BY <3>1, <5>1, <5>2
      <4> QED
        BY <4>1, <4>2
    <3> QED
      BY <1>4, <3>1, <3>2 DEF Handed, Advance
  <2>6. room + 1 \in Nat /\ at <= room + 1
    BY <1>5
  <2> QED
    BY <1>1, <1>2, <1>3, <1>8, <1>10, <1>15, <1>19, <2>1, <2>2, <2>3, <2>4, <2>5, <2>6, LaidKept
<1> QED
  BY <1>11, <1>15, <1>16, <1>18, <1>21, <1>22, <1>23 DEF ChainInv

-----------------------------------------------------------------------------
(* The MAC and the DMA.                                                    *)

LEMMA PollSame ==
    ASSUME UNCHANGED <<pc, poll, cur_rx, dirty_rx, skb_realloc_idx, lost>>
    PROVE  Coming' = Coming /\ Room' = Room /\ (Counts => Counts')
<1>1. Coming' = Coming /\ Behind' = Behind /\ Room' = Room
  BY DEF Coming, Behind, Room
<1>2. ASSUME Counts PROVE (Coming = Advance(skb_realloc_idx, Behind))'
  BY <1>1, <1>2 DEF Counts, Advance
<1> QED
  BY <1>1, <1>2 DEF Counts

\* A step that takes at most an OWN bit.
LEMMA StockSame ==
    ASSUME Stock, Coming' = Coming, Room' = Room, UNCHANGED <<buf, mode>>,
           Len(skbs') = Len(skbs), Len(pages') = Len(pages),
           \A i \in Slots : desc'[i].own => desc[i].own /\ desc'[i].addr = desc[i].addr
    PROVE  Stock'
<1>1. ASSUME NEW p \in 0 .. Room' - 1 PROVE Full(buf[Advance(Coming, p)])'
  <2>1. PICK b : b = Coming
    OBVIOUS
  <2>2. Full(buf[Advance(b, p)])
    BY <1>1, <2>1 DEF Stock
  <2>3. Full(buf[Advance(b, p)])'
    BY <2>2 DEF Full, Advance
  <2> QED
    BY <2>1, <2>3 DEF Full
<1> QED
  BY <1>1 DEF Stock

LEMMA ArriveStep ==
    ASSUME ChainInv, NEW k \in Kinds, FrameArrives(k)
    PROVE  ChainInv'
<1>1. PICK at \in Nat, t \in Nat, n \in Nat : Laid(at, t, n)
  BY DEF ChainInv, LaidOut
<1>2. /\ Types /\ Counts /\ Stock /\ Distinct(buf) /\ Apart /\ Clean /\ Channel /\ GivenWhole /\ Ordered /\ Once
  BY DEF ChainInv
<1>3. /\ UNCHANGED <<mode, pc, poll, desc, buf, cur_rx, dirty_rx, skb_realloc_idx, skb_top, skbs, pages>>
      /\ UNCHANGED <<gone, delivered, lost>>
      /\ dma.left = 0 /\ ~dma.owes /\ frames' = Append(frames, k)
      /\ dma' = [dma EXCEPT !.left = k.len, !.part = 0]
  BY DEF FrameArrives, ring, heap
<1>4. k.len \in Nat \ {0}
  <2>1. k \in KindType
    BY ChainAssumption
  <2> QED
    BY <2>1 DEF KindType
<1>5. /\ dma' \in DmaType /\ dma'.idx = dma.idx /\ dma'.left = k.len /\ dma'.part = 0 /\ ~dma'.owes
      /\ dma'.lates = dma.lates
  <2>1. dma \in DmaType
    BY <1>2 DEF Types
  <2> QED
    BY <1>3, <1>4, <2>1 DEF DmaType
<1>6. /\ frames' \in Seq(Kinds) /\ Len(frames') = Len(frames) + 1 /\ Len(frames) \in Nat
      /\ frames'[Len(frames) + 1] = k /\ \A f \in 1 .. Len(frames) : frames'[f] = frames[f]
      /\ DOMAIN frames = 1 .. Len(frames) /\ DOMAIN frames' = 1 .. Len(frames) + 1
  BY <1>2, <1>3 DEF Types
<1>7. Types'
  <2>1. gone' \subseteq DOMAIN frames'
    BY <1>2, <1>3, <1>6 DEF Types
  <2> QED
    BY <1>2, <1>3, <1>5, <1>6, <2>1 DEF Types
<1>8. Coming' = Coming /\ Room' = Room /\ Counts'
  BY <1>2, <1>3, PollSame
<1>9. Stock'
  BY <1>2, <1>3, <1>8, StockSame
<1>10. Distinct(buf)' /\ Apart' /\ Clean'
  <2>1. Given' = Given /\ Held' = Held
    BY <1>3 DEF Given, Held
  <2>2. Apart'
    BY <1>2, <1>3, <2>1 DEF Apart, Out
  <2>3. Distinct(buf)'
    BY <1>2, <1>3 DEF Distinct
  <2>4. Clean'
    BY <1>2, <1>3, <1>5 DEF Clean, Waits, Late
  <2> QED
    BY <2>2, <2>3, <2>4
<1>11. Channel'
  <2>1. Bytes(Len(frames), dma.part)' = 0
    <3>1. BufLen * 0 = 0
      BY Sizes
    <3> QED
      BY <1>5, <3>1 DEF Bytes
  <2>2. Bytes(Len(frames), dma.part)' + dma'.left = frames'[Len(frames')].len
    BY <1>4, <1>5, <1>6, <2>1
  <2>3. \A i \in Slots : desc'[i].of <= Len(frames')
    <3> SUFFICES ASSUME NEW i \in Slots PROVE desc'[i].of <= Len(frames')
      OBVIOUS
    <3>1. desc[i] \in DescType /\ desc[i].of <= Len(frames)
      BY <1>2 DEF Types, Channel
    <3>2. desc[i].of \in Nat
      BY <3>1 DEF DescType
    <3> QED
      BY <1>3, <1>6, <3>1, <3>2
  <2> QED
    BY <1>5, <1>6, <2>2, <2>3 DEF Channel
<1>12. FramesStay /\ FramesGrow
  BY <1>3, <1>6 DEF FramesStay, FramesGrow
<1>13. GivenWhole' /\ Ordered' /\ Once'
  BY <1>2, <1>3, <1>7, <1>12, HeapSame, HeldSame, GivenWholeStays, OrderedStays, OnceStays
<1>14. LaidOut'
  <2>1. PICK b, room : b = Coming /\ room = Room
    OBVIOUS
  <2>2. b \in Slots /\ room \in Nat /\ room <= RX_DESC_CNT /\ at <= room
    BY <1>1, <1>2, <2>1, Ground, Sizes DEF Laid
  <2>3. Settled(t)'
    BY <1>1, <1>2, <1>3, <1>7, <1>12, SettledStays DEF Laid
  <2>4. Collected(t + 1, n)'
    BY <1>1, <1>3, HeapSame, CollectedStays DEF Laid
  <2>5. \A q \in 0 .. at - 1 : SlotStays(Advance(b, q))
    BY <1>3, HeapSame DEF SlotStays
  <2>6. Due(b, at, at) /\ \A q \in at .. at - 1 : Followed(b, at, q)'
    <3>1. ASSUME NEW u \in Nat, NEW m \in Nat, DmaAt(u, m) PROVE PartAt(b, at, at, u, m)'
      <4>1. m = 0 /\ u = Len(frames)
        BY <1>3, <3>1 DEF DmaAt
      <4>2. u + 1 = Len(frames')
        BY <1>6, <4>1
      <4>3. DmaAt(u, m)'
        BY <1>4, <1>5, <4>1, <4>2 DEF DmaAt
      <4> QED
        BY <4>3 DEF PartAt
    <3> QED
      BY <1>3, <3>1 DEF Due
  <2>7. Handed(b, at, room)'
    <3>1. Handed(b, at, room)
      BY <1>1, <2>1 DEF Laid
    <3> QED
      BY <1>3, <1>5, <3>1 DEF Handed, Advance
  <2> QED
    BY <1>1, <1>2, <1>7, <1>8, <1>12, <2>1, <2>2, <2>3, <2>4, <2>5, <2>6, <2>7, LaidKept
<1> QED
  BY <1>7, <1>8, <1>9, <1>10, <1>11, <1>13, <1>14 DEF ChainInv

\* The descriptor the DMA is at, when it owns it.
LEMMA DmaSlot ==
    ASSUME ChainInv, desc[dma.idx].own,
           NEW at \in Nat, NEW t \in Nat, NEW n \in Nat, Laid(at, t, n),
           NEW i, i = dma.idx, NEW b, b = Coming, NEW room, room = Room
    PROVE  /\ i \in Slots /\ b \in Slots /\ room \in 0 .. RX_DESC_CNT /\ at + 1 <= room
           /\ at \in 0 .. RX_DESC_CNT - 1 /\ i = Advance(b, at) /\ Advance(i, 1) = Advance(b, at + 1)
           /\ \A p \in 0 .. RX_DESC_CNT - 1 : p # at => Advance(b, p) # i /\ Advance(b, p) \in Slots
           /\ \A p \in 0 .. room - 1 : Advance(b, p) \in Slots /\ Full(buf[Advance(b, p)])
           /\ desc[i].addr = buf[i] /\ buf[i] \in BufType /\ Full(buf[i])
<1>1. Types /\ Counts /\ Stock
  BY DEF ChainInv
<1>2. i \in Slots /\ b \in Slots /\ room \in 0 .. RX_DESC_CNT
  BY <1>1, Ground DEF Types, DmaType
<1>3. at <= room /\ Handed(b, at, room) /\ i = Advance(b, at)
  BY DEF Laid, Handed
<1>4. at \in 0 .. RX_DESC_CNT - 1
  <2>1. at \in 0 .. RX_DESC_CNT
    BY <1>2, <1>3, Sizes
  <2>2. CASE at = RX_DESC_CNT
    <3>1. i = b
      BY <1>2, <1>3, <2>2, Sizes DEF Advance
    <3>2. 0 \in 0 .. RX_DESC_CNT - 1 /\ Advance(b, 0) = b
      BY <1>2, AdvanceZero, Sizes
    <3>3. at <= 0
      BY <1>3, <3>1, <3>2 DEF Handed
    <3> QED
      BY <2>2, <3>3, Sizes
  <2> QED
    BY <2>1, <2>2, Sizes
<1>5. at < room /\ at + 1 <= room
  <2>1. at < room
    BY <1>3, <1>4 DEF Handed
  <2> QED
    BY <1>2, <2>1
<1>6. Advance(i, 1) = Advance(b, at + 1)
  BY <1>2, <1>3, <1>4, AdvanceNext
<1>7. ASSUME NEW p \in 0 .. RX_DESC_CNT - 1, p # at PROVE Advance(b, p) # i /\ Advance(b, p) \in Slots
  <2>1. p \in 0 .. RX_DESC_CNT
    BY Sizes
  <2> QED
    BY <1>2, <1>3, <1>4, <1>7, <2>1, AdvanceApart, AdvanceType
<1>8. ASSUME NEW p \in 0 .. room - 1 PROVE Advance(b, p) \in Slots /\ Full(buf[Advance(b, p)])
  <2>1. p \in 0 .. RX_DESC_CNT
    BY <1>2, Sizes
  <2> QED
    BY <1>1, <1>2, <2>1, AdvanceType DEF Stock
<1>9. desc[i].addr = buf[i] /\ buf[i] \in BufType /\ Full(buf[i])
  <2>1. at \in 0 .. room - 1
    BY <1>2, <1>5
  <2> QED
    BY <1>1, <1>2, <1>3, <1>8, <2>1 DEF Stock, Types
<1> QED
  BY <1>2, <1>3, <1>4, <1>5, <1>6, <1>7, <1>8, <1>9

LEMMA StampStep ==
    ASSUME ChainInv, DmaStamp
    PROVE  ChainInv'
<1>1. PICK at \in Nat, t \in Nat, n \in Nat : Laid(at, t, n)
  BY DEF ChainInv, LaidOut
<1>2. /\ Types /\ Counts /\ Stock /\ Distinct(buf) /\ Apart /\ Clean /\ Channel /\ GivenWhole /\ Ordered /\ Once
  BY DEF ChainInv
<1>3. PICK i, b, room : i = dma.idx /\ b = Coming /\ room = Room
  OBVIOUS
<1>4. /\ UNCHANGED <<mode, pc, poll, buf, cur_rx, dirty_rx, skb_realloc_idx, skb_top, skbs, pages>>
      /\ UNCHANGED <<frames, gone, delivered, lost>>
      /\ dma.owes /\ desc[i].own
      /\ desc' = [desc EXCEPT ![i] = [desc[i] EXCEPT !.own = FALSE, !.ctxt = TRUE, !.of = Len(frames)]]
      /\ dma' = [dma EXCEPT !.idx = Advance(i, 1), !.owes = FALSE]
  BY <1>3 DEF DmaStamp, ring, heap, F
<1>5. /\ i \in Slots /\ b \in Slots /\ room \in 0 .. RX_DESC_CNT /\ at + 1 <= room
      /\ at \in 0 .. RX_DESC_CNT - 1 /\ i = Advance(b, at) /\ Advance(i, 1) = Advance(b, at + 1)
      /\ \A p \in 0 .. RX_DESC_CNT - 1 : p # at => Advance(b, p) # i /\ Advance(b, p) \in Slots
  BY <1>1, <1>3, <1>4, DmaSlot
<1>6. /\ dma' \in DmaType /\ dma'.idx = Advance(i, 1) /\ dma'.left = dma.left /\ ~dma'.owes /\ dma'.lates = dma.lates
  <2>1. dma \in DmaType /\ Advance(i, 1) \in Slots
    BY <1>2, <1>5, AdvanceZero DEF Types
  <2> QED
    BY <1>4, <2>1 DEF DmaType
<1>7. dma.left = 0 /\ Len(frames) > 0
  BY <1>2, <1>4 DEF Channel
<1>8. /\ desc' \in [Slots -> DescType] /\ (\A j \in Slots : j # i => desc'[j] = desc[j])
      /\ ~desc'[i].own /\ desc'[i].ctxt /\ desc'[i].of = Len(frames)
  <2>1. desc \in [Slots -> DescType] /\ Len(frames) \in Nat
    BY <1>2 DEF Types
  <2>2. PICK d : d = [desc[i] EXCEPT !.own = FALSE, !.ctxt = TRUE, !.of = Len(frames)]
    OBVIOUS
  <2>3. d \in DescType /\ ~d.own /\ d.ctxt /\ d.of = Len(frames)
    <3>1. desc[i] \in DescType
      BY <1>5, <2>1
    <3> QED
      BY <2>1, <2>2, <3>1 DEF DescType
  <2>4. desc' = [desc EXCEPT ![i] = d]
    BY <1>4, <2>2
  <2> QED
    BY <1>5, <2>1, <2>3, <2>4
<1>9. Types'
  BY <1>2, <1>4, <1>6, <1>8 DEF Types
<1>10. Coming' = Coming /\ Room' = Room /\ Counts'
  BY <1>2, <1>4, PollSame
<1>11. Stock'
  <2>1. \A j \in Slots : desc'[j].own => desc[j].own /\ desc'[j].addr = desc[j].addr
    BY <1>8
  <2> QED
    BY <1>2, <1>4, <1>10, <2>1, StockSame
<1>12. Distinct(buf)' /\ Apart' /\ Clean'
  <2>1. Given' = Given /\ Held' = Held
    BY <1>4 DEF Given, Held
  <2>2. Apart'
    BY <1>2, <1>4, <2>1 DEF Apart, Out
  <2>3. Distinct(buf)'
    BY <1>2, <1>4 DEF Distinct
  <2>4. \A j \in Slots : \A skb : Waits(desc[j], skb) => Waits(desc[j], skb)'
    BY <1>4, <1>6, <1>8 DEF Waits, Late
  <2>5. Clean'
    BY <1>2, <1>4, <2>4 DEF Clean
  <2> QED
    BY <2>2, <2>3, <2>5
<1>13. Channel'
  <2>1. \A j \in Slots : desc'[j].of <= Len(frames)
    <3>1. Len(frames) \in Nat
      BY <1>2 DEF Types
    <3> QED
      BY <1>2, <1>8, <3>1 DEF Channel
  <2>2. ~(dma'.left > 0)
    BY <1>6, <1>7
  <2> QED
    BY <1>4, <1>6, <2>1, <2>2 DEF Channel
<1>14. FramesStay /\ FramesGrow
  BY <1>2, <1>4 DEF FramesStay, FramesGrow, Types
<1>15. GivenWhole' /\ Ordered' /\ Once'
  BY <1>2, <1>4, <1>9, <1>14, HeapSame, HeldSame, GivenWholeStays, OrderedStays, OnceStays
<1>16. LaidOut'
  <2>1. Settled(t)'
    BY <1>1, <1>2, <1>4, <1>9, <1>14, SettledStays DEF Laid
  <2>2. Collected(t + 1, n)'
    BY <1>1, <1>4, HeapSame, CollectedStays DEF Laid
  <2>3. \A q \in 0 .. at - 1 : SlotStays(Advance(b, q))
    <3> SUFFICES ASSUME NEW q \in 0 .. at - 1 PROVE SlotStays(Advance(b, q))
      OBVIOUS
    <3>1. q \in 0 .. RX_DESC_CNT - 1 /\ q # at
      BY <1>5, Sizes
    <3> QED
      BY <1>4, <1>5, <1>8, <3>1, HeapSame DEF SlotStays
  <2>4. Due(b, at, at + 1)
    <3>1. ASSUME NEW f, f = Len(frames) PROVE StampAt(b, at + 1, at, f)'
      <4>1. at < at + 1 /\ at # at + 1
        OBVIOUS
      <4>2. desc'[Advance(b, at)].ctxt /\ desc'[Advance(b, at)].of = f
        BY <1>5, <1>8, <3>1
      <4> QED
        BY <4>1, <4>2 DEF StampAt, Advance
    <3> QED
      BY <1>4, <3>1 DEF Due, DmaAt
  <2>5. Followed(b, at + 1, at)'
    <3>1. PICK f, d : f = Len(frames) /\ d = desc'[i]
      OBVIOUS
    <3>2. PartAt(b, at + 1, at + 1, f, 0)'
      BY <1>4, <1>6, <1>7, <3>1 DEF PartAt, DmaAt
    <3>3. Advance(b, at)' = i
      BY <1>5 DEF Advance
    <3>4. d.ctxt /\ d.of = f
      BY <1>8, <3>1
    <3> QED
      BY <3>1, <3>2, <3>3, <3>4 DEF Followed
  <2>6. Handed(b, at + 1, room)'
    <3>1. \A p \in 0 .. RX_DESC_CNT - 1 : desc[Advance(b, p)].own <=> at <= p /\ p < room
      BY <1>1, <1>3 DEF Laid, Handed
    <3>2. ASSUME NEW p \in 0 .. RX_DESC_CNT - 1
          PROVE  desc'[Advance(b, p)].own <=> at + 1 <= p /\ p < room
      <4>1. CASE p = at
        BY <1>5, <1>8, <4>1
      <4>2. CASE p # at
        <5>1. desc'[Advance(b, p)] = desc[Advance(b, p)]
          BY <1>5, <1>8, <4>2
        <5>2. at <= p <=> at + 1 <= p
          BY <4>2
        <5> QED
          BY <3>1, <5>1, <5>2
      <4> QED
        BY <4>1, <4>2
    <3>3. dma'.idx = Advance(b, at + 1)
      BY <1>5, <1>6
    <3> QED
      BY <3>2, <3>3 DEF Handed, Advance
  <2>7. room \in Nat /\ room <= RX_DESC_CNT /\ at + 1 \in Nat /\ at <= at + 1
    BY <1>5, Sizes
  <2>8. \A q \in at .. (at + 1) - 1 : Followed(b, at + 1, q)'
    <3>1. \A q \in at .. (at + 1) - 1 : q = at
      OBVIOUS
    <3> QED
      BY <2>5, <3>1
  <2> QED
    BY <1>1, <1>2, <1>3, <1>5, <1>9, <1>10, <1>14, <2>1, <2>2, <2>3, <2>4, <2>6, <2>7, <2>8, LaidKept
<1> QED
  BY <1>9, <1>10, <1>11, <1>12, <1>13, <1>15, <1>16 DEF ChainInv

LEMMA BegunNextOnce ==
    ASSUME Types', NEW i, NEW f, NEW n \in Nat, NEW m \in Nat, Begun(i, f, n)', Begun(i, f, m)'
    PROVE  n = m
<1>1. (n = 0 <=> m = 0) /\ (mode' = "jumbo" \/ mode' = "split")
  BY DEF Begun, Describes, Types
<1>2. CASE mode' = "jumbo"
  <2>1. <<f, n + 1>> = <<f, m + 1>>
    BY <1>2 DEF Begun, Holds
  <2> QED
    BY <2>1
<1>3. CASE mode' = "split" /\ n > 0
  <2>1. <<f, n + 1>> = <<f, m + 1>>
    BY <1>1, <1>3 DEF Begun, Holds
  <2> QED
    BY <2>1
<1> QED
  BY <1>1, <1>2, <1>3

\* What the DMA puts into the two buffers of a descriptor.
DmaRest == dma.left - First - Second
DmaOne  == IF First > 0 THEN dma.part + 1 ELSE dma.part
DmaTwo  == IF Second > 0 THEN DmaOne + 1 ELSE DmaOne

\* A descriptor whose buffers take up to w and up to s bytes, and left bytes to go.
LEMMA Filled ==
    ASSUME NEW left \in Nat \ {0}, NEW w \in Nat, NEW s \in Nat \ {0},
           NEW x \in Nat, NEW y \in Nat, NEW e \in Nat,
           x = w \/ x = left, x <= w, x <= left,
           y = s \/ y = left - x, y <= s, y <= left - x
    PROVE  /\ left - x - y = 0 <=> e + left <= e + w + s
           /\ left - x - y > 0 => (e + w + s) + (left - x - y) = e + left /\ y > 0
           /\ e + w < e + left => y > 0
<1>1. CASE x = w /\ y = s
  BY <1>1
<1>2. CASE x = w /\ y = left - x
  BY <1>2
<1>3. CASE x = left
  <2>1. y = 0
    BY <1>3
  <2> QED
    BY <1>3, <2>1
<1> QED
  BY <1>1, <1>2, <1>3

LEMMA DmaParts ==
    ASSUME Ordinary, Types, Channel, dma.left > 0, NEW f, f = Len(frames), NEW n, n = dma.part
    PROVE  /\ f \in 1 .. Len(frames) /\ n \in Nat /\ n # 1
           /\ First \in Nat /\ Second \in Nat /\ DmaRest \in Nat
           /\ DmaOne \in Nat /\ DmaTwo \in Nat
           /\ Bytes(f, n) < frames[f].len
           /\ DmaRest = 0 <=> frames[f].len <= Bytes(f, n + PerDesc(n))
           /\ frames[f].len - DmaRest = (IF DmaRest = 0 THEN frames[f].len ELSE Bytes(f, n + PerDesc(n)))
           /\ DmaRest > 0 => DmaTwo = n + PerDesc(n) /\ DmaTwo # 1 /\ Bytes(f, DmaTwo) + DmaRest = frames[f].len
           /\ mode = "jumbo" \/ n = 0 => First > 0 /\ DmaOne = n + 1
           /\ (mode = "jumbo" \/ n = 0) /\ Bytes(f, n + 1) < frames[f].len => Second > 0 /\ DmaTwo = n + 2
           /\ mode = "split" /\ n > 0 => First = 0 /\ Second > 0 /\ DmaTwo = n + 1
<1>1. /\ f \in 1 .. Len(frames) /\ n \in Nat /\ n # 1 /\ dma.left \in Nat
      /\ Bytes(f, n) + dma.left = frames[f].len
  <2>1. dma \in DmaType /\ Len(frames) \in Nat
    BY DEF Types
  <2>2. n \in Nat /\ dma.left \in Nat
    BY <2>1 DEF DmaType
  <2> QED
    BY <2>1, <2>2 DEF Channel
<1>2. /\ frames[f].len \in Nat \ {0} /\ frames[f].hl \in Nat /\ frames[f].hl <= frames[f].len
      /\ Header(f) \in Nat \ {0} /\ Header(f) <= frames[f].len
      /\ BufLen \in Nat \ {0} /\ HdrSize \in Nat \ {0} /\ (mode = "jumbo" \/ mode = "split")
  BY <1>1, FrameFacts, Sizes DEF Types
<1>3. /\ PerDesc(n) \in {1, 2} /\ Bytes(f, n) \in Nat /\ Bytes(f, n + 1) \in Nat /\ Bytes(f, n + PerDesc(n)) \in Nat
      /\ PerDesc(n) = 2 => Bytes(f, n + 2) = Bytes(f, n + 1) + BufLen
  BY <1>1, BytesPer
<1>4. Bytes(f, n + 1) = Bytes(f, n) + (IF mode = "split" /\ n = 0 THEN Header(f) ELSE BufLen)
  BY <1>1, BytesNext
<1>5. Bytes(f, 0) = 0
  <2>1. BufLen * 0 = 0
    BY <1>2
  <2> QED
    BY <2>1 DEF Bytes
<1>6. PICK left \in Nat \ {0} : left = dma.left
  BY <1>1
<1>7. PICK width \in Nat \ {0} : width = IF mode = "split" /\ n = 0 THEN Header(f) ELSE BufLen
  BY <1>2
<1>8. CASE mode = "jumbo" \/ n = 0
  <2>1. First = Lesser(width, left)
    <3>1. CASE mode = "jumbo"
      BY <1>6, <1>7, <3>1 DEF First
    <3>2. CASE mode # "jumbo"
      <4>1. n = 0 /\ width = Header(f) /\ left = frames[f].len /\ ~(dma.part > 0) /\ K = frames[f]
        BY <1>1, <1>2, <1>5, <1>6, <1>7, <1>8, <3>2 DEF K, F
      <4>2. Lesser(width, left) = Header(f)
        BY <1>2, <4>1 DEF Lesser
      <4>3. First = (IF frames[f].hl > 0 THEN frames[f].hl ELSE Lesser(HdrSize, left))
        BY <1>6, <3>2, <4>1 DEF First
      <4>4. First = Header(f)
        BY <4>1, <4>3 DEF Header
      <4> QED
        BY <4>2, <4>4
    <3> QED
      BY <3>1, <3>2
  <2>2. PICK first \in Nat \ {0} : /\ first = First /\ first <= width /\ first <= left
                                   /\ (first = width \/ first = left)
    BY <2>1 DEF Lesser
  <2>3. PICK second \in Nat : /\ second = Second /\ second <= BufLen /\ second <= left - first
                              /\ (second = BufLen \/ second = left - first)
    BY <1>2, <1>6, <2>2 DEF Second, Lesser
  <2>4. PICK rest \in Nat : rest = DmaRest /\ rest = left - first - second
    BY <1>6, <2>2, <2>3 DEF DmaRest
  <2>5. DmaOne = n + 1 /\ (second > 0 => DmaTwo = n + 2) /\ (second = 0 => DmaTwo = n + 1)
    <3>1. DmaOne = n + 1
      BY <2>2 DEF DmaOne
    <3>2. (n + 1) + 1 = n + 2
      BY <1>1
    <3> QED
      BY <2>3, <3>1, <3>2 DEF DmaTwo
  <2>6. PerDesc(n) = 2
    BY <1>8 DEF PerDesc
  <2>7. PICK e0 \in Nat, e1 \in Nat, e2 \in Nat, len \in Nat :
            /\ e0 = Bytes(f, n) /\ e1 = Bytes(f, n + 1) /\ e2 = Bytes(f, n + 2) /\ len = frames[f].len
            /\ e1 = e0 + width /\ e2 = e1 + BufLen /\ e0 + left = len
    BY <1>1, <1>2, <1>3, <1>4, <1>6, <1>7, <2>6
  <2>8. e0 < len /\ (rest = 0 <=> len <= e2) /\ (rest > 0 => e2 + rest = len /\ second > 0) /\ (e1 < len => second > 0)
    <3>1. PICK bl \in Nat \ {0} : bl = BufLen
      BY <1>2
    <3>2. /\ left - first - second = 0 <=> e0 + left <= e0 + width + bl
          /\ left - first - second > 0 => (e0 + width + bl) + (left - first - second) = e0 + left /\ second > 0
          /\ e0 + width < e0 + left => second > 0
      BY <2>2, <2>3, <3>1, Filled
    <3>3. e1 = e0 + width /\ e2 = e0 + width + bl /\ len = e0 + left /\ rest = left - first - second
      BY <2>4, <2>7, <3>1
    <3>4. e0 < len
      BY <3>3
    <3> QED
      BY <3>2, <3>3, <3>4
  <2>9. n + PerDesc(n) = n + 2 /\ n + 2 # 1 /\ n + 1 \in Nat /\ n + 2 \in Nat
    BY <1>1, <2>6
  <2>10. len - rest = IF rest = 0 THEN len ELSE e2
    BY <2>7, <2>8
  <2>11. ~(mode = "split" /\ n > 0)
    BY <1>8
  <2>12. First \in Nat /\ First > 0 /\ Second \in Nat /\ DmaOne \in Nat /\ DmaTwo \in Nat
    BY <2>2, <2>3, <2>5, <2>9
  <2>13. DmaRest > 0 => DmaTwo = n + PerDesc(n) /\ DmaTwo # 1 /\ Bytes(f, DmaTwo) + DmaRest = frames[f].len
    <3> SUFFICES ASSUME DmaRest > 0
                 PROVE  DmaTwo = n + PerDesc(n) /\ DmaTwo # 1 /\ Bytes(f, DmaTwo) + DmaRest = frames[f].len
      OBVIOUS
    <3>1. DmaTwo = n + 2
      BY <2>4, <2>5, <2>8
    <3> QED
      BY <2>4, <2>7, <2>8, <2>9, <3>1
  <2> QED
    BY <1>1, <1>8, <2>3, <2>4, <2>5, <2>7, <2>8, <2>9, <2>10, <2>11, <2>12, <2>13
<1>9. CASE mode = "split" /\ n > 0
  <2>1. First = 0
    BY <1>9 DEF First
  <2>2. PICK second \in Nat : /\ second = Second /\ second > 0 /\ second <= BufLen /\ second <= left
                              /\ (second = BufLen \/ second = left)
    BY <1>2, <1>6, <2>1 DEF Second, Lesser
  <2>3. PICK rest \in Nat : rest = DmaRest /\ rest = left - second
    BY <1>6, <2>1, <2>2 DEF DmaRest
  <2>4. DmaOne = n /\ DmaTwo = n + 1
    BY <2>1, <2>2 DEF DmaOne, DmaTwo
  <2>5. PerDesc(n) = 1
    BY <1>9 DEF PerDesc
  <2>6. PICK e0 \in Nat, e1 \in Nat, len \in Nat :
            /\ e0 = Bytes(f, n) /\ e1 = Bytes(f, n + 1) /\ len = frames[f].len
            /\ e1 = e0 + BufLen /\ e0 + left = len
    BY <1>1, <1>2, <1>3, <1>4, <1>6, <1>9, SMTT(30)
  <2>7. e0 < len /\ (rest = 0 <=> len <= e1) /\ (rest > 0 => e1 + rest = len)
    <3>1. PICK bl \in Nat \ {0} : bl = BufLen
      BY <1>2
    <3>2. /\ left - 0 - second = 0 <=> e0 + left <= e0 + 0 + bl
          /\ left - 0 - second > 0 => (e0 + 0 + bl) + (left - 0 - second) = e0 + left
      <4>1. 0 \in Nat /\ 0 <= left /\ (second = bl \/ second = left - 0) /\ second <= bl /\ second <= left - 0
        BY <2>2, <3>1
      <4> QED
        BY <3>1, <4>1, Filled
    <3>3. e1 = e0 + bl /\ len = e0 + left /\ rest = left - second
      BY <2>3, <2>6, <3>1
    <3> QED
      BY <3>2, <3>3
  <2>8. n + PerDesc(n) = n + 1 /\ n + 1 # 1 /\ n + 1 \in Nat
    BY <1>1, <1>9, <2>5
  <2>9. len - rest = IF rest = 0 THEN len ELSE e1
    BY <2>6, <2>7
  <2>10. ~(mode = "jumbo" \/ n = 0)
    BY <1>1, <1>9
  <2>11. First \in Nat /\ Second \in Nat /\ DmaOne \in Nat /\ DmaTwo \in Nat
    BY <1>1, <2>1, <2>2, <2>4, <2>8
  <2> QED
    BY <1>1, <1>9, <2>1, <2>2, <2>3, <2>4, <2>6, <2>7, <2>8, <2>9, <2>10, <2>11
<1> QED
  BY <1>1, <1>2, <1>8, <1>9

\* What the DMA's write leaves in the memory.
Wrote(i, f) ==
    /\ skbs' \in Seq(SkbType) /\ pages' \in Seq(DataType)
    /\ Len(skbs') = Len(skbs) /\ Len(pages') = Len(pages)
    /\ \A s \in DOMAIN skbs : skbs'[s].frags = skbs[s].frags /\ skbs'[s].put = skbs[s].put
    /\ \A s \in DOMAIN skbs : s # buf[i].skb => skbs'[s] = skbs[s]
    /\ \A p \in DOMAIN pages : p # buf[i].page /\ p # buf[i].page2 => pages'[p] = pages[p]
    /\ Second > 0 => pages'[buf[i].page2] = <<f, DmaTwo>>
    /\ First > 0 /\ mode = "jumbo" => pages'[buf[i].page] = <<f, DmaOne>>
    /\ First > 0 /\ mode = "split" => skbs'[buf[i].skb].data = <<f, DmaOne>>

LEMMA FunctionSeq ==
    ASSUME NEW T, NEW N \in Nat, NEW g \in [1 .. N -> T]
    PROVE  g \in Seq(T) /\ Len(g) = N
OBVIOUS

LEMMA DataHeap ==
    ASSUME Types, Stock, Distinct(buf), NEW i \in Slots, desc[i].addr = buf[i], Full(buf[i]),
           NEW f \in Nat, First \in Nat, Second \in Nat, DmaOne \in Nat, DmaTwo \in Nat,
           pages' = [p \in DOMAIN pages |->
                        IF p = buf[i].page2 /\ Second > 0 THEN <<f, DmaTwo>>
                        ELSE IF p = buf[i].page /\ First > 0 THEN <<f, DmaOne>>
                        ELSE pages[p]],
           skbs' = IF mode = "split" /\ First > 0
                   THEN [skbs EXCEPT ![buf[i].skb].data = <<f, DmaOne>>] ELSE skbs
    PROVE  Wrote(i, f)
<1>1. PICK one, two, first, second : one = DmaOne /\ two = DmaTwo /\ first = First /\ second = Second
  OBVIOUS
<1>2. PICK b \in BufType : b = buf[i]
  BY DEF Types
<1>3. /\ skbs \in Seq(SkbType) /\ pages \in Seq(DataType) /\ Len(pages) \in Nat /\ Len(skbs) \in Nat
      /\ DOMAIN skbs = 1 .. Len(skbs) /\ DOMAIN pages = 1 .. Len(pages)
  BY DEF Types
<1>4. /\ b.skb \in DOMAIN skbs /\ b.page2 \in DOMAIN pages /\ b.page # b.page2
      /\ mode = "jumbo" => b.page \in DOMAIN pages
  <2>1. b.skb \in Nat /\ b.page \in Nat /\ b.page2 \in Nat
    BY DEF BufType
  <2>2. b.skb > 0 /\ b.page2 > 0 /\ (mode = "jumbo" => b.page > 0)
    BY <1>2 DEF Full
  <2>3. b.skb <= Len(skbs) /\ b.page <= Len(pages) /\ b.page2 <= Len(pages)
    BY <1>2 DEF Stock
  <2>4. b.page = b.page2 => b.page = 0
    BY <1>2 DEF Distinct
  <2> QED
    BY <1>3, <2>1, <2>2, <2>3, <2>4
<1>5. /\ pages' = [p \in DOMAIN pages |->
                     IF p = b.page2 /\ second > 0 THEN <<f, two>>
                     ELSE IF p = b.page /\ first > 0 THEN <<f, one>>
                     ELSE pages[p]]
      /\ skbs' = IF mode = "split" /\ first > 0 THEN [skbs EXCEPT ![b.skb].data = <<f, one>>] ELSE skbs
  BY <1>1, <1>2
<1>6. <<f, one>> \in DataType /\ <<f, two>> \in DataType
  BY <1>1 DEF DataType
<1>7. pages' \in [1 .. Len(pages) -> DataType]
  <2>1. \A p \in 1 .. Len(pages) : pages[p] \in DataType
    BY <1>3
  <2> QED
    BY <1>3, <1>5, <1>6, <2>1
<1>8. pages' \in Seq(DataType) /\ Len(pages') = Len(pages)
  <2>1. PICK N \in Nat : N = Len(pages)
    BY <1>3
  <2> QED
    BY <1>7, <2>1, FunctionSeq
<1>9. \A p \in DOMAIN pages : p # b.page /\ p # b.page2 => pages'[p] = pages[p]
  BY <1>5
<1>10. (second > 0 => pages'[b.page2] = <<f, two>>) /\ (first > 0 /\ mode = "jumbo" => pages'[b.page] = <<f, one>>)
  BY <1>4, <1>5
<1>11. CASE mode = "split" /\ first > 0
  <2>1. PICK skb \in SkbType : skb = skbs[b.skb]
    BY <1>3, <1>4
  <2>2. PICK new : new = [skb EXCEPT !.data = <<f, one>>]
    OBVIOUS
  <2>3. new \in SkbType /\ new.data = <<f, one>> /\ new.frags = skb.frags /\ new.put = skb.put
    BY <1>6, <2>2 DEF SkbType
  <2>4. skbs' = [skbs EXCEPT ![b.skb] = new]
    BY <1>5, <1>11, <2>1, <2>2
  <2>5. skbs' \in Seq(SkbType) /\ Len(skbs') = Len(skbs) /\ skbs'[b.skb] = new
    <3>1. PICK N \in Nat : N = Len(skbs) /\ DOMAIN skbs = 1 .. N
      BY <1>3
    <3>2. skbs \in [1 .. N -> SkbType]
      <4>1. \A r \in 1 .. N : skbs[r] \in SkbType
        BY <1>3, <3>1
      <4>2. skbs = [r \in 1 .. N |-> skbs[r]]
        BY <1>3, <3>1
      <4> QED
        BY <4>1, <4>2
    <3>3. skbs' \in [1 .. N -> SkbType] /\ skbs'[b.skb] = new
      BY <1>4, <2>3, <2>4, <3>1, <3>2
    <3>4. PICK g \in [1 .. N -> SkbType] : g = skbs'
      BY <3>3
    <3>5. g \in Seq(SkbType) /\ Len(g) = N
      BY <3>1, FunctionSeq
    <3> QED
      BY <3>1, <3>3, <3>4, <3>5
  <2>6. \A s \in DOMAIN skbs : s # b.skb => skbs'[s] = skbs[s]
    BY <2>4
  <2>7. \A s \in DOMAIN skbs : skbs'[s].frags = skbs[s].frags /\ skbs'[s].put = skbs[s].put
    BY <2>1, <2>3, <2>5, <2>6
  <2> QED
    BY <1>1, <1>2, <1>8, <1>9, <1>10, <2>3, <2>5, <2>6, <2>7 DEF Wrote
<1>12. CASE ~(mode = "split" /\ first > 0)
  <2>1. skbs' = skbs
    BY <1>5, <1>12
  <2> QED
    BY <1>1, <1>2, <1>3, <1>8, <1>9, <1>10, <1>12, <2>1 DEF Wrote
<1> QED
  BY <1>11, <1>12

\* What it leaves alone: the buffers of the other descriptors, and all that left the ring.
LEMMA WroteApart ==
    ASSUME Types, Stock, Distinct(buf), Apart, NEW i \in Slots, NEW f, Wrote(i, f)
    PROVE  /\ \A j \in Slots : j # i /\ Full(buf[j]) => DataStays(buf[j])
           /\ \A s \in Held : SkbStays(s)
<1>1. 0 \notin DOMAIN skbs /\ 0 \notin DOMAIN pages /\ mode \in {"jumbo", "split"}
  BY DEF Types
<1>2. ASSUME NEW j \in Slots, j # i, Full(buf[j]) PROVE DataStays(buf[j])
  <2>1. PICK c \in BufType, b \in BufType : c = buf[j] /\ b = buf[i]
    BY DEF Types
  <2>2. /\ c.skb \in DOMAIN skbs /\ c.page2 \in DOMAIN pages
        /\ mode = "jumbo" => c.page \in DOMAIN pages
    <3>1. c.skb \in Nat /\ c.page \in Nat /\ c.page2 \in Nat
      BY DEF BufType
    <3>2. c.skb > 0 /\ c.page2 > 0 /\ (mode = "jumbo" => c.page > 0)
      BY <1>2, <2>1 DEF Full
    <3>3. c.skb <= Len(skbs) /\ c.page <= Len(pages) /\ c.page2 <= Len(pages)
      BY <2>1 DEF Stock
    <3>4. DOMAIN skbs = 1 .. Len(skbs) /\ DOMAIN pages = 1 .. Len(pages) /\ Len(skbs) \in Nat /\ Len(pages) \in Nat
      BY DEF Types
    <3> QED
      BY <3>1, <3>2, <3>3, <3>4
  <2>3. /\ c.skb = b.skb => c.skb = 0
        /\ c.page = b.page => c.page = 0
        /\ c.page2 = b.page2 => c.page2 = 0
        /\ c.page = b.page2 => c.page = 0
        /\ b.page = c.page2 => b.page = 0
    BY <1>2, <2>1 DEF Distinct
  <2>4. c.skb # b.skb /\ c.page2 # b.page /\ c.page2 # b.page2
    BY <1>1, <2>2, <2>3
  <2>5. mode = "jumbo" => c.page # b.page /\ c.page # b.page2
    BY <1>1, <2>2, <2>3
  <2>6. pages'[c.page2] = pages[c.page2] /\ skbs'[c.skb] = skbs[c.skb]
    BY <2>1, <2>2, <2>4 DEF Wrote
  <2>7. mode = "jumbo" => pages'[c.page] = pages[c.page]
    BY <2>1, <2>2, <2>5 DEF Wrote
  <2> QED
    BY <2>1, <2>6, <2>7 DEF DataStays
<1>3. ASSUME NEW s \in Held PROVE SkbStays(s)
  <2>1. s \in DOMAIN skbs /\ s # buf[i].skb
    BY DEF Apart
  <2>2. \A j \in 1 .. Len(skbs[s].frags) : Out(skbs[s].frags[j])
    <3>1. skbs[s] \in SkbType
      BY <2>1 DEF Types
    <3>2. DOMAIN skbs[s].frags = 1 .. Len(skbs[s].frags)
      BY <3>1 DEF SkbType
    <3> QED
      BY <3>2 DEF Apart
  <2>3. ASSUME NEW p, Out(p) PROVE pages'[p] = pages[p]
    BY <2>3 DEF Out, Wrote
  <2>4. skbs'[s] = skbs[s]
    BY <2>1 DEF Wrote
  <2> QED
    BY <2>2, <2>3, <2>4 DEF SkbStays
<1> QED
  BY <1>2, <1>3

\* The descriptor the DMA has written describes the part it has written.
LEMMA DataBegun ==
    ASSUME Ordinary, Types, Types', Channel, dma.left > 0, UNCHANGED <<mode, frames, buf>>,
           NEW i \in Slots, NEW f, f = Len(frames), NEW n, n = dma.part, Wrote(i, f),
           NEW d, d = desc'[i], ~d.ctxt, d.of = f, d.fd <=> n = 0, d.ld <=> DmaRest = 0,
           d.es <=> DmaRest = 0 /\ frames[f].es, d.stamp <=> DmaRest = 0 /\ frames[f].stamp,
           d.len = frames[f].len - DmaRest, n = 0 => d.hl = frames[f].hl
    PROVE  Begun(i, f, n)'
<1>1. /\ f \in 1 .. Len(frames) /\ n \in Nat /\ n # 1
      /\ Bytes(f, n) < frames[f].len
      /\ DmaRest = 0 <=> frames[f].len <= Bytes(f, n + PerDesc(n))
      /\ frames[f].len - DmaRest = (IF DmaRest = 0 THEN frames[f].len ELSE Bytes(f, n + PerDesc(n)))
      /\ mode = "jumbo" \/ n = 0 => First > 0 /\ DmaOne = n + 1
      /\ (mode = "jumbo" \/ n = 0) /\ Bytes(f, n + 1) < frames[f].len => Second > 0 /\ DmaTwo = n + 2
      /\ mode = "split" /\ n > 0 => First = 0 /\ Second > 0 /\ DmaTwo = n + 1
  BY DmaParts
<1>2. FramesStay
  BY DEF FramesStay, Types
<1>3. PICK e0, e1, e2, h1, k : /\ e0 = Bytes(f, n) /\ e1 = Bytes(f, n + 1) /\ h1 = Bytes(f, 1)
                               /\ e2 = Bytes(f, n + PerDesc(n)) /\ k = frames[f]
  OBVIOUS
<1>4. /\ e0 = Bytes(f, n)' /\ e1 = Bytes(f, n + 1)' /\ h1 = Bytes(f, 1)' /\ k = frames'[f]
      /\ PerDesc(n)' = PerDesc(n)
  BY <1>1, <1>2, <1>3, BytesStay
<1>5. e2 = Bytes(f, n + PerDesc(n))'
  <2>1. PICK m : m = n + PerDesc(n)
    OBVIOUS
  <2>2. m = (n + PerDesc(n))'
    BY <1>4, <2>1
  <2>3. e2 = Bytes(f, m)'
    BY <1>1, <1>2, <1>3, <2>1, BytesStay
  <2> QED
    BY <2>2, <2>3
<1>6. Describes(d, f, n)'
  <2>1. d.ld <=> k.len <= e2
    BY <1>1, <1>3
  <2>2. d.len = IF d.ld THEN k.len ELSE e2
    BY <1>1, <1>3
  <2>3. (d.es <=> d.ld /\ k.es) /\ (d.stamp <=> d.ld /\ k.stamp) /\ (d.fd => d.hl = k.hl)
    BY <1>3
  <2>4. e0 < k.len /\ f \in 1 .. Len(frames')
    BY <1>1, <1>3
  <2> QED
    BY <1>1, <1>4, <1>5, <2>1, <2>2, <2>3, <2>4 DEF Describes
<1>7. PICK b : b = buf[i]
  OBVIOUS
<1>8. Holds(b, f, n)'
  <2>1. mode = "jumbo" =>
            /\ pages'[b.page] = <<f, n + 1>>
            /\ e1 < k.len => pages'[b.page2] = <<f, n + 2>>
    BY <1>1, <1>3, <1>7 DEF Wrote
  <2>2. mode = "split" /\ n = 0 =>
            /\ skbs'[b.skb].data = <<f, 1>>
            /\ h1 < k.len => pages'[b.page2] = <<f, 2>>
    <3> SUFFICES ASSUME mode = "split", n = 0
                 PROVE  /\ skbs'[b.skb].data = <<f, 1>>
                        /\ h1 < k.len => pages'[b.page2] = <<f, 2>>
      OBVIOUS
    <3>1. n + 1 = 1 /\ n + 2 = 2
      OBVIOUS
    <3>2. First > 0 /\ DmaOne = 1 /\ (h1 < k.len => Second > 0 /\ DmaTwo = 2)
      BY <1>1, <1>3, <3>1
    <3> QED
      BY <1>7, <3>2 DEF Wrote
  <2>3. mode = "split" /\ n > 0 => pages'[b.page2] = <<f, n + 1>>
    BY <1>1, <1>7 DEF Wrote
  <2> QED
    BY <1>4, <2>1, <2>2, <2>3 DEF Holds
<1> QED
  BY <1>6, <1>7, <1>8 DEF Begun

LEMMA DataStep ==
    ASSUME Ordinary, ChainInv, DmaData
    PROVE  ChainInv'
<1>1. PICK at \in Nat, t \in Nat, n \in Nat : Laid(at, t, n)
  BY DEF ChainInv, LaidOut
<1>2. /\ Types /\ Counts /\ Stock /\ Distinct(buf) /\ Apart /\ Clean /\ Channel /\ GivenWhole /\ Ordered /\ Once
  BY DEF ChainInv
<1>3. PICK i, b, room, f, m : i = dma.idx /\ b = Coming /\ room = Room /\ f = Len(frames) /\ m = dma.part
  OBVIOUS
<1>4. dma.left > 0 /\ desc[i].own
  BY <1>3 DEF DmaData
<1>5. /\ i \in Slots /\ b \in Slots /\ room \in 0 .. RX_DESC_CNT /\ at + 1 <= room
      /\ at \in 0 .. RX_DESC_CNT - 1 /\ i = Advance(b, at) /\ Advance(i, 1) = Advance(b, at + 1)
      /\ \A p \in 0 .. RX_DESC_CNT - 1 : p # at => Advance(b, p) # i /\ Advance(b, p) \in Slots
      /\ \A p \in 0 .. room - 1 : Advance(b, p) \in Slots /\ Full(buf[Advance(b, p)])
      /\ desc[i].addr = buf[i] /\ buf[i] \in BufType /\ Full(buf[i])
  BY <1>1, <1>3, <1>4, DmaSlot
<1>6. /\ f \in 1 .. Len(frames) /\ m \in Nat /\ m # 1
      /\ First \in Nat /\ Second \in Nat /\ DmaRest \in Nat /\ DmaOne \in Nat /\ DmaTwo \in Nat
      /\ Bytes(f, m) < frames[f].len
      /\ frames[f].len - DmaRest = (IF DmaRest = 0 THEN frames[f].len ELSE Bytes(f, m + PerDesc(m)))
      /\ DmaRest > 0 => DmaTwo = m + PerDesc(m) /\ DmaTwo # 1 /\ Bytes(f, DmaTwo) + DmaRest = frames[f].len
  BY <1>2, <1>3, <1>4, DmaParts
<1>7. PICK rest, two, k : rest = DmaRest /\ two = DmaTwo /\ k = frames[f]
  OBVIOUS
<1>8. PICK d : d = [own |-> FALSE, addr |-> buf[i], fd |-> m = 0, ld |-> rest = 0,
                    es |-> rest = 0 /\ k.es, ctxt |-> FALSE,
                    stamp |-> rest = 0 /\ k.stamp, len |-> k.len - rest,
                    hl |-> IF m = 0 THEN k.hl ELSE 0, of |-> f]
  OBVIOUS
<1>9. /\ UNCHANGED <<mode, pc, poll, buf, cur_rx, dirty_rx, skb_realloc_idx, skb_top>>
      /\ UNCHANGED <<frames, gone, delivered, lost>>
      /\ desc' = [desc EXCEPT ![i] = d]
      /\ pages' = [p \in DOMAIN pages |->
                      IF p = buf[i].page2 /\ Second > 0 THEN <<f, DmaTwo>>
                      ELSE IF p = buf[i].page /\ First > 0 THEN <<f, DmaOne>>
                      ELSE pages[p]]
      /\ skbs' = IF mode = "split" /\ First > 0
                 THEN [skbs EXCEPT ![buf[i].skb].data = <<f, DmaOne>>] ELSE skbs
      /\ dma' = [dma EXCEPT !.idx = Advance(@, 1), !.left = rest, !.part = two,
                            !.owes = rest = 0 /\ k.stamp]
  BY <1>3, <1>5, <1>7, <1>8 DEF DmaData, ring, F, K, DmaRest, DmaOne, DmaTwo
<1>10. /\ k \in Kinds /\ k.len \in Nat \ {0} /\ k.hl \in Nat /\ k.es \in BOOLEAN /\ k.stamp \in BOOLEAN
  BY <1>2, <1>6, <1>7, FrameFacts
<1>11. /\ d \in DescType /\ ~d.own /\ ~d.ctxt /\ d.of = f /\ (d.fd <=> m = 0) /\ (d.ld <=> rest = 0)
       /\ (d.es <=> rest = 0 /\ k.es) /\ (d.stamp <=> rest = 0 /\ k.stamp)
       /\ d.len = k.len - rest /\ (m = 0 => d.hl = k.hl)
  <2>1. k.len - rest \in Nat
    <3>1. Bytes(f, m + PerDesc(m)) \in Nat
      BY <1>2, <1>6, BytesPer
    <3> QED
      BY <1>6, <1>7, <1>10, <3>1
  <2>2. PICK len \in Nat : len = k.len - rest
    BY <2>1
  <2>3. PICK hl \in Nat : hl = IF m = 0 THEN k.hl ELSE 0
    BY <1>10
  <2>4. f \in Nat
    BY <1>6
  <2>5. d = [own |-> FALSE, addr |-> buf[i], fd |-> m = 0, ld |-> rest = 0,
             es |-> rest = 0 /\ k.es, ctxt |-> FALSE,
             stamp |-> rest = 0 /\ k.stamp, len |-> len, hl |-> hl, of |-> f]
    BY <1>8, <2>2, <2>3
  <2>6. d \in DescType
    BY <1>5, <2>4, <2>5 DEF DescType
  <2> QED
    BY <2>2, <2>3, <2>5, <2>6
<1>12. /\ desc' \in [Slots -> DescType] /\ (\A j \in Slots : j # i => desc'[j] = desc[j]) /\ desc'[i] = d
  <2>1. desc \in [Slots -> DescType]
    BY <1>2 DEF Types
  <2> QED
    BY <1>5, <1>9, <1>11, <2>1
<1>13. /\ dma' \in DmaType /\ dma'.idx = Advance(i, 1) /\ dma'.left = rest /\ dma'.part = two
       /\ (dma'.owes <=> rest = 0 /\ k.stamp) /\ dma'.lates = dma.lates
  <2>1. dma \in DmaType /\ Advance(i, 1) \in Slots /\ rest \in Nat /\ two \in Nat
    BY <1>2, <1>5, <1>6, <1>7, AdvanceZero DEF Types
  <2>2. PICK owes \in BOOLEAN : owes = (rest = 0 /\ k.stamp)
    OBVIOUS
  <2>3. dma' = [dma EXCEPT !.idx = Advance(i, 1), !.left = rest, !.part = two, !.owes = owes]
    BY <1>3, <1>9, <2>2
  <2> QED
    BY <2>1, <2>2, <2>3 DEF DmaType
<1>14. Wrote(i, f)
  <2>1. f \in Nat
    BY <1>6
  <2>2. /\ pages' = [p \in DOMAIN pages |->
                        IF p = buf[i].page2 /\ Second > 0 THEN <<f, DmaTwo>>
                        ELSE IF p = buf[i].page /\ First > 0 THEN <<f, DmaOne>>
                        ELSE pages[p]]
        /\ skbs' = IF mode = "split" /\ First > 0
                   THEN [skbs EXCEPT ![buf[i].skb].data = <<f, DmaOne>>] ELSE skbs
    BY <1>9
  <2> QED
    BY <1>2, <1>5, <1>6, <2>1, <2>2, DataHeap
<1>15. Types'
  <2>1. skb_top' \in 0 .. Len(skbs')
    BY <1>2, <1>9, <1>14 DEF Types, Wrote
  <2> QED
    BY <1>2, <1>9, <1>12, <1>13, <1>14, <2>1 DEF Types, Wrote
<1>16. Begun(i, f, m)'
  BY <1>2, <1>3, <1>4, <1>5, <1>7, <1>9, <1>11, <1>12, <1>14, <1>15, DataBegun
<1>17. Coming' = Coming /\ Room' = Room /\ Counts'
  BY <1>2, <1>9, PollSame
<1>18. Stock'
  <2>1. \A j \in Slots : desc'[j].own => desc[j].own /\ desc'[j].addr = desc[j].addr
    BY <1>11, <1>12
  <2> QED
    BY <1>2, <1>9, <1>14, <1>17, <2>1, StockSame DEF Wrote
<1>19. Distinct(buf)' /\ Apart' /\ Clean'
  <2>1. Given' = Given /\ Held' = Held
    BY <1>9 DEF Given, Held
  <2>2. DOMAIN skbs' = DOMAIN skbs /\ DOMAIN pages' = DOMAIN pages
    <3>1. skbs \in Seq(SkbType) /\ pages \in Seq(DataType) /\ skbs' \in Seq(SkbType) /\ pages' \in Seq(DataType)
      BY <1>2, <1>15 DEF Types
    <3>2. Len(skbs') = Len(skbs) /\ Len(pages') = Len(pages)
      BY <1>14 DEF Wrote
    <3> QED
      BY <3>1, <3>2
  <2>3. Apart'
    <3>1. \A p : Out(p)' <=> Out(p)
      BY <1>9, <2>2 DEF Out
    <3>2. ASSUME NEW s \in Held
          PROVE  /\ s \in DOMAIN skbs' /\ \A j \in Slots : buf'[j].skb # s
                 /\ (\A q \in DOMAIN skbs[s].frags : Out(skbs[s].frags[q]))'
      <4>1. s \in DOMAIN skbs /\ (\A j \in Slots : buf[j].skb # s) /\ \A q \in DOMAIN skbs[s].frags : Out(skbs[s].frags[q])
        BY <1>2 DEF Apart
      <4>2. PICK fr : fr = skbs[s].frags
        OBVIOUS
      <4>3. skbs'[s].frags = fr
        BY <1>14, <4>1, <4>2 DEF Wrote
      <4>4. \A q \in DOMAIN fr : Out(fr[q])'
        BY <3>1, <4>1, <4>2
      <4> QED
        BY <1>9, <2>2, <4>1, <4>3, <4>4
    <3>3. skb_top' \notin Given'
      BY <1>2, <1>9, <2>1 DEF Apart
    <3> QED
      BY <2>1, <3>2, <3>3 DEF Apart
  <2>4. Distinct(buf)'
    BY <1>2, <1>9 DEF Distinct
  <2>5. Clean'
    <3> SUFFICES ASSUME NEW j \in Slots, buf'[j].skb > 0
                 PROVE  /\ skbs'[buf'[j].skb].frags = <<>>
                        /\ skbs'[buf'[j].skb].put > 0 => Waits(desc[j], skbs[buf[j].skb])'
      BY DEF Clean
    <3>1. buf[j].skb \in DOMAIN skbs /\ buf'[j] = buf[j]
      <4>1. buf[j] \in BufType /\ skbs \in Seq(SkbType)
        BY <1>2 DEF Types
      <4>2. buf[j].skb <= Len(skbs) /\ buf[j].skb \in Nat /\ buf[j].skb > 0
        BY <1>2, <1>9, <4>1 DEF Stock, BufType
      <4> QED
        BY <1>9, <4>1, <4>2
    <3>2. skbs'[buf[j].skb].frags = skbs[buf[j].skb].frags /\ skbs'[buf[j].skb].put = skbs[buf[j].skb].put
      BY <1>14, <3>1 DEF Wrote
    <3>3. /\ skbs[buf[j].skb].frags = <<>>
          /\ skbs[buf[j].skb].put > 0 => Waits(desc[j], skbs[buf[j].skb])
      BY <1>2, <3>1, <1>9 DEF Clean
    <3>4. Waits(desc[j], skbs[buf[j].skb]) => Waits(desc[j], skbs[buf[j].skb])'
      BY <1>4, <1>12, <1>13, <3>1, <3>2 DEF Waits, Late
    <3> QED
      BY <3>1, <3>2, <3>3, <3>4
  <2> QED
    BY <2>3, <2>4, <2>5
<1>20. FramesStay /\ FramesGrow
  BY <1>2, <1>9 DEF FramesStay, FramesGrow, Types
<1>21. Channel'
  <2>1. \A j \in Slots : desc'[j].of <= Len(frames)
    BY <1>2, <1>3, <1>6, <1>11, <1>12 DEF Channel
  <2>2. rest > 0 => two # 1 /\ Bytes(f, two)' + rest = k.len
    BY <1>6, <1>7, <1>20, BytesStay
  <2>3. rest > 0 => /\ ~dma'.owes /\ Len(frames') > 0 /\ dma'.part # 1
                    /\ (Bytes(Len(frames), dma.part) + dma.left = frames[Len(frames)].len)'
    <3> SUFFICES ASSUME rest > 0
                 PROVE  /\ ~dma'.owes /\ Len(frames') > 0 /\ dma'.part # 1
                        /\ (Bytes(Len(frames), dma.part) + dma.left = frames[Len(frames)].len)'
      OBVIOUS
    <3>1. Len(frames') = f /\ frames'[f] = k /\ f > 0 /\ f \in Nat
      BY <1>3, <1>6, <1>7, <1>9
    <3> QED
      BY <1>13, <2>2, <3>1
  <2>4. dma'.owes => dma'.left = 0 /\ Len(frames') > 0 /\ frames'[Len(frames')].stamp
    BY <1>3, <1>6, <1>7, <1>9, <1>13
  <2> QED
    BY <1>9, <1>13, <2>1, <2>3, <2>4 DEF Channel
<1>22. /\ \A j \in Slots : j # i /\ Full(buf[j]) => SlotStays(j)
       /\ \A s \in Held : SkbStays(s)
  BY <1>2, <1>5, <1>9, <1>12, <1>14, WroteApart DEF SlotStays
<1>23. GivenWhole' /\ Ordered' /\ Once'
  <2>1. GivenStays
    BY <1>22 DEF GivenStays, Held, Given
  <2> QED
    BY <1>2, <1>9, <1>15, <1>20, <1>22, <2>1, HeldSame, GivenWholeStays, OrderedStays, OnceStays
<1>24. LaidOut'
  <2>1. Settled(t)'
    BY <1>1, <1>2, <1>9, <1>15, <1>20, SettledStays DEF Laid
  <2>2. Collected(t + 1, n)'
    <3>1. skb_top # 0 => SkbStays(skb_top)
      BY <1>22 DEF Held
    <3> QED
      BY <1>1, <1>9, <3>1, CollectedStays DEF Laid
  <2>3. \A q \in 0 .. at - 1 : SlotStays(Advance(b, q))
    <3> SUFFICES ASSUME NEW q \in 0 .. at - 1 PROVE SlotStays(Advance(b, q))
      OBVIOUS
    <3>1. q \in 0 .. RX_DESC_CNT - 1 /\ q # at /\ q \in 0 .. room - 1
      BY <1>5, Sizes
    <3> QED
      BY <1>5, <1>22, <3>1
  <2>4. Advance(b, at)' = i /\ at < at + 1 /\ at # at + 1
    BY <1>5 DEF Advance
  <2>5. Due(b, at, at + 1)
    <3>1. ASSUME NEW u \in Nat, NEW q \in Nat, DmaAt(u, q) PROVE PartAt(b, at + 1, at, u, q)'
      <4>1. q = m /\ u + 1 = f
        BY <1>3, <1>4, <3>1 DEF DmaAt
      <4>2. Begun(Advance(b, at), u + 1, q)'
        BY <1>16, <2>4, <4>1
      <4> QED
        BY <2>4, <4>2 DEF PartAt
    <3>2. ~dma.owes
      BY <1>2, <1>4 DEF Channel
    <3> QED
      BY <3>1, <3>2 DEF Due
  <2>6. Followed(b, at + 1, at)'
    <3>1. ASSUME NEW q \in Nat, Begun(i, f, q)'
          PROVE  /\ ~d.ld => PartAt(b, at + 1, at + 1, f - 1, q + PerDesc(q))'
                 /\ d.ld /\ d.stamp => StampAt(b, at + 1, at + 1, f)'
                 /\ d.ld /\ ~d.stamp => PartAt(b, at + 1, at + 1, f, 0)'
      <4>1. q = m
        BY <1>6, <1>15, <1>16, <3>1, BegunNextOnce
      <4>2. f - 1 \in Nat /\ (f - 1) + 1 = f /\ f = Len(frames')
        BY <1>3, <1>6, <1>9
      <4>3. ~d.ld => PartAt(b, at + 1, at + 1, f - 1, q + PerDesc(q))'
        <5> SUFFICES ASSUME ~d.ld PROVE PartAt(b, at + 1, at + 1, f - 1, q + PerDesc(q))'
          OBVIOUS
        <5>1. rest > 0
          BY <1>6, <1>7, <1>11
        <5>2. PICK u : u = q + PerDesc(q)
          OBVIOUS
        <5>3. u = (q + PerDesc(q))'
          BY <1>9, <5>2 DEF PerDesc
        <5>4. u = two /\ u # 0
          <6>1. PerDesc(q) \in {1, 2}
            BY DEF PerDesc
          <6> QED
            BY <1>6, <1>7, <4>1, <5>1, <5>2, <6>1
        <5>5. DmaAt(f - 1, u)'
          BY <1>13, <4>2, <5>1, <5>4 DEF DmaAt
        <5> QED
          BY <5>3, <5>5 DEF PartAt
      <4>4. d.ld /\ d.stamp => StampAt(b, at + 1, at + 1, f)'
        BY <1>11, <1>13, <4>2 DEF StampAt
      <4>5. d.ld /\ ~d.stamp => PartAt(b, at + 1, at + 1, f, 0)'
        BY <1>11, <1>13, <4>2 DEF PartAt, DmaAt
      <4> QED
        BY <4>3, <4>4, <4>5
    <3> QED
      BY <1>11, <1>12, <2>4, <3>1 DEF Followed
  <2>7. Handed(b, at + 1, room)'
    <3>1. \A p \in 0 .. RX_DESC_CNT - 1 : desc[Advance(b, p)].own <=> at <= p /\ p < room
      BY <1>1, <1>3 DEF Laid, Handed
    <3>2. ASSUME NEW p \in 0 .. RX_DESC_CNT - 1
          PROVE  desc'[Advance(b, p)].own <=> at + 1 <= p /\ p < room
      <4>1. CASE p = at
        BY <1>5, <1>11, <1>12, <4>1
      <4>2. CASE p # at
        <5>1. desc'[Advance(b, p)] = desc[Advance(b, p)]
          BY <1>5, <1>12, <4>2
        <5>2. at <= p <=> at + 1 <= p
          BY <4>2
        <5> QED
          BY <3>1, <5>1, <5>2
      <4> QED
        BY <4>1, <4>2
    <3>3. dma'.idx = Advance(b, at + 1)
      BY <1>5, <1>13
    <3> QED
      BY <3>2, <3>3 DEF Handed, Advance
  <2>8. room \in Nat /\ room <= RX_DESC_CNT /\ at + 1 \in Nat /\ at <= at + 1
    BY <1>5, Sizes
  <2>9. \A q \in at .. (at + 1) - 1 : Followed(b, at + 1, q)'
    <3>1. \A q \in at .. (at + 1) - 1 : q = at
      OBVIOUS
    <3> QED
      BY <2>6, <3>1
  <2> QED
    BY <1>1, <1>2, <1>3, <1>5, <1>15, <1>17, <1>20, <2>1, <2>2, <2>3, <2>5, <2>7, <2>8, <2>9, LaidKept
<1> QED
  BY <1>15, <1>17, <1>18, <1>19, <1>21, <1>23, <1>24 DEF ChainInv

-----------------------------------------------------------------------------
(* New buffers.                                                            *)

LEMMA FreshBuffers ==
    ASSUME NEW m \in {"jumbo", "split"}, NEW s \in Nat, NEW p \in Nat, NEW b, b = NewBuffers(m, s, p)
    PROVE  /\ b \in [Slots -> BufType] /\ Distinct(b)
           /\ \A i \in Slots : /\ b[i].skb \in s + 1 .. s + RX_DESC_CNT
                               /\ b[i].page2 \in p + 1 .. p + 2 * RX_DESC_CNT
                               /\ m = "jumbo" => b[i].page \in p + 1 .. p + 2 * RX_DESC_CNT
                               /\ m = "split" => b[i].page = 0
<1>1. PICK N \in Nat : N = RX_DESC_CNT /\ Slots = 0 .. N - 1
  BY Sizes
<1>2. b = [i \in Slots |-> [skb   |-> s + i + 1,
                            page  |-> IF m = "jumbo" THEN p + 2 * i + 2 ELSE 0,
                            page2 |-> p + 2 * i + 1]]
  BY DEF NewBuffers
<1>3. ASSUME NEW i \in Slots
      PROVE  /\ b[i] \in BufType
             /\ b[i].skb = s + i + 1 /\ b[i].page2 = p + 2 * i + 1
             /\ m = "jumbo" => b[i].page = p + 2 * i + 2
             /\ m = "split" => b[i].page = 0
  <2>1. i \in Nat
    BY <1>1
  <2>2. PICK x \in Nat, y \in Nat, z \in Nat : x = s + i + 1 /\ y = (IF m = "jumbo" THEN p + 2 * i + 2 ELSE 0)
                                               /\ z = p + 2 * i + 1
    BY <2>1
  <2>3. b[i] = [skb |-> x, page |-> y, page2 |-> z]
    BY <1>2, <2>2
  <2> QED
    BY <2>2, <2>3 DEF BufType
<1>4. b \in [Slots -> BufType]
  BY <1>2, <1>3
<1>5. ASSUME NEW i \in Slots
      PROVE  /\ b[i].skb \in s + 1 .. s + N
             /\ b[i].page2 \in p + 1 .. p + 2 * N
             /\ m = "jumbo" => b[i].page \in p + 1 .. p + 2 * N
             /\ m = "split" => b[i].page = 0
  <2>1. i \in Nat /\ i <= N - 1
    BY <1>1
  <2>2. s + i + 1 \in s + 1 .. s + N
    BY <1>1, <2>1
  <2>3. p + 2 * i + 1 \in p + 1 .. p + 2 * N /\ p + 2 * i + 2 \in p + 1 .. p + 2 * N
    BY <1>1, <2>1
  <2> QED
    BY <1>3, <2>2, <2>3
<1>6. Distinct(b)
  <2>1. ASSUME NEW i \in Slots, NEW j \in Slots, i # j
        PROVE  /\ b[i].skb # b[j].skb /\ b[i].page2 # b[j].page2
               /\ b[i].page = b[j].page => b[i].page = 0
    <3>1. i \in Nat /\ j \in Nat
      BY <1>1
    <3>2. s + i + 1 # s + j + 1 /\ p + 2 * i + 1 # p + 2 * j + 1 /\ p + 2 * i + 2 # p + 2 * j + 2
      BY <2>1, <3>1
    <3> QED
      BY <1>3, <3>2
  <2>2. ASSUME NEW i \in Slots, NEW j \in Slots PROVE b[i].page = b[j].page2 => b[i].page = 0
    <3>1. i \in Nat /\ j \in Nat
      BY <1>1
    <3>2. p + 2 * i + 2 # p + 2 * j + 1
      BY <3>1
    <3> QED
      BY <1>3, <3>2
  <2> QED
    BY <2>1, <2>2 DEF Distinct
<1> QED
  BY <1>1, <1>4, <1>5, <1>6

\* A ring just set up, the stack with what it got before.
Fresh ==
    /\ Types /\ pc = "idle"
    /\ cur_rx = 0 /\ dirty_rx = 0 /\ skb_realloc_idx = 0 /\ skb_top = 0 /\ lost = 0
    /\ dma.idx = 0 /\ dma.left = 0 /\ ~dma.owes
    /\ gone = DOMAIN frames
    /\ desc = [i \in Slots |-> Armed(buf[i])]
    /\ Distinct(buf)
    /\ \A i \in Slots :
          /\ Full(buf[i]) /\ (mode = "split" => buf[i].page = 0)
          /\ buf[i].skb <= Len(skbs) /\ buf[i].page <= Len(pages) /\ buf[i].page2 <= Len(pages)
          /\ skbs[buf[i].skb] = EmptySkb
    /\ Apart /\ GivenWhole /\ Ordered /\ Once

LEMMA FreshInv == Fresh => ChainInv
<1> SUFFICES ASSUME Fresh PROVE ChainInv
  OBVIOUS
<1>1. /\ Types /\ pc = "idle" /\ cur_rx = 0 /\ dirty_rx = 0 /\ skb_realloc_idx = 0 /\ skb_top = 0
      /\ lost = 0 /\ dma.idx = 0 /\ dma.left = 0 /\ ~dma.owes /\ gone = DOMAIN frames
      /\ Distinct(buf) /\ Apart /\ GivenWhole /\ Ordered /\ Once
  BY DEF Fresh
<1>2. ASSUME NEW i \in Slots
      PROVE  /\ desc[i].own /\ desc[i].addr = buf[i] /\ desc[i].of = 0
             /\ Full(buf[i]) /\ (mode = "split" => buf[i].page = 0)
             /\ buf[i].skb <= Len(skbs) /\ buf[i].page <= Len(pages) /\ buf[i].page2 <= Len(pages)
             /\ skbs[buf[i].skb].frags = <<>> /\ skbs[buf[i].skb].put = 0
  <2>1. desc[i] = Armed(buf[i]) /\ skbs[buf[i].skb] = EmptySkb
    BY DEF Fresh
  <2>2. desc[i].own /\ desc[i].addr = buf[i] /\ desc[i].of = 0
    BY <2>1 DEF Armed
  <2>3. skbs[buf[i].skb].frags = <<>> /\ skbs[buf[i].skb].put = 0
    BY <2>1 DEF EmptySkb
  <2> QED
    BY <2>2, <2>3 DEF Fresh
<1>3. RX_DESC_CNT \in Nat /\ 0 \in Slots /\ Slots = 0 .. RX_DESC_CNT - 1
  BY Sizes
<1>4. Coming = 0 /\ Behind = 0 /\ Room = RX_DESC_CNT /\ Advance(0, 0) = 0
  <2>1. Coming = 0 /\ Behind = 0
    BY <1>1 DEF Coming, Behind
  <2>2. Advance(0, 0) = 0
    BY <1>3, AdvanceZero
  <2> QED
    BY <1>3, <2>1, <2>2 DEF Room
<1>5. Counts
  <2>1. dirty_rx < MIN_RX_DESC_CNT
    BY <1>1, Sizes
  <2> QED
    BY <1>1, <1>4, <2>1 DEF Counts
<1>6. ASSUME NEW p \in 0 .. RX_DESC_CNT - 1 PROVE Advance(0, p) \in Slots
  <2>1. p \in 0 .. RX_DESC_CNT
    BY <1>3
  <2> QED
    BY <1>3, <2>1, AdvanceType
<1>7. Stock
  BY <1>2, <1>4, <1>6 DEF Stock
<1>8. Clean
  BY <1>2 DEF Clean
<1>9. Channel
  <2>1. 0 <= Len(frames)
    BY <1>1 DEF Types
  <2> QED
    BY <1>1, <1>2, <2>1 DEF Channel
<1>10. LaidOut
  <2>1. PICK t \in Nat : t = Len(frames)
    BY <1>1 DEF Types
  <2>2. Handed(Coming, 0, Room)
    <3>1. \A p \in 0 .. RX_DESC_CNT - 1 : desc[Advance(0, p)].own /\ 0 <= p /\ p < RX_DESC_CNT
      BY <1>2, <1>3, <1>6
    <3> QED
      BY <1>1, <1>4, <3>1 DEF Handed
  <2>3. PartAt(Coming, 0, 0, t, 0)
    BY <1>1, <2>1 DEF PartAt, DmaAt
  <2>4. Linked(Coming, 0)
    BY DEF Linked
  <2>5. Settled(t)
    <3>1. LastOf \in Nat /\ LastOf <= t
      <4>1. CASE delivered = <<>>
        BY <2>1, <4>1 DEF LastOf
      <4>2. CASE delivered # <<>>
        <5>1. Len(delivered) \in DOMAIN delivered
          BY <1>1, <4>2 DEF Types
        <5>2. delivered[Len(delivered)].of \in 1 .. Len(frames)
          BY <1>1, <5>1 DEF GivenWhole
        <5> QED
          BY <2>1, <4>2, <5>2 DEF LastOf
      <4> QED
        BY <4>1, <4>2
    <3>2. ASSUME NEW h \in LastOf + 1 .. t PROVE h \in gone
      BY <1>1, <2>1, <3>1 DEF Types
    <3> QED
      BY <2>1, <3>1, <3>2 DEF Settled
  <2>6. Collected(t + 1, 0)
    BY <1>1 DEF Collected
  <2>7. 0 <= Room /\ 0 \in Nat
    BY <1>3, <1>4
  <2>8. Laid(0, t, 0)
    BY <2>2, <2>3, <2>4, <2>5, <2>6, <2>7 DEF Laid
  <2> QED
    BY <2>7, <2>8 DEF LaidOut
<1> QED
  BY <1>1, <1>5, <1>7, <1>8, <1>9, <1>10 DEF ChainInv

LEMMA FreshNext == ASSUME Fresh' PROVE ChainInv'
BY FreshInv, PTL

LEMMA NewHeap ==
    /\ NewSkbs \in Seq(SkbType) /\ Len(NewSkbs) = RX_DESC_CNT /\ \A s \in 1 .. RX_DESC_CNT : NewSkbs[s] = EmptySkb
    /\ NewPages \in Seq(DataType) /\ Len(NewPages) = 2 * RX_DESC_CNT
<1>1. PICK N \in Nat, M \in Nat : N = RX_DESC_CNT /\ M = 2 * RX_DESC_CNT
  BY Sizes
<1>2. EmptySkb \in SkbType /\ NoData \in DataType
  BY DEF EmptySkb, SkbType, NoData, DataType
<1>3. NewSkbs \in [1 .. N -> SkbType] /\ NewPages \in [1 .. M -> DataType]
  BY <1>1, <1>2 DEF NewSkbs, NewPages
<1>4. NewSkbs \in Seq(SkbType) /\ Len(NewSkbs) = N
  BY <1>1, <1>3, FunctionSeq
<1>5. NewPages \in Seq(DataType) /\ Len(NewPages) = M
  BY <1>1, <1>3, FunctionSeq
<1>6. \A s \in 1 .. N : NewSkbs[s] = EmptySkb
  BY <1>1 DEF NewSkbs
<1> QED
  BY <1>1, <1>4, <1>5, <1>6

LEMMA ArmedType ==
    ASSUME NEW b \in [Slots -> BufType]
    PROVE  [i \in Slots |-> Armed(b[i])] \in [Slots -> DescType]
<1>1. ASSUME NEW i \in Slots PROVE Armed(b[i]) \in DescType
  BY DEF Armed, DescType
<1> QED
  BY <1>1

LEMMA InitFresh ==
    ASSUME Init
    PROVE  Fresh
<1>1. /\ mode \in {"jumbo", "split"} /\ pc = "idle"
      /\ poll = [received |-> 0, cnt |-> 0, hdr |-> 0, i |-> 0, then |-> "idle"]
      /\ buf = NewBuffers(mode, 0, 0) /\ desc = [i \in Slots |-> Armed(buf[i])]
      /\ skbs = NewSkbs /\ pages = NewPages
      /\ cur_rx = 0 /\ dirty_rx = 0 /\ skb_realloc_idx = 0 /\ skb_top = 0
      /\ dma = [idx |-> 0, left |-> 0, part |-> 0, owes |-> FALSE, restarts |-> 0, lates |-> 0]
      /\ frames = <<>> /\ gone = {} /\ delivered = <<>> /\ lost = 0
  BY ChainAssumption DEF Init
<1>2. RX_DESC_CNT \in Nat /\ 2 * RX_DESC_CNT \in Nat /\ 0 \in Slots /\ Quota \in Nat /\ MaxLost \in Nat /\ MIN_RX_DESC_CNT \in Nat
  BY Sizes
<1>3. /\ NewSkbs \in Seq(SkbType) /\ Len(NewSkbs) = RX_DESC_CNT /\ \A s \in 1 .. RX_DESC_CNT : NewSkbs[s] = EmptySkb
      /\ NewPages \in Seq(DataType) /\ Len(NewPages) = 2 * RX_DESC_CNT
  BY NewHeap
<1>4. /\ buf \in [Slots -> BufType] /\ Distinct(buf)
      /\ \A i \in Slots : /\ buf[i].skb \in 0 + 1 .. 0 + RX_DESC_CNT
                          /\ buf[i].page2 \in 0 + 1 .. 0 + 2 * RX_DESC_CNT
                          /\ mode = "jumbo" => buf[i].page \in 0 + 1 .. 0 + 2 * RX_DESC_CNT
                          /\ mode = "split" => buf[i].page = 0
  <2>1. PICK z \in Nat : z = 0
    OBVIOUS
  <2>2. buf = NewBuffers(mode, z, z)
    BY <1>1, <2>1
  <2>3. /\ buf \in [Slots -> BufType] /\ Distinct(buf)
        /\ \A i \in Slots : /\ buf[i].skb \in z + 1 .. z + RX_DESC_CNT
                            /\ buf[i].page2 \in z + 1 .. z + 2 * RX_DESC_CNT
                            /\ mode = "jumbo" => buf[i].page \in z + 1 .. z + 2 * RX_DESC_CNT
                            /\ mode = "split" => buf[i].page = 0
    BY <1>1, <2>2, FreshBuffers, ZenonT(60)
  <2> QED
    BY <2>1, <2>3
<1>5. desc \in [Slots -> DescType]
  BY <1>1, <1>4, ArmedType
<1>6. poll \in PollType /\ dma \in DmaType /\ dma.idx = 0 /\ dma.left = 0 /\ ~dma.owes
  BY <1>1, <1>2, Sizes DEF PollType, DmaType
<1>7. Types
  <2>1. frames \in Seq(Kinds) /\ gone \subseteq DOMAIN frames /\ delivered \in Seq(GotType)
    BY <1>1
  <2>2. skb_top \in 0 .. Len(skbs) /\ dirty_rx \in 0 .. MIN_RX_DESC_CNT + 1 /\ lost \in 0 .. MaxLost
    BY <1>1, <1>2, <1>3
  <2> QED
    BY <1>1, <1>2, <1>3, <1>4, <1>5, <1>6, <2>1, <2>2 DEF Types
<1>8. ASSUME NEW i \in Slots
      PROVE  /\ Full(buf[i]) /\ (mode = "split" => buf[i].page = 0)
             /\ buf[i].skb <= Len(skbs) /\ buf[i].page <= Len(pages) /\ buf[i].page2 <= Len(pages)
             /\ skbs[buf[i].skb] = EmptySkb
  <2>1. PICK N \in Nat, M \in Nat : N = RX_DESC_CNT /\ M = 2 * RX_DESC_CNT
    BY <1>2
  <2>2. /\ buf[i].skb \in 1 .. N /\ buf[i].page2 \in 1 .. M
        /\ mode = "jumbo" => buf[i].page \in 1 .. M
        /\ mode = "split" => buf[i].page = 0
    BY <1>4, <2>1
  <2>3. Len(skbs) = N /\ Len(pages) = M /\ skbs[buf[i].skb] = EmptySkb
    BY <1>1, <1>3, <2>1, <2>2
  <2> QED
    BY <1>1, <2>1, <2>2, <2>3 DEF Full
<1>9. Given = {} /\ Held = {}
  BY <1>1 DEF Given, Held
<1>10. Apart
  BY <1>1, <1>9 DEF Apart
<1>11. GivenWhole /\ Ordered /\ Once
  <2>1. LastOf = 0
    BY <1>1 DEF LastOf
  <2> QED
    BY <1>1, <1>9, <2>1 DEF GivenWhole, Ordered, Once, SkbsOnce, PagesOnce
<1>12. gone = DOMAIN frames
  BY <1>1
<1> QED
  BY <1>1, <1>4, <1>6, <1>7, <1>8, <1>10, <1>11, <1>12 DEF Fresh

LEMMA RestartFresh ==
    ASSUME ChainInv, NEW m \in Modes, Restart(m)
    PROVE  Fresh'
<1>1. /\ Types /\ Counts /\ Stock /\ Apart /\ GivenWhole /\ Ordered /\ Once
  BY DEF ChainInv
<1>2. PICK s \in Nat, p \in Nat : s = Len(skbs) /\ p = Len(pages)
  BY <1>1 DEF Types
<1>3. /\ m \in {"jumbo", "split"} /\ mode' = m /\ pc' = "idle" /\ buf' = NewBuffers(m, s, p)
      /\ desc' = [i \in Slots |-> Armed(buf'[i])]
      /\ skbs' = skbs \o NewSkbs /\ pages' = pages \o NewPages
      /\ cur_rx' = 0 /\ dirty_rx' = 0 /\ skb_realloc_idx' = 0 /\ skb_top' = 0
      /\ dma' = [dma EXCEPT !.idx = 0, !.left = 0, !.part = 0, !.owes = FALSE, !.restarts = @ + 1]
      /\ gone' = DOMAIN frames /\ lost' = 0 /\ UNCHANGED <<poll, frames, delivered>>
  BY <1>2, ChainAssumption DEF Restart
<1>4. RX_DESC_CNT \in Nat /\ 2 * RX_DESC_CNT \in Nat /\ 0 \in Slots /\ MaxLost \in Nat /\ MIN_RX_DESC_CNT \in Nat
  BY Sizes
<1>5. /\ NewSkbs \in Seq(SkbType) /\ Len(NewSkbs) = RX_DESC_CNT /\ \A r \in 1 .. RX_DESC_CNT : NewSkbs[r] = EmptySkb
      /\ NewPages \in Seq(DataType) /\ Len(NewPages) = 2 * RX_DESC_CNT
  BY NewHeap
<1>6. /\ skbs \in Seq(SkbType) /\ pages \in Seq(DataType) /\ DOMAIN skbs = 1 .. s /\ DOMAIN pages = 1 .. p
  BY <1>1, <1>2 DEF Types
<1>7. /\ skbs' \in Seq(SkbType) /\ Len(skbs') = s + RX_DESC_CNT
      /\ \A r \in DOMAIN skbs : skbs'[r] = skbs[r]
      /\ \A r \in 1 .. RX_DESC_CNT : skbs'[s + r] = NewSkbs[r]
  <2>1. PICK new : new = NewSkbs
    OBVIOUS
  <2>2. new \in Seq(SkbType) /\ Len(new) = RX_DESC_CNT
    BY <1>5, <2>1
  <2>3. /\ skbs \o new \in Seq(SkbType) /\ Len(skbs \o new) = Len(skbs) + Len(new)
        /\ \A r \in DOMAIN skbs : (skbs \o new)[r] = skbs[r]
        /\ \A r \in 1 .. Len(new) : (skbs \o new)[Len(skbs) + r] = new[r]
    <3>1. PICK old \in Seq(SkbType), more \in Seq(SkbType) : old = skbs /\ more = new
      BY <1>6, <2>2
    <3>2. /\ old \o more \in Seq(SkbType) /\ Len(old \o more) = Len(old) + Len(more)
          /\ \A r \in DOMAIN old : (old \o more)[r] = old[r]
      BY Appended
    <3>3. \A r \in 1 .. Len(more) : (old \o more)[Len(old) + r] = more[r]
      BY Appended
    <3> QED
      BY <3>1, <3>2, <3>3
  <2>4. skbs' = skbs \o new
    BY <1>3, <2>1
  <2> QED
    BY <1>2, <2>1, <2>2, <2>3, <2>4
<1>8. /\ pages' \in Seq(DataType) /\ Len(pages') = p + 2 * RX_DESC_CNT
      /\ \A q \in DOMAIN pages : pages'[q] = pages[q]
  BY <1>2, <1>3, <1>5, <1>6, Appended
<1>9. /\ buf' \in [Slots -> BufType] /\ Distinct(buf)'
      /\ \A i \in Slots : /\ buf'[i].skb \in s + 1 .. s + RX_DESC_CNT
                          /\ buf'[i].page2 \in p + 1 .. p + 2 * RX_DESC_CNT
                          /\ m = "jumbo" => buf'[i].page \in p + 1 .. p + 2 * RX_DESC_CNT
                          /\ m = "split" => buf'[i].page = 0
  <2>1. PICK b : b = NewBuffers(m, s, p)
    OBVIOUS
  <2>2. /\ b \in [Slots -> BufType] /\ Distinct(b)
        /\ \A i \in Slots : /\ b[i].skb \in s + 1 .. s + RX_DESC_CNT
                            /\ b[i].page2 \in p + 1 .. p + 2 * RX_DESC_CNT
                            /\ m = "jumbo" => b[i].page \in p + 1 .. p + 2 * RX_DESC_CNT
                            /\ m = "split" => b[i].page = 0
    BY <1>3, <2>1, FreshBuffers
  <2>3. buf' = b
    BY <1>3, <2>1
  <2>4. Distinct(buf)'
    BY <2>2, <2>3 DEF Distinct
  <2> QED
    BY <2>2, <2>3, <2>4
<1>10. desc' \in [Slots -> DescType]
  <2>1. PICK b \in [Slots -> BufType] : b = buf'
    BY <1>9
  <2> QED
    BY <1>3, <2>1, ArmedType
<1>11. dma' \in DmaType /\ dma'.idx = 0 /\ dma'.left = 0 /\ ~dma'.owes
  <2>1. dma \in DmaType
    BY <1>1 DEF Types
  <2>2. PICK r : r = dma.restarts + 1
    OBVIOUS
  <2>3. r \in Nat
    BY <2>1, <2>2 DEF DmaType
  <2>4. dma' = [dma EXCEPT !.idx = 0, !.left = 0, !.part = 0, !.owes = FALSE, !.restarts = r]
    BY <1>3, <2>2
  <2> QED
    BY <1>4, <2>1, <2>3, <2>4 DEF DmaType
<1>12. Types'
  <2>1. skb_top' \in 0 .. Len(skbs') /\ dirty_rx' \in 0 .. MIN_RX_DESC_CNT + 1 /\ lost' \in 0 .. MaxLost
    BY <1>2, <1>3, <1>4, <1>7
  <2> QED
    BY <1>1, <1>3, <1>4, <1>7, <1>8, <1>9, <1>10, <1>11, <2>1 DEF Types
<1>13. ASSUME NEW i \in Slots
       PROVE  /\ Full(buf[i])' /\ (mode' = "split" => buf'[i].page = 0)
              /\ buf'[i].skb <= Len(skbs') /\ buf'[i].page <= Len(pages') /\ buf'[i].page2 <= Len(pages')
              /\ skbs'[buf'[i].skb] = EmptySkb
              /\ buf'[i].skb \notin DOMAIN skbs /\ buf'[i].page \notin DOMAIN pages /\ buf'[i].page2 \notin DOMAIN pages
  <2>1. PICK N \in Nat, M \in Nat : N = RX_DESC_CNT /\ M = 2 * RX_DESC_CNT
    BY <1>4
  <2>2. /\ buf'[i].skb \in s + 1 .. s + N /\ buf'[i].page2 \in p + 1 .. p + M
        /\ mode' = "jumbo" => buf'[i].page \in p + 1 .. p + M
        /\ mode' = "split" => buf'[i].page = 0
        /\ mode' = "jumbo" \/ mode' = "split"
    BY <1>3, <1>9, <2>1
  <2>3. PICK k \in 1 .. N : buf'[i].skb = s + k
    <3>1. buf'[i].skb - s \in 1 .. N /\ buf'[i].skb = s + (buf'[i].skb - s)
      BY <2>2
    <3> QED
      BY <3>1
  <2>4. skbs'[s + k] = EmptySkb
    BY <1>5, <1>7, <2>1
  <2>5. Full(buf[i])'
    BY <2>2 DEF Full
  <2>6. Len(skbs') = s + N /\ Len(pages') = p + M
    BY <1>7, <1>8, <2>1
  <2>7. buf'[i].page <= p + M
    BY <2>2
  <2>8. buf'[i].skb \notin 1 .. s /\ buf'[i].page \notin 1 .. p /\ buf'[i].page2 \notin 1 .. p
    BY <2>2
  <2> QED
    BY <1>6, <2>2, <2>3, <2>4, <2>5, <2>6, <2>7, <2>8
<1>14. GivenStays /\ (\A r \in Held : SkbStays(r)) /\ Held' \subseteq Held
  <2>0. Held' \subseteq Held
    BY <1>3 DEF Held, Given
  <2> SUFFICES ASSUME NEW r \in Held PROVE SkbStays(r)
    BY <2>0 DEF GivenStays, Given, Held
  <2>1. r \in DOMAIN skbs /\ \A n \in DOMAIN skbs[r].frags : Out(skbs[r].frags[n])
    BY <1>1 DEF Apart, Held
  <2>2. skbs[r] \in SkbType
    BY <1>6, <2>1
  <2>3. DOMAIN skbs[r].frags = 1 .. Len(skbs[r].frags)
    BY <2>2 DEF SkbType
  <2> QED
    BY <1>7, <1>8, <2>1, <2>3 DEF SkbStays, Out
<1>15. FramesGrow
  BY <1>1, <1>3 DEF FramesGrow, Types
<1>16. GivenWhole' /\ Ordered' /\ Once'
  <2>1. gone \subseteq gone'
    BY <1>1, <1>3 DEF Types
  <2> QED
    BY <1>1, <1>3, <1>12, <1>14, <1>15, <2>1, GivenWholeStays, OrderedStays, OnceStays
<1>17. Apart'
  <2>1. Held' = Given /\ Given' = Given
    BY <1>3 DEF Held, Given
  <2>2. ASSUME NEW r \in Given
        PROVE  /\ r \in DOMAIN skbs' /\ \A i \in Slots : buf'[i].skb # r
               /\ (\A n \in DOMAIN skbs[r].frags : Out(skbs[r].frags[n]))'
    <3>1. r \in DOMAIN skbs /\ \A n \in DOMAIN skbs[r].frags : Out(skbs[r].frags[n])
      BY <1>1 DEF Apart, Held
    <3>2. PICK fr : fr = skbs[r].frags
      OBVIOUS
    <3>3. skbs'[r].frags = fr
      BY <1>7, <3>1, <3>2
    <3>4. DOMAIN skbs' = 1 .. s + RX_DESC_CNT /\ DOMAIN pages' = 1 .. p + 2 * RX_DESC_CNT
      BY <1>7, <1>8
    <3>5. r \in DOMAIN skbs' /\ DOMAIN pages \subseteq DOMAIN pages'
      BY <1>4, <1>6, <3>1, <3>4
    <3>6. \A n \in DOMAIN fr : Out(fr[n])'
      BY <1>13, <3>1, <3>2, <3>5 DEF Out
    <3>7. \A i \in Slots : buf'[i].skb # r
      BY <1>13, <3>1
    <3> QED
      BY <3>3, <3>5, <3>6, <3>7
  <2>3. skb_top' \notin Given'
    <3>1. 0 \notin DOMAIN skbs
      BY <1>6
    <3>2. Given \subseteq DOMAIN skbs
      BY <1>1 DEF Apart, Held
    <3> QED
      BY <1>3, <2>1, <3>1, <3>2
  <2> QED
    BY <2>1, <2>2, <2>3 DEF Apart
<1> QED
  BY <1>3, <1>9, <1>11, <1>12, <1>13, <1>16, <1>17 DEF Fresh

-----------------------------------------------------------------------------
(* The invariant, and what follows from it.                                *)

LEMMA ChainNext ==
    ASSUME Ordinary, ChainInv, [Next]_vars
    PROVE  ChainInv'
<1>1. CASE Rx
  BY <1>1, StartStep, BadStep, FirstStep, MiddleStep, GoodStep, LateStep, EndStep DEF Rx
<1>2. CASE Refill
  BY <1>2, RefillOneStep, RefillEndStep, RefillFailsStep DEF Refill
<1>3. CASE Dma
  BY <1>3, DataStep, StampStep DEF Dma
<1>4. CASE \E k \in Kinds : FrameArrives(k)
  BY <1>4, ArriveStep
<1>5. CASE \E m \in Modes : Restart(m)
  BY <1>5, RestartFresh, FreshNext
<1>6. CASE UNCHANGED vars
  <2>1. /\ UNCHANGED <<mode, pc, poll, desc, buf, cur_rx, dirty_rx, skb_realloc_idx, skb_top, skbs, pages>>
        /\ UNCHANGED <<dma, frames, gone, delivered, lost>>
    BY <1>6 DEF vars, ring, heap, wire
  <2>2. Types'
    BY <2>1 DEF ChainInv, Types
  <2>3. Coming' = Coming /\ Room' = Room /\ Counts'
    BY <2>1, PollSame DEF ChainInv
  <2> QED
    BY <2>1, <2>2, <2>3, QuietStep
<1> QED
  BY <1>1, <1>2, <1>3, <1>4, <1>5, <1>6 DEF Next

LEMMA ChainInvariant ==
    ASSUME Ordinary
    PROVE  Spec => []ChainInv
<1>1. Init => ChainInv
  BY InitFresh, FreshInv
<1>2. ChainInv /\ [Next]_vars => ChainInv'
  BY ChainNext
<1> QED
  BY <1>1, <1>2, PTL DEF Spec

\* What the stack reads in an skb.
LEMMA ContentsIs ==
    ASSUME Types, NEW s \in DOMAIN skbs, \A j \in DOMAIN skbs[s].frags : Out(skbs[s].frags[j])
    PROVE  /\ Contents(s) \in Seq(DataType)
           /\ Len(Contents(s)) = Lead(skbs[s]) + Len(skbs[s].frags)
           /\ skbs[s].put > 0 => Contents(s)[1] = skbs[s].data
           /\ \A j \in 1 .. Len(skbs[s].frags) : Contents(s)[Lead(skbs[s]) + j] = pages[skbs[s].frags[j]]
<1>1. PICK skb \in SkbType : skb = skbs[s]
  BY DEF Types
<1>2. PICK fr \in Seq(Nat) : fr = skb.frags
  BY DEF SkbType
<1>3. PICK N \in Nat : N = Len(fr) /\ DOMAIN fr = 1 .. N
  BY <1>2
<1>4. PICK head : head = IF skb.put > 0 THEN <<skb.data>> ELSE <<>>
  OBVIOUS
<1>5. PICK tail : tail = [j \in 1 .. N |-> pages[fr[j]]]
  OBVIOUS
<1>6. Contents(s) = head \o tail
  BY <1>1, <1>2, <1>3, <1>4, <1>5 DEF Contents
<1>7. /\ head \in Seq(DataType) /\ Len(head) = Lead(skb)
      /\ skb.put > 0 => Len(head) = 1 /\ head[1] = skb.data
  <2>1. skb.data \in DataType
    BY DEF SkbType
  <2> QED
    BY <1>4, <2>1 DEF Lead
<1>8. tail \in Seq(DataType) /\ Len(tail) = N
  <2>1. ASSUME NEW j \in 1 .. N PROVE pages[fr[j]] \in DataType
    <3>1. fr[j] \in DOMAIN pages
      BY <1>1, <1>2, <1>3 DEF Out
    <3> QED
      BY <3>1 DEF Types
  <2>2. tail \in [1 .. N -> DataType]
    BY <1>5, <2>1
  <2> QED
    BY <2>2, FunctionSeq
<1>9. /\ head \o tail \in Seq(DataType) /\ Len(head \o tail) = Len(head) + Len(tail)
      /\ \A p \in DOMAIN head : (head \o tail)[p] = head[p]
      /\ \A p \in 1 .. Len(tail) : (head \o tail)[Len(head) + p] = tail[p]
  <2>1. PICK h \in Seq(DataType), l \in Seq(DataType) : h = head /\ l = tail
    BY <1>7, <1>8
  <2>2. /\ h \o l \in Seq(DataType) /\ Len(h \o l) = Len(h) + Len(l)
        /\ \A p \in DOMAIN h : (h \o l)[p] = h[p]
    BY Appended
  <2>3. \A p \in 1 .. Len(l) : (h \o l)[Len(h) + p] = l[p]
    BY Appended
  <2> QED
    BY <2>1, <2>2, <2>3
<1>10. skb.put > 0 => 1 \in DOMAIN head
  BY <1>7
<1>11. \A j \in 1 .. N : tail[j] = pages[fr[j]]
  BY <1>5
<1>12. skb.put > 0 => Contents(s)[1] = skb.data
  BY <1>6, <1>7, <1>9, <1>10
<1>13. \A j \in 1 .. N : Contents(s)[Lead(skb) + j] = pages[fr[j]]
  BY <1>6, <1>7, <1>8, <1>9, <1>11
<1> QED
  BY <1>1, <1>2, <1>3, <1>6, <1>7, <1>8, <1>9, <1>12, <1>13

LEMMA ReadsContents ==
    ASSUME Types, NEW s \in DOMAIN skbs, \A j \in DOMAIN skbs[s].frags : Out(skbs[s].frags[j]),
           NEW f \in Nat, NEW n \in Nat, Reads(skbs[s], f, n)
    PROVE  /\ IsPrefix(PartsOf(f, n), Contents(s))
           /\ n = Lead(skbs[s]) + Len(skbs[s].frags) => Contents(s) = PartsOf(f, n)
<1>1. PICK skb \in SkbType : skb = skbs[s]
  BY DEF Types
<1>2. PICK fr \in Seq(Nat) : fr = skb.frags
  BY DEF SkbType
<1>3. PICK c : c = Contents(s)
  OBVIOUS
<1>4. PICK lead \in {0, 1} : lead = Lead(skb)
  BY DEF Lead
<1>5. PICK N \in Nat : N = Len(fr)
  BY <1>2
<1>6. /\ c \in Seq(DataType) /\ Len(c) = lead + N
      /\ skb.put > 0 => c[1] = skb.data
      /\ \A j \in 1 .. N : c[lead + j] = pages[fr[j]]
  BY <1>1, <1>2, <1>3, <1>4, <1>5, ContentsIs
<1>7. /\ n <= lead + N
      /\ skb.put > 0 /\ n > 0 => skb.data = <<f, 1>>
      /\ \A j \in 1 .. N : j + lead <= n => pages[fr[j]] = <<f, j + lead>>
  BY <1>1, <1>2, <1>4, <1>5 DEF Reads
<1>8. lead = 1 <=> skb.put > 0
  BY <1>1, <1>4 DEF Lead
<1>9. ASSUME NEW k \in 1 .. n PROVE c[k] = <<f, k>>
  <2>1. CASE lead = 1 /\ k = 1
    BY <1>6, <1>7, <1>8, <2>1
  <2>2. CASE ~(lead = 1 /\ k = 1)
    <3>1. PICK j \in 1 .. N : k = lead + j
      <4>1. k - lead \in 1 .. N /\ k = lead + (k - lead)
        BY <1>7, <2>2
      <4> QED
        BY <4>1
    <3>2. j + lead = k /\ k <= n
      BY <3>1
    <3> QED
      BY <1>6, <1>7, <3>1, <3>2
  <2> QED
    BY <2>1, <2>2
<1>10. PICK p : p = PartsOf(f, n)
  OBVIOUS
<1>11. p \in [1 .. n -> DataType] /\ \A k \in 1 .. n : p[k] = <<f, k>>
  BY <1>10 DEF PartsOf, DataType
<1>12. p \in Seq(DataType) /\ Len(p) = n
  BY <1>11, FunctionSeq
<1>13. n <= Len(c) /\ Len(c) \in Nat
  BY <1>6, <1>7
<1>14. SubSeq(p, 1, n) = SubSeq(c, 1, n)
  <2>1. SubSeq(p, 1, n) = [k \in 1 .. n |-> p[k]]
    BY <1>12
  <2>2. SubSeq(c, 1, n) = [k \in 1 .. n |-> c[k]]
    BY <1>6, <1>13
  <2> QED
    BY <1>9, <1>11, <2>1, <2>2
<1>15. IsPrefix(p, c)
  BY <1>12, <1>13, <1>14 DEF IsPrefix
<1>16. n = lead + N => c = p
  <2> SUFFICES ASSUME n = lead + N PROVE c = p
    OBVIOUS
  <2>1. Len(c) = n /\ Len(p) = n
    BY <1>6, <1>12
  <2>2. \A k \in 1 .. n : c[k] = p[k]
    BY <1>9, <1>11
  <2> QED
    BY <1>6, <1>12, <2>1, <2>2
<1>17. IsPrefix(PartsOf(f, n), Contents(s))
  BY <1>3, <1>10, <1>15
<1>18. lead + N = Lead(skbs[s]) + Len(skbs[s].frags)
  BY <1>1, <1>2, <1>4, <1>5
<1> QED
  BY <1>3, <1>10, <1>16, <1>17, <1>18

LEMMA CountNat ==
    ASSUME Ordinary, Types, NEW f \in 1 .. Len(frames), NEW m
    PROVE  Count(f, m) \in Nat
<1>1. PICK h \in Nat : /\ h = IF m = "jumbo" THEN 0 ELSE IF frames[f].hl > 0 THEN frames[f].hl
                                                 ELSE Lesser(HdrSize, frames[f].len)
                      /\ h <= frames[f].len
  <2>1. /\ frames[f].len \in Nat /\ frames[f].hl \in Nat /\ frames[f].hl <= frames[f].len
        /\ HdrSize \in Nat
    BY FrameFacts, Sizes
  <2>2. Lesser(HdrSize, frames[f].len) \in Nat /\ Lesser(HdrSize, frames[f].len) <= frames[f].len
    BY <2>1 DEF Lesser
  <2> QED
    BY <2>1, <2>2
<1>2. PICK a \in Nat : a = frames[f].len - h
  BY <1>1, FrameFacts
<1>3. (a + BufLen - 1) \div BufLen \in Nat
  BY DivNat, Sizes
<1>4. PICK q \in Nat : q = (a + BufLen - 1) \div BufLen
  BY <1>3
<1>5. Count(f, m) = q + (IF m = "jumbo" THEN 0 ELSE 1)
  BY <1>1, <1>2, <1>4 DEF Count
<1> QED
  BY <1>5

\* skb_top is the chain: NULL at the first descriptor of a frame, and else it has the
\* parts so far; what the indices and counters may be.
THEOREM ChainHeadKept ==
    ASSUME Ordinary
    PROVE  Spec => []ChainKept
<1>1. ASSUME ChainInv PROVE ChainKept
  <2>1. TypeOK
    <3>1. Types
      BY <1>1 DEF ChainInv
    <3>2. DOMAIN desc = Slots
      BY <3>1 DEF Types
    <3>3. \A s \in DOMAIN skbs : skbs[s].len \in Nat /\ skbs[s].put \in Nat
      <4>1. \A s \in DOMAIN skbs : skbs[s] \in SkbType
        BY <3>1 DEF Types
      <4> QED
        BY <4>1 DEF SkbType
    <3> QED
      BY <3>1, <3>2, <3>3 DEF Types, TypeOK, PollType, BufType
  <2>2. ASSUME Available
        PROVE  /\ D.fd <=> skb_top = 0
               /\ ~D.fd => \E n \in 1 .. Count(D.of, mode) : Contents(skb_top) = PartsOf(D.of, n)
    <3>1. PICK at \in Nat, t \in Nat, n \in Nat : Laid(at, t, n)
      BY <1>1 DEF ChainInv, LaidOut
    <3>2. /\ Begun(cur_rx, t + 1, n) /\ t + 1 \in 1 .. Len(frames) /\ (n = 0 <=> skb_top = 0)
      BY <1>1, <2>2, <3>1, HeadFacts
    <3>3. (D.fd <=> n = 0) /\ D.of = t + 1 /\ Bytes(t + 1, n) < frames[t + 1].len
      BY <3>2 DEF Begun, Describes, D
    <3>4. n < Count(t + 1, mode)
      BY <1>1, <3>2, <3>3, CountIs DEF ChainInv
    <3>5. ASSUME ~D.fd
          PROVE  \E k \in 1 .. Count(D.of, mode) : Contents(skb_top) = PartsOf(D.of, k)
      <4>1. n > 0 /\ skb_top # 0 /\ t + 1 \in Nat
        BY <3>2, <3>3, <3>5
      <4>2. Reads(skbs[skb_top], t + 1, n) /\ n = Lead(skbs[skb_top]) + Len(skbs[skb_top].frags)
        BY <3>1, <4>1 DEF Laid, Collected
      <4>3. skb_top \in DOMAIN skbs /\ \A j \in DOMAIN skbs[skb_top].frags : Out(skbs[skb_top].frags[j])
        BY <1>1, <4>1 DEF ChainInv, Apart, Held
      <4>4. Contents(skb_top) = PartsOf(t + 1, n)
        BY <1>1, <4>1, <4>2, <4>3, ReadsContents DEF ChainInv
      <4>5. n \in 1 .. Count(t + 1, mode)
        <5>1. Count(t + 1, mode) \in Nat
          BY <1>1, <3>2, CountNat DEF ChainInv
        <5> QED
          BY <3>4, <4>1, <5>1
      <4> QED
        BY <3>3, <4>4, <4>5
    <3> QED
      BY <3>2, <3>3, <3>5
  <2> QED
    BY <2>1, <2>2 DEF ChainKept, ChainHead
<1> QED
  BY <1>1, ChainInvariant, PTL

\* No skb and no page is in two places: two buffers of the ring, twice in one, in the
\* ring and an skb that left it, in two of those skbs or twice in one; and the DMA
\* writes only into the ring.
THEOREM PagesKeptApart ==
    ASSUME Ordinary
    PROVE  Spec => []PagesApart
<1>1. ASSUME ChainInv PROVE PagesApart
  <2>1. Types /\ Stock /\ Distinct(buf) /\ Apart /\ Clean /\ SkbsOnce /\ PagesOnce
    BY <1>1 DEF ChainInv, Once
  <2>2. \A m, n \in DOMAIN delivered : delivered[m].skb = delivered[n].skb => m = n
    BY <2>1 DEF SkbsOnce
  <2>3. skb_top \notin {delivered[n].skb : n \in DOMAIN delivered}
    BY <2>1 DEF Apart, Given
  <2>4. ASSUME NEW i \in Slots, NEW s \in Held
        PROVE  /\ buf[i].skb # s
               /\ \A n \in DOMAIN skbs[s].frags : skbs[s].frags[n] \notin {buf[i].page, buf[i].page2} \ {0}
    BY <2>1 DEF Apart, Out
  <2>5. ASSUME NEW r \in Held, NEW s \in Held
        PROVE  \A m \in DOMAIN skbs[r].frags, n \in DOMAIN skbs[s].frags :
                  skbs[r].frags[m] = skbs[s].frags[n] => r = s /\ m = n
    BY <2>1 DEF PagesOnce
  <2>6. ASSUME NEW i \in Slots
        PROVE  /\ buf[i].page = buf[i].page2 => buf[i].page = 0
               /\ buf[i].skb # 0 => skbs[buf[i].skb].frags = <<>>
               /\ desc[i].own => desc[i].addr = buf[i]
    <3>1. buf[i].skb \in Nat
      BY <2>1 DEF Types, BufType
    <3>2. buf[i].skb # 0 => skbs[buf[i].skb].frags = <<>>
      BY <2>1, <3>1 DEF Clean
    <3> QED
      BY <2>1, <3>2 DEF Distinct, Stock
  <2>7. ASSUME NEW i \in Slots, NEW j \in Slots, i # j
        PROVE  /\ buf[i].skb = buf[j].skb => buf[i].skb = 0
               /\ ({buf[i].page, buf[i].page2} \ {0}) \cap ({buf[j].page, buf[j].page2} \ {0}) = {}
    <3>1. /\ buf[i].page = buf[j].page => buf[i].page = 0
          /\ buf[i].page2 = buf[j].page2 => buf[i].page2 = 0
          /\ buf[i].page = buf[j].page2 => buf[i].page = 0
          /\ buf[j].page = buf[i].page2 => buf[j].page = 0
          /\ buf[i].skb = buf[j].skb => buf[i].skb = 0
      BY <2>1, <2>7 DEF Distinct
    <3> QED
      BY <3>1
  <2> QED
    BY <2>2, <2>3, <2>4, <2>5, <2>6, <2>7 DEF PagesApart, Held, Given
<1> QED
  BY <1>1, ChainInvariant, PTL

\* Every frame the stack got is there with all its parts, first and in order.
THEOREM FramesWhole ==
    ASSUME Ordinary
    PROVE  Spec => []WholeFrames
<1>1. ASSUME ChainInv PROVE WholeFrames
  <2> SUFFICES ASSUME NEW m \in DOMAIN delivered, NEW d, d = delivered[m]
               PROVE  IsPrefix(PartsOf(d.of, Count(d.of, d.mode)), Contents(d.skb))
    BY DEF WholeFrames
  <2>1. d.of \in 1 .. Len(frames) /\ Reads(skbs[d.skb], d.of, Count(d.of, d.mode))
    BY <1>1 DEF ChainInv, GivenWhole
  <2>2. d.skb \in DOMAIN skbs /\ \A j \in DOMAIN skbs[d.skb].frags : Out(skbs[d.skb].frags[j])
    BY <1>1 DEF ChainInv, Apart, Held, Given
  <2>3. Count(d.of, d.mode) \in Nat
    BY <1>1, <2>1, CountNat DEF ChainInv
  <2> QED
    BY <1>1, <2>1, <2>2, <2>3, ReadsContents DEF ChainInv
<1> QED
  BY <1>1, ChainInvariant, PTL

\* Where the poll is: t frames are behind it, and the next one is it.
LEMMA ComingFrame ==
    ASSUME ChainInv, pc # "refill", NEW at \in Nat, NEW t \in Nat, NEW n \in Nat, Laid(at, t, n)
    PROVE  NextFrame = t + 1
<1>1. Types /\ Counts
  BY DEF ChainInv
<1>2. Coming = cur_rx /\ 0 < Room
  <2>1. Behind = lost + dirty_rx /\ dirty_rx \in Nat /\ lost \in Nat
    BY <1>1, Sizes DEF Behind, Types
  <2>2. dirty_rx < MIN_RX_DESC_CNT /\ lost <= MaxLost
    BY <1>1, Sizes DEF Counts, Types
  <2> QED
    BY <2>1, <2>2, Sizes DEF Coming, Room
<1>3. desc[cur_rx].own <=> at = 0
  <2>1. desc[Advance(cur_rx, 0)].own <=> at <= 0 /\ 0 < Room
    BY <1>2, Sizes DEF Laid, Handed
  <2>2. Advance(cur_rx, 0) = cur_rx
    BY <1>1, AdvanceZero DEF Types
  <2> QED
    BY <1>2, <2>1, <2>2
<1>4. PartAt(cur_rx, at, 0, t, n)
  BY <1>2 DEF Laid
<1>5. CASE at = 0
  <2>1. DmaAt(t, n)
    BY <1>4, <1>5 DEF PartAt
  <2>2. Len(frames) \in Nat /\ dma.left \in Nat
    BY <1>1 DEF Types, DmaType
  <2>3. IF dma.left > 0 THEN t + 1 = Len(frames) ELSE t = Len(frames)
    BY <2>1, <2>2 DEF DmaAt
  <2> QED
    BY <1>3, <1>5, <2>2, <2>3 DEF NextFrame, D, F
<1>6. CASE at # 0
  <2>1. Begun(Advance(cur_rx, 0), t + 1, n)
    BY <1>4, <1>6 DEF PartAt
  <2>2. Advance(cur_rx, 0) = cur_rx
    BY <1>1, AdvanceZero DEF Types
  <2>3. desc[cur_rx].of = t + 1
    BY <2>1, <2>2 DEF Begun, Describes
  <2> QED
    BY <1>3, <1>6, <2>3 DEF NextFrame, D
<1> QED
  BY <1>5, <1>6

\* The stack gets good frames only, in the order of their arrival and once; and every
\* frame before the one the poll is at was given to it, was bad, or was thrown away by
\* a restart.
THEOREM FramesInOrder ==
    ASSUME Ordinary
    PROVE  Spec => []InOrder
<1>1. ASSUME ChainInv PROVE InOrder
  <2>1. Types /\ Ordered
    BY <1>1 DEF ChainInv
  <2>2. ASSUME pc # "refill", NEW h \in 1 .. NextFrame - 1 PROVE Accounted(h)
    <3>1. PICK at \in Nat, t \in Nat, n \in Nat : Laid(at, t, n)
      BY <1>1 DEF ChainInv, LaidOut
    <3>2. NextFrame = t + 1
      BY <1>1, <2>2, <3>1, ComingFrame
    <3>3. h \in 1 .. t /\ LastOf \in Nat
      BY <2>1, <2>2, <3>2, LastOfType
    <3>4. CASE h \in 1 .. LastOf
      BY <2>1, <3>4 DEF Ordered
    <3>5. CASE h \in LastOf + 1 .. t
      BY <3>1, <3>5 DEF Laid, Settled, Accounted
    <3> QED
      BY <3>3, <3>4, <3>5
  <2> QED
    BY <2>1, <2>2 DEF Ordered, InOrder
<1> QED
  BY <1>1, ChainInvariant, PTL

=============================================================================
