----------------------------- MODULE NapiProofs -----------------------------
(***************************************************************************)
(* For any number of channels and CPUs, any budget and any rings: the      *)
(* budget is kept and napi structures are neither lost nor polled twice;   *)
(* on one CPU receive interrupts are never left masked; with one channel   *)
(* whose ring never fills no packet is left behind, on any CPUs.           *)
(***************************************************************************)
EXTENDS Napi, FiniteSetTheorems, TLAPS

-----------------------------------------------------------------------------
(* The budget.                                                             *)

\* The shares of the queues add up to the budget at most.
LEMMA Shares ==
    /\ PerQBudget \in Nat
    /\ \A q \in Nat : (q + 1) * PerQBudget = q * PerQBudget + PerQBudget
    /\ \A q \in 0 .. QUEUE_CNT : q * PerQBudget \in Nat /\ q * PerQBudget <= Budget
<1> USE NapiAssumption
<1>1. PerQBudget \in Nat /\ QUEUE_CNT * PerQBudget <= Budget
  BY DEF PerQBudget
<1>2. \A q \in Nat : (q + 1) * PerQBudget = q * PerQBudget + PerQBudget
  BY <1>1
<1>3. ASSUME NEW q \in 0 .. QUEUE_CNT
      PROVE  q * PerQBudget \in Nat /\ q * PerQBudget <= Budget
  <2>1. q * PerQBudget \in Nat
    BY <1>1
  <2>2. (QUEUE_CNT - q) * PerQBudget \in Nat
    BY <1>1
  <2>3. (QUEUE_CNT - q) * PerQBudget = QUEUE_CNT * PerQBudget - q * PerQBudget
    BY <1>1
  <2> QED
    BY <1>1, <2>1, <2>2, <2>3
<1> QED
  BY <1>1, <1>2, <1>3

-----------------------------------------------------------------------------
(* The inductive invariant.                                                *)

ClearRec  == [pc : {"clear"}, q : Queues, sched : BOOLEAN]
TestRec   == [pc : {"test"}, q : Queues, sched : BOOLEAN, seen : SUBSET (Irqs \cup {"OTHER"})]
MaskRec   == [pc : {"mask"}, q : Queues, prep : BOOLEAN, w : WriteType]
CleanRec  == [pc : {"clean"}, napi : Queues, q : 0 .. QUEUE_CNT,
              got : 0 .. PerQBudget, received : 0 .. Budget]
EnableRec == [pc : {"enable"}, w : WriteType]

\* What a poll delivered is covered by the shares of the queues it has visited.
WithinShares ==
    \A c \in Cpus :
        /\ cpu[c].pc = "clean" => cpu[c].received <= cpu[c].q * PerQBudget + cpu[c].got
        /\ cpu[c].pc = "enable" => cpu[c].w[1] < QUEUE_CNT

\* Two polls work for two napi structures.
OnePollEach ==
    \A c, d \in Cpus :
        cpu[c].pc = "clean" /\ cpu[d].pc = "clean" /\ cpu[c].napi = cpu[d].napi => c = d

NapiInv == TypeOK /\ NapiHeldOnce /\ WithinShares /\ OnePollEach

LEMMA IsrCases ==
    ASSUME TypeOK
    PROVE  /\ isr = Idle \/ isr \in ClearRec \/ isr \in TestRec \/ isr \in MaskRec
           /\ isr = Idle => isr.pc = "idle"
           /\ isr.pc = "clear" => isr \in ClearRec
           /\ isr.pc = "test" => isr \in TestRec
           /\ isr.pc = "mask" => isr \in MaskRec
BY DEF TypeOK, IsrType, Idle, ClearRec, TestRec, MaskRec

LEMMA CpuCases ==
    ASSUME TypeOK, NEW c \in Cpus
    PROVE  /\ cpu[c] = Idle \/ cpu[c] \in CleanRec \/ cpu[c] \in EnableRec
           /\ cpu[c] = Idle => cpu[c].pc = "idle"
           /\ cpu[c].pc = "clean" => cpu[c] \in CleanRec
           /\ cpu[c].pc = "enable" => cpu[c] \in EnableRec
BY DEF TypeOK, CpuType, Idle, CleanRec, EnableRec

\* A register write in hand.
LEMMA Writes ==
    ASSUME TypeOK, NEW w \in WriteType, w[1] < QUEUE_CNT
    PROVE  /\ w[1] \in Queues /\ w[2] \in Irqs
           /\ ReadIer(w) \in WriteType /\ ReadIer(w)[1] = w[1]
           /\ NextWrite(w) \in WriteType /\ NextWrite(w)[1] \in {w[1], w[1] + 1}
           /\ w[3] # NotRead => w[3] \in SUBSET Irqs
<1> DEFINE R == (SUBSET Irqs) \cup {NotRead}
<1>1. /\ w = <<w[1], w[2], w[3]>> /\ w[1] \in 0 .. QUEUE_CNT /\ w[2] \in Irqs /\ w[3] \in R
  BY DEF WriteType
<1>2. w[1] \in Queues /\ w[1] + 1 \in 0 .. QUEUE_CNT
  BY <1>1, NapiAssumption DEF Queues
<1>3. "RBU" \in Irqs /\ "RI" \in Irqs
  BY DEF Irqs
<1>7. NotRead \in R /\ (w[3] # NotRead => w[3] \in SUBSET Irqs)
  BY <1>1
<1>4. ier[w[1]] \in R
  BY <1>2 DEF TypeOK
<1>5. ReadIer(w) \in WriteType /\ ReadIer(w)[1] = w[1]
  BY <1>1, <1>4 DEF ReadIer, WriteType
<1>6. NextWrite(w) \in WriteType /\ NextWrite(w)[1] \in {w[1], w[1] + 1}
  BY <1>1, <1>2, <1>3, <1>7 DEF NextWrite, WriteType
<1> QED
  BY <1>1, <1>2, <1>5, <1>6, <1>7

LEMMA FirstWriteType == FirstWrite \in WriteType /\ FirstWrite[1] < QUEUE_CNT
<1>1. "RBU" \in Irqs /\ 0 \in 0 .. QUEUE_CNT /\ 0 < QUEUE_CNT
  BY NapiAssumption DEF Irqs
<1>2. NotRead \in (SUBSET Irqs) \cup {NotRead}
  OBVIOUS
<1> QED
  BY <1>1, <1>2 DEF FirstWrite, WriteType

LEMMA NapiInit == Init => NapiInv
<1> SUFFICES ASSUME Init PROVE NapiInv
  OBVIOUS
<1>1. TypeOK
  BY NapiAssumption DEF Init, TypeOK, IsrType, CpuType
<1>2. isr.pc = "idle" /\ \A c \in Cpus : cpu[c].pc = "idle"
  BY DEF Init, Idle
<1>3. NapiHeldOnce /\ WithinShares /\ OnePollEach
  BY <1>2 DEF Init, NapiHeldOnce, WithinShares, OnePollEach
<1> QED
  BY <1>1, <1>3 DEF NapiInv

-----------------------------------------------------------------------------
(* The service routine.                                                    *)

LEMMA NextChannelType ==
    ASSUME NEW q \in Queues, NEW s \in BOOLEAN, NextChannel(q, s)
    PROVE  isr' \in IsrType /\ isr'.pc \in {"idle", "clear"}
BY NapiAssumption DEF NextChannel, IsrType, Idle, Queues

\* The steps of the service routine that touch no napi structure.
LEMMA IsrOther ==
    ASSUME NapiInv, UNCHANGED <<pkts, arrived, napi, cpu>>,
           sr' \in [Queues -> SUBSET (Irqs \cup {"OTHER"})], ier' \in [Queues -> SUBSET Irqs],
           isr' \in IsrType,
           \/ isr.pc # "mask" /\ isr'.pc # "mask"
           \/ isr.pc = "mask" /\ isr'.pc = "mask" /\ isr'.prep = isr.prep /\ isr'.q = isr.q
    PROVE  NapiInv'
BY DEF NapiInv, TypeOK, NapiHeldOnce, WithinShares, OnePollEach

LEMMA IsrStep == ASSUME NapiInv, Isr PROVE NapiInv'
<1> USE NapiAssumption
<1>1. TypeOK
  BY DEF NapiInv
<1>2. CASE IsrStart
  <2>1. isr' \in IsrType /\ isr'.pc = "clear" /\ isr.pc = "idle"
    BY <1>2 DEF IsrStart, IsrType, Queues, Idle
  <2>2. UNCHANGED <<pkts, arrived, napi, cpu>> /\ sr' = sr /\ ier' = ier
    BY <1>2 DEF IsrStart
  <2> QED
    BY <1>1, <2>1, <2>2, IsrOther DEF TypeOK
<1>3. CASE IsrClear
  <2>1. isr.pc = "clear" /\ isr \in ClearRec
    BY <1>1, <1>3, IsrCases DEF IsrClear
  <2>2. isr' \in TestRec
    BY <1>1, <1>3, <2>1 DEF IsrClear, ClearRec, TestRec, TypeOK
  <2>3. isr' \in IsrType /\ isr'.pc = "test"
    BY <2>2 DEF IsrType, TestRec
  <2>4. sr' \in [Queues -> SUBSET (Irqs \cup {"OTHER"})]
    BY <1>1, <1>3 DEF IsrClear, TypeOK
  <2>5. UNCHANGED <<pkts, arrived, napi, cpu>> /\ ier' = ier
    BY <1>3 DEF IsrClear
  <2> QED
    BY <1>1, <2>1, <2>3, <2>4, <2>5, IsrOther DEF TypeOK
<1>4. CASE IsrNothing
  <2>1. isr.pc = "test" /\ isr \in TestRec
    BY <1>1, <1>4, IsrCases DEF IsrNothing
  <2>2. isr' \in IsrType /\ isr'.pc \in {"idle", "clear"}
    BY <1>4, <2>1, NextChannelType DEF IsrNothing, TestRec
  <2>3. UNCHANGED <<pkts, arrived, napi, cpu>> /\ sr' = sr /\ ier' = ier
    BY <1>4 DEF IsrNothing
  <2> QED
    BY <1>1, <2>1, <2>2, <2>3, IsrOther DEF TypeOK
<1>5. CASE IsrReceive
  <2> DEFINE n == isr.q
             prep == napi[n] = "idle"
  <2>1. isr.pc = "test" /\ n \in Queues
    BY <1>1, <1>5, IsrCases DEF IsrReceive, TestRec
  <2>2. /\ isr' = [pc |-> "mask", q |-> n, prep |-> prep, w |-> FirstWrite]
        /\ napi' = [napi EXCEPT ![n] = IF @ = "idle" THEN "prep" ELSE @]
        /\ UNCHANGED <<pkts, arrived, sr, ier, cpu>>
    BY <1>5 DEF IsrReceive
  <2>3. isr' \in IsrType /\ isr'.pc = "mask" /\ isr'.q = n /\ isr'.prep = prep
    BY <2>1, <2>2, FirstWriteType DEF IsrType
  <2>4. napi \in [Queues -> {"idle", "prep", "sched", "run"}] /\ \A m \in Queues : napi[m] # "prep"
    BY <1>1, <2>1 DEF TypeOK, NapiInv, NapiHeldOnce
  <2>5. TypeOK'
    BY <1>1, <2>2, <2>3, <2>4 DEF TypeOK
  <2>6. NapiHeldOnce'
    <3>1. \A m \in Queues : napi'[m] = "run" <=> napi[m] = "run"
      BY <2>1, <2>2, <2>4
    <3>2. \A m \in Queues : napi'[m] = "prep" <=> m = n /\ prep
      BY <2>1, <2>2, <2>4
    <3> QED
      <4>1. \A m \in Queues : isr'.pc = "mask" /\ isr'.prep /\ isr'.q = m <=> m = n /\ prep
        BY <2>3
      <4>2. cpu' = cpu
        BY <2>2
      <4> QED
        BY <3>1, <3>2, <4>1, <4>2 DEF NapiInv, NapiHeldOnce
  <2>7. WithinShares' /\ OnePollEach'
    BY <2>2 DEF NapiInv, WithinShares, OnePollEach
  <2> QED
    BY <2>5, <2>6, <2>7 DEF NapiInv
<1>6. CASE IsrMask
  <2> DEFINE w == isr.w
  <2>1. isr.pc = "mask" /\ isr \in MaskRec /\ w \in WriteType /\ w[1] < QUEUE_CNT
    BY <1>1, <1>6, IsrCases DEF IsrMask, MaskRec, WriteType, WritesDone
  <2>2. /\ w[1] \in Queues /\ ReadIer(w) \in WriteType /\ NextWrite(w) \in WriteType
        /\ w[3] # NotRead => w[3] \in SUBSET Irqs
    BY <1>1, <2>1, Writes
  <2>3. /\ isr' = [isr EXCEPT !.w = IF w[3] = NotRead THEN ReadIer(w) ELSE NextWrite(w)]
        /\ ier' = IF w[3] = NotRead THEN ier ELSE [ier EXCEPT ![w[1]] = w[3] \ {w[2]}]
        /\ UNCHANGED <<pkts, arrived, napi, cpu>> /\ sr' = sr
    BY <1>6 DEF IsrMask
  <2>4. isr' \in MaskRec /\ isr'.prep = isr.prep /\ isr'.q = isr.q
    BY <2>1, <2>2, <2>3 DEF MaskRec
  <2>5. isr' \in IsrType /\ isr'.pc = "mask"
    BY <2>4 DEF MaskRec, IsrType
  <2>6. ier' \in [Queues -> SUBSET Irqs]
    BY <1>1, <2>2, <2>3 DEF TypeOK
  <2> QED
    BY <1>1, <2>1, <2>3, <2>4, <2>5, <2>6, IsrOther DEF TypeOK
<1>7. CASE IsrSchedule
  <2> DEFINE n == isr.q
  <2>1. isr.pc = "mask" /\ n \in Queues /\ isr.prep \in BOOLEAN
    BY <1>1, <1>7, IsrCases DEF IsrSchedule, MaskRec
  <2>2. isr' \in IsrType /\ isr'.pc # "mask"
    BY <1>7, <2>1, NextChannelType DEF IsrSchedule
  <2>3. /\ napi' = [napi EXCEPT ![n] = IF isr.prep THEN "sched" ELSE @]
        /\ UNCHANGED <<pkts, arrived, sr, ier, cpu>>
    BY <1>7 DEF IsrSchedule
  <2>4. napi \in [Queues -> {"idle", "prep", "sched", "run"}]
        /\ \A m \in Queues : napi[m] = "prep" <=> isr.prep /\ m = n
    BY <1>1, <2>1 DEF TypeOK, NapiInv, NapiHeldOnce
  <2>5. TypeOK'
    BY <1>1, <2>2, <2>3, <2>4 DEF TypeOK
  <2>6. \A m \in Queues : (napi'[m] = "run" <=> napi[m] = "run") /\ napi'[m] # "prep"
    BY <2>1, <2>3, <2>4
  <2>7. NapiHeldOnce' /\ WithinShares' /\ OnePollEach'
    BY <2>2, <2>3, <2>6 DEF NapiInv, NapiHeldOnce, WithinShares, OnePollEach
  <2> QED
    BY <2>5, <2>7 DEF NapiInv
<1> QED
  BY <1>2, <1>3, <1>4, <1>5, <1>6, <1>7 DEF Isr

-----------------------------------------------------------------------------
(* A poll.                                                                 *)

LEMMA PollStep == ASSUME NapiInv, NEW c \in Cpus, Poll(c) PROVE NapiInv'
<1> USE NapiAssumption
<1>1. /\ TypeOK /\ cpu \in [Cpus -> CpuType]
      /\ napi \in [Queues -> {"idle", "prep", "sched", "run"}]
  BY DEF NapiInv, TypeOK
<1>2. CASE PollStart(c)
  <2>1. PICK n \in Queues :
           /\ napi[n] = "sched" /\ napi' = [napi EXCEPT ![n] = "run"]
           /\ cpu' = [cpu EXCEPT ![c] =
                 [pc |-> "clean", napi |-> n, q |-> 0, got |-> 0, received |-> 0]]
    BY <1>2 DEF PollStart
  <2>2. cpu[c].pc = "idle" /\ UNCHANGED <<pkts, arrived, sr, ier, isr>>
    BY <1>2 DEF PollStart, Idle
  <2>3. cpu'[c].pc = "clean" /\ cpu'[c].napi = n /\ cpu'[c].q = 0 /\ cpu'[c].got = 0
        /\ cpu'[c].received = 0 /\ \A d \in Cpus : d # c => cpu'[d] = cpu[d]
    BY <1>1, <2>1
  <2>4. TypeOK'
    <3>1. [pc |-> "clean", napi |-> n, q |-> 0, got |-> 0, received |-> 0] \in CpuType
      BY Shares DEF CpuType
    <3>2. cpu' \in [Cpus -> CpuType]
      BY <1>1, <2>1, <3>1
    <3>3. napi' \in [Queues -> {"idle", "prep", "sched", "run"}]
      BY <1>1, <2>1
    <3> QED
      BY <1>1, <2>2, <3>2, <3>3 DEF TypeOK
  <2>5. \A m \in Queues : /\ napi'[m] = "run" <=> m = n \/ napi[m] = "run"
                          /\ napi'[m] = "prep" <=> napi[m] = "prep"
    BY <1>1, <2>1
  <2>6. NapiHeldOnce'
    BY <2>2, <2>3, <2>5 DEF NapiInv, NapiHeldOnce
  <2>7. WithinShares'
    BY <2>3, Shares DEF NapiInv, WithinShares
  <2>8. OnePollEach'
    BY <2>1, <2>3 DEF NapiInv, NapiHeldOnce, OnePollEach
  <2> QED
    BY <2>4, <2>6, <2>7, <2>8 DEF NapiInv
<1>3. CASE CleanOne(c) \/ CleanNext(c)
  <2>1. cpu[c].pc = "clean" /\ cpu[c] \in CleanRec /\ cpu[c].q \in Queues
    BY <1>1, <1>3, CpuCases DEF CleanOne, CleanNext
  <2>2. cpu[c].received <= cpu[c].q * PerQBudget + cpu[c].got
    BY <2>1 DEF NapiInv, WithinShares
  <2>3. UNCHANGED <<arrived, sr, ier, napi, isr>> /\ pkts' \in [Queues -> 0 .. RingSize]
    BY <1>1, <1>3 DEF CleanOne, CleanNext, TypeOK
  <2>4. /\ cpu'[c] \in CleanRec /\ cpu'[c].napi = cpu[c].napi /\ cpu'[c].pc = "clean"
        /\ cpu'[c].received <= cpu'[c].q * PerQBudget + cpu'[c].got
        /\ \A d \in Cpus : d # c => cpu'[d] = cpu[d]
        /\ cpu' = [cpu EXCEPT ![c] = cpu'[c]]
    <3>1. CASE CleanOne(c)
      <4>1. /\ cpu' = [cpu EXCEPT ![c].got = @ + 1, ![c].received = @ + 1]
            /\ cpu[c].got < PerQBudget
        BY <3>1 DEF CleanOne
      <4>2. cpu'[c] = [cpu[c] EXCEPT !.got = @ + 1, !.received = @ + 1]
        BY <1>1, <4>1
      <4>3. cpu[c].got + 1 \in 0 .. PerQBudget
        BY <2>1, <4>1, Shares DEF CleanRec
      <4>4. cpu[c].received + 1 \in 0 .. Budget
        <5>1. cpu[c].q + 1 \in 0 .. QUEUE_CNT /\ cpu[c].q \in Nat
          BY <2>1 DEF Queues
        <5>2. (cpu[c].q + 1) * PerQBudget = cpu[c].q * PerQBudget + PerQBudget
              /\ (cpu[c].q + 1) * PerQBudget <= Budget /\ cpu[c].q * PerQBudget \in Nat
          BY <5>1, Shares
        <5> QED
          BY <2>1, <2>2, <4>1, <5>2, Shares DEF CleanRec
      <4>5. cpu'[c] \in CleanRec
        BY <2>1, <4>2, <4>3, <4>4 DEF CleanRec
      <4>6. /\ cpu'[c].received = cpu[c].received + 1 /\ cpu'[c].got = cpu[c].got + 1
            /\ cpu'[c].q = cpu[c].q /\ cpu'[c].napi = cpu[c].napi /\ cpu'[c].pc = "clean"
        BY <2>1, <4>2 DEF CleanRec
      <4>7. cpu[c].q * PerQBudget \in Nat /\ cpu[c].received \in Nat /\ cpu[c].got \in Nat
        BY <2>1, Shares DEF CleanRec
      <4> HIDE DEF CleanRec
      <4>8. cpu'[c].received <= cpu'[c].q * PerQBudget + cpu'[c].got
        BY <2>2, <4>6, <4>7
      <4> QED
        BY <1>1, <4>1, <4>2, <4>5, <4>6, <4>8
    <3>2. CASE CleanNext(c)
      <4>1. /\ cpu' = [cpu EXCEPT ![c].q = @ + 1, ![c].got = 0]
            /\ cpu'[c] = [cpu[c] EXCEPT !.q = @ + 1, !.got = 0]
        BY <1>1, <3>2 DEF CleanNext
      <4>2. cpu[c].q + 1 \in 0 .. QUEUE_CNT /\ cpu[c].q \in 0 .. QUEUE_CNT
        BY <2>1 DEF Queues
      <4>0. PerQBudget \in Nat /\ 0 \in 0 .. PerQBudget
        BY Shares
      <4>3. cpu'[c] \in CleanRec
        <5> DEFINE k == cpu[c]
        <5>1. k \in CleanRec /\ k.q + 1 \in 0 .. QUEUE_CNT
          BY <2>1, <4>2
        <5>2. cpu'[c] = [k EXCEPT !.q = k.q + 1, !.got = 0]
          BY <4>1
        <5> HIDE DEF k
        <5> QED
          BY <4>0, <5>1, <5>2 DEF CleanRec
      <4>4. /\ cpu'[c].received = cpu[c].received /\ cpu'[c].got = 0
            /\ cpu'[c].q = cpu[c].q + 1 /\ cpu'[c].napi = cpu[c].napi /\ cpu'[c].pc = "clean"
        BY <2>1, <4>1 DEF CleanRec
      <4>5. (cpu[c].q + 1) * PerQBudget = cpu[c].q * PerQBudget + PerQBudget
            /\ cpu[c].q * PerQBudget \in Nat /\ (cpu[c].q + 1) * PerQBudget \in Nat
        <5> DEFINE x == cpu[c].q
        <5>1. x \in 0 .. QUEUE_CNT /\ x + 1 \in 0 .. QUEUE_CNT /\ x \in Nat
          BY <4>2
        <5> HIDE DEF x
        <5>2. (x + 1) * PerQBudget = x * PerQBudget + PerQBudget
              /\ x * PerQBudget \in Nat /\ (x + 1) * PerQBudget \in Nat
          BY <5>1, Shares
        <5> QED
          BY <5>2 DEF x
      <4>6. cpu[c].received \in Nat /\ cpu[c].got \in 0 .. PerQBudget /\ PerQBudget \in Nat
        BY <2>1, <4>0, NapiAssumption DEF CleanRec
      <4>7. cpu'[c].received <= cpu'[c].q * PerQBudget + cpu'[c].got
        BY <2>2, <4>4, <4>5, <4>6
      <4> QED
        BY <1>1, <4>1, <4>3, <4>4, <4>7
    <3> QED
      BY <1>3, <3>1, <3>2
  <2>5. TypeOK'
    <3>1. cpu'[c] \in CpuType
      BY <2>4 DEF CleanRec, CpuType
    <3>2. cpu' \in [Cpus -> CpuType]
      BY <1>1, <2>4, <3>1
    <3> QED
      BY <1>1, <2>3, <3>2 DEF TypeOK
  <2>6. NapiHeldOnce'
    BY <2>1, <2>3, <2>4 DEF NapiInv, NapiHeldOnce
  <2>7. WithinShares' /\ OnePollEach'
    BY <2>1, <2>4 DEF NapiInv, WithinShares, OnePollEach
  <2> QED
    BY <2>5, <2>6, <2>7 DEF NapiInv
<1>4. CASE PollEnd(c)
  <2> DEFINE n == cpu[c].napi
  <2>1. cpu[c].pc = "clean" /\ n \in Queues
    BY <1>1, <1>4, CpuCases DEF PollEnd, CleanRec
  <2>2. PICK r \in {"idle", "sched"}, k \in {Idle, [pc |-> "enable", w |-> FirstWrite]} :
           napi' = [napi EXCEPT ![n] = r] /\ cpu' = [cpu EXCEPT ![c] = k]
    BY <1>4 DEF PollEnd
  <2>3. UNCHANGED <<pkts, arrived, sr, ier, isr>>
    BY <1>4 DEF PollEnd
  <2>4. k \in CpuType /\ k.pc # "clean" /\ (k.pc = "enable" => k.w[1] < QUEUE_CNT)
    BY FirstWriteType DEF CpuType, Idle
  <2>5. cpu'[c] = k /\ \A d \in Cpus : d # c => cpu'[d] = cpu[d]
    BY <1>1, <2>2
  <2>6. TypeOK'
    BY <1>1, <2>2, <2>3, <2>4 DEF TypeOK
  <2>7. \A m \in Queues : /\ napi'[m] = "run" <=> m # n /\ napi[m] = "run"
                          /\ napi'[m] = "prep" <=> napi[m] = "prep"
    <3>1. napi[n] = "run"
      BY <2>1 DEF NapiInv, NapiHeldOnce
    <3> QED
      BY <1>1, <2>1, <2>2, <3>1
  <2>8. NapiHeldOnce'
    BY <2>1, <2>3, <2>4, <2>5, <2>7 DEF NapiInv, NapiHeldOnce, OnePollEach
  <2>9. WithinShares' /\ OnePollEach'
    BY <2>4, <2>5 DEF NapiInv, WithinShares, OnePollEach
  <2> QED
    BY <2>6, <2>8, <2>9 DEF NapiInv
<1>5. CASE Enable(c)
  <2> DEFINE w == cpu[c].w
  <2>1. cpu[c].pc = "enable" /\ cpu[c] \in EnableRec
    BY <1>1, <1>5, CpuCases DEF Enable
  <2>2. w \in WriteType /\ w[1] < QUEUE_CNT
    BY <2>1 DEF EnableRec, NapiInv, WithinShares
  <2>3. /\ w[1] \in Queues /\ w[2] \in Irqs /\ ReadIer(w) \in WriteType /\ NextWrite(w) \in WriteType
        /\ ReadIer(w)[1] = w[1] /\ NextWrite(w)[1] \in {w[1], w[1] + 1}
        /\ w[3] # NotRead => w[3] \in SUBSET Irqs
    BY <1>1, <2>2, Writes
  <2>4. /\ ier' = IF w[3] = NotRead THEN ier ELSE [ier EXCEPT ![w[1]] = w[3] \cup {w[2]}]
        /\ UNCHANGED <<pkts, arrived, sr, napi, isr>>
    BY <1>5 DEF Enable
  <2>5. \E v \in WriteType : /\ v[1] < QUEUE_CNT
                             /\ \/ cpu' = [cpu EXCEPT ![c] = Idle]
                                \/ cpu' = [cpu EXCEPT ![c] = [@ EXCEPT !.w = v]]
    <3>1. CASE w[3] = NotRead
      BY <3>1, <1>5, <2>2, <2>3 DEF Enable
    <3>2. CASE w[3] # NotRead /\ WritesDone(NextWrite(w))
      BY <3>2, <1>5, <2>2 DEF Enable
    <3>3. CASE w[3] # NotRead /\ ~WritesDone(NextWrite(w))
      <4>1. NextWrite(w)[1] < QUEUE_CNT
        BY <3>3, <2>3 DEF WritesDone, WriteType
      <4> QED
        BY <3>3, <4>1, <1>5, <2>3 DEF Enable
    <3> QED
      BY <3>1, <3>2, <3>3
  <2>6. PICK k \in CpuType : /\ cpu' = [cpu EXCEPT ![c] = k] /\ k.pc # "clean"
                             /\ k.pc = "enable" => k.w[1] < QUEUE_CNT
    <3>1. PICK v \in WriteType : /\ v[1] < QUEUE_CNT
                                 /\ \/ cpu' = [cpu EXCEPT ![c] = Idle]
                                    \/ cpu' = [cpu EXCEPT ![c] = [@ EXCEPT !.w = v]]
      BY <2>5
    <3>2. [cpu[c] EXCEPT !.w = v] \in EnableRec /\ [cpu[c] EXCEPT !.w = v].w = v
      BY <2>1 DEF EnableRec
    <3>3. [cpu[c] EXCEPT !.w = v] \in CpuType /\ [cpu[c] EXCEPT !.w = v].pc = "enable"
      BY <3>2 DEF EnableRec, CpuType
    <3>4. Idle \in CpuType /\ Idle.pc = "idle"
      BY DEF CpuType, Idle
    <3> QED
      BY <3>1, <3>2, <3>3, <3>4, <1>1
  <2>7. cpu'[c] = k /\ \A d \in Cpus : d # c => cpu'[d] = cpu[d]
    BY <1>1, <2>6
  <2>8. ier' \in [Queues -> SUBSET Irqs]
    BY <1>1, <2>3, <2>4 DEF TypeOK
  <2>9. TypeOK'
    BY <1>1, <2>4, <2>6, <2>8 DEF TypeOK
  <2>10. NapiHeldOnce' /\ WithinShares' /\ OnePollEach'
    BY <2>1, <2>4, <2>6, <2>7 DEF NapiInv, NapiHeldOnce, WithinShares, OnePollEach
  <2> QED
    BY <2>9, <2>10 DEF NapiInv
<1> QED
  BY <1>2, <1>3, <1>4, <1>5 DEF Poll

-----------------------------------------------------------------------------
LEMMA ChannelStep == ASSUME NapiInv, Channels PROVE NapiInv'
<1> USE NapiAssumption
<1>1. PICK q \in Queues : Arrive(q) \/ RaiseOther(q)
  BY DEF Channels
<1>2. UNCHANGED <<ier, napi, isr, cpu>>
  BY <1>1 DEF Arrive, RaiseOther
<1>3. pkts' \in [Queues -> 0 .. RingSize] /\ arrived' \in 0 .. MaxArrivals
      /\ sr' \in [Queues -> SUBSET (Irqs \cup {"OTHER"})]
  BY <1>1 DEF Arrive, RaiseOther, Report, NapiInv, TypeOK, Irqs
<1> QED
  BY <1>2, <1>3 DEF NapiInv, TypeOK, NapiHeldOnce, WithinShares, OnePollEach

LEMMA NapiStep == ASSUME NapiInv, [Next]_vars PROVE NapiInv'
<1>1. CASE UNCHANGED vars
  BY <1>1 DEF vars, NapiInv, TypeOK, NapiHeldOnce, WithinShares, OnePollEach
<1>2. CASE Next
  BY <1>2, IsrStep, PollStep, ChannelStep DEF Next
<1> QED
  BY <1>1, <1>2

\* The strengthened invariant holds throughout.
THEOREM NapiInvariant == Spec => []NapiInv
<1>1. Init => NapiInv
  BY NapiInit
<1>2. NapiInv /\ [Next]_vars => NapiInv'
  BY NapiStep
<1> QED
  BY <1>1, <1>2, PTL DEF Spec

\* For any number of channels and CPUs: a poll never passes its budget, and a
\* napi structure is polled by the one call that took it from the list.
THEOREM NapiKeptAlways == Spec => []NapiKept
<1>1. NapiInv => NapiKept
  BY DEF NapiInv, NapiKept
<1> QED
  BY <1>1, NapiInvariant, PTL

-----------------------------------------------------------------------------
(* One CPU: receive interrupts come back.  With two, see                   *)
(* MCNapi_two_pollers.cfg.                                                 *)

OneCpu == \E c : Cpus = {c}

\* Nobody has been told to poll.
AllIdle == \A n \in Queues : napi[n] = "idle"

\* The interrupts a poll has enabled so far, the one it is about to enable
\* included.
EnabledSoFar(c) ==
    LET w == cpu[c].w IN
    /\ \A q \in Queues : q < w[1] => ier[q] = Irqs
    /\ w[2] = "RI" => "RBU" \in ier[w[1]] /\ (w[3] # NotRead => "RBU" \in w[3])

\* Who masks interrupts has told somebody to poll, and who polled enables them
\* one after the other, unless somebody has been told to poll again.
ComesBack ==
    /\ isr.pc = "mask" => napi[isr.q] # "idle"
    /\ AllIdle => \A c \in Cpus :
          /\ cpu[c].pc = "idle" => \A q \in Queues : ier[q] = Irqs
          /\ cpu[c].pc = "enable" => EnabledSoFar(c)

LEMMA ComesBackIsr == ASSUME NapiInv, ComesBack, Isr PROVE ComesBack'
<1>1. TypeOK
  BY DEF NapiInv
<1>2. CASE IsrStart \/ IsrClear \/ IsrNothing
  <2>1. UNCHANGED <<ier, napi, cpu>> /\ isr'.pc # "mask"
    BY <1>2 DEF IsrStart, IsrClear, IsrNothing, NextChannel, Idle
  <2> QED
    BY <2>1 DEF ComesBack, AllIdle, EnabledSoFar
<1>3. CASE IsrReceive
  <2>1. isr.q \in Queues /\ isr'.pc = "mask" /\ isr'.q = isr.q
    BY <1>1, <1>3, IsrCases DEF IsrReceive, TestRec
  <2>2. napi'[isr.q] # "idle"
    BY <1>1, <1>3, <2>1 DEF IsrReceive, TypeOK
  <2> QED
    BY <2>1, <2>2 DEF ComesBack, AllIdle
<1>4. CASE IsrMask
  <2>1. isr.pc = "mask" /\ isr \in MaskRec
    BY <1>1, <1>4, IsrCases DEF IsrMask
  <2>2. napi' = napi /\ isr'.q = isr.q /\ isr.q \in Queues
    BY <1>4, <2>1 DEF IsrMask, MaskRec
  <2> QED
    BY <2>1, <2>2 DEF ComesBack, AllIdle
<1>5. CASE IsrSchedule
  <2>1. isr.pc = "mask" /\ isr.q \in Queues
    BY <1>1, <1>5, IsrCases DEF IsrSchedule, MaskRec
  <2>2. isr'.pc # "mask"
    BY <1>5 DEF IsrSchedule, NextChannel, Idle
  <2>3. napi'[isr.q] # "idle"
    BY <1>1, <1>5, <2>1 DEF IsrSchedule, ComesBack, TypeOK
  <2> QED
    BY <2>1, <2>2, <2>3 DEF ComesBack, AllIdle
<1> QED
  BY <1>2, <1>3, <1>4, <1>5 DEF Isr

LEMMA ComesBackPoll ==
    ASSUME OneCpu, NapiInv, NapiInv', ComesBack, NEW c \in Cpus, Poll(c)
    PROVE  ComesBack'
<1> USE NapiAssumption
<1>1. TypeOK /\ cpu \in [Cpus -> CpuType] /\ TypeOK'
  BY DEF NapiInv, TypeOK
<1>2. Cpus = {c} /\ Cardinality(Cpus) = 1
  BY FS_Singleton DEF OneCpu
<1>3. isr = Idle /\ isr' = isr /\ isr.pc = "idle"
  BY <1>2 DEF Poll, PollStart, CleanOne, CleanNext, PollEnd, Enable, CpuRuns, Idle
<1>4. CASE PollStart(c) \/ CleanOne(c) \/ CleanNext(c)
  <2>1. cpu'[c].pc = "clean"
    <3>1. CASE PollStart(c)
      BY <1>1, <3>1 DEF PollStart
    <3>2. CASE CleanOne(c) \/ CleanNext(c)
      <4>1. cpu[c].pc = "clean" /\ cpu[c] \in CleanRec
        BY <1>1, <3>2, CpuCases DEF CleanOne, CleanNext
      <4> QED
        BY <1>1, <3>2, <4>1 DEF CleanOne, CleanNext, CleanRec
    <3> QED
      BY <1>4, <3>1, <3>2
  <2> QED
    BY <1>2, <1>3, <2>1 DEF ComesBack
<1>5. CASE PollEnd(c)
  <2> DEFINE n == cpu[c].napi
             done == cpu[c].received < Budget
  <2>1. cpu[c].pc = "clean" /\ n \in Queues
    BY <1>1, <1>5, CpuCases DEF PollEnd, CleanRec
  <2>2. /\ napi' = [napi EXCEPT ![n] = IF done THEN "idle" ELSE "sched"]
        /\ cpu' = [cpu EXCEPT ![c] = IF done THEN [pc |-> "enable", w |-> FirstWrite] ELSE Idle]
    BY <1>5 DEF PollEnd
  <2>3. CASE done
    <3>1. cpu'[c] = [pc |-> "enable", w |-> FirstWrite]
      BY <1>1, <2>2, <2>3
    <3>2. EnabledSoFar(c)'
      BY <3>1 DEF EnabledSoFar, FirstWrite, Queues
    <3> QED
      BY <1>2, <1>3, <3>1, <3>2 DEF ComesBack
  <2>4. CASE ~done
    <3>1. napi'[n] = "sched"
      BY <1>1, <2>1, <2>2, <2>4 DEF TypeOK
    <3> QED
      BY <1>3, <2>1, <3>1 DEF ComesBack, AllIdle
  <2> QED
    BY <2>3, <2>4
<1>6. CASE Enable(c)
  <2> DEFINE w == cpu[c].w
             v == NextWrite(w)
  <2>1. cpu[c].pc = "enable" /\ cpu[c] \in EnableRec
    BY <1>1, <1>6, CpuCases DEF Enable
  <2>2. w \in WriteType /\ w[1] < QUEUE_CNT /\ w[1] \in Queues /\ w[2] \in Irqs
        /\ (w[3] # NotRead => w[3] \in SUBSET Irqs)
    <3>1. w \in WriteType /\ w[1] < QUEUE_CNT
      BY <2>1 DEF EnableRec, NapiInv, WithinShares
    <3> QED
      BY <1>1, <3>1, Writes
  <2>3. napi' = napi
    BY <1>6 DEF Enable
  <2> SUFFICES ASSUME AllIdle
               PROVE  /\ cpu'[c].pc = "idle" => \A q \in Queues : ier'[q] = Irqs
                      /\ cpu'[c].pc = "enable" => EnabledSoFar(c)'
    BY <1>2, <1>3, <2>3 DEF ComesBack, AllIdle
  <2>4. /\ \A q \in Queues : q < w[1] => ier[q] = Irqs
        /\ w[2] = "RI" => "RBU" \in ier[w[1]] /\ (w[3] # NotRead => "RBU" \in w[3])
    BY <2>1 DEF ComesBack, EnabledSoFar
  <2>5. CASE w[3] = NotRead
    <3>1. cpu' = [cpu EXCEPT ![c].w = ReadIer(w)] /\ ier' = ier
      BY <1>6, <2>5 DEF Enable
    <3>2. cpu'[c] = [cpu[c] EXCEPT !.w = ReadIer(w)]
      BY <1>1, <3>1
    <3>3. cpu'[c].w = <<w[1], w[2], ier[w[1]]>> /\ cpu'[c].pc = "enable"
      BY <2>1, <3>2 DEF ReadIer, EnableRec
    <3> QED
      BY <2>4, <3>1, <3>3 DEF EnabledSoFar
  <2>6. CASE w[3] # NotRead
    <3>1. /\ ier' = [ier EXCEPT ![w[1]] = w[3] \cup {w[2]}]
          /\ cpu' = [cpu EXCEPT ![c] = IF WritesDone(v) THEN Idle ELSE [cpu[c] EXCEPT !.w = v]]
      BY <1>6, <2>6 DEF Enable
    <3>2. ier'[w[1]] = w[3] \cup {w[2]} /\ \A q \in Queues : q # w[1] => ier'[q] = ier[q]
      BY <1>1, <2>2, <3>1 DEF TypeOK
    <3>3. CASE w[2] = "RBU"
      <4>1. v = <<w[1], "RI", NotRead>> /\ ~WritesDone(v)
        BY <2>2, <3>3 DEF NextWrite, WritesDone
      <4>2. cpu'[c] = [cpu[c] EXCEPT !.w = v]
        BY <1>1, <3>1, <4>1
      <4>3. cpu'[c].w = v /\ cpu'[c].pc = "enable"
        BY <2>1, <4>2 DEF EnableRec
      <4> QED
        BY <2>2, <2>4, <3>2, <3>3, <4>1, <4>3 DEF EnabledSoFar, Queues
    <3>4. CASE w[2] = "RI"
      <4>1. v = <<w[1] + 1, "RBU", NotRead>>
        BY <3>4 DEF NextWrite
      <4>2. ier'[w[1]] = Irqs
        <5>1. "RBU" \in w[3] /\ w[3] \in SUBSET Irqs
          BY <2>2, <2>4, <2>6, <3>4
        <5> QED
          BY <5>1, <3>2, <3>4 DEF Irqs
      <4>3. \A q \in Queues : q < w[1] + 1 => ier'[q] = Irqs
        BY <2>2, <2>4, <3>2, <4>2 DEF Queues
      <4>4. CASE WritesDone(v)
        <5>1. cpu'[c] = Idle /\ w[1] + 1 = QUEUE_CNT
          BY <1>1, <3>1, <4>1, <4>4 DEF WritesDone
        <5> QED
          BY <4>3, <5>1 DEF Idle, Queues
      <4>5. CASE ~WritesDone(v)
        <5>1. cpu'[c] = [cpu[c] EXCEPT !.w = v]
          BY <1>1, <3>1, <4>5
        <5>2. cpu'[c].w = v /\ cpu'[c].pc = "enable"
          BY <2>1, <5>1 DEF EnableRec
        <5> QED
          BY <4>1, <4>3, <5>2 DEF EnabledSoFar
      <4> QED
        BY <4>4, <4>5
    <3> QED
      BY <2>2, <3>3, <3>4 DEF Irqs
  <2> QED
    BY <2>5, <2>6
<1> QED
  BY <1>4, <1>5, <1>6 DEF Poll

LEMMA ComesBackStep ==
    ASSUME OneCpu, NapiInv, NapiInv', ComesBack, [Next]_vars
    PROVE  ComesBack'
<1>1. CASE UNCHANGED vars
  BY <1>1 DEF vars, ComesBack, AllIdle, EnabledSoFar
<1>2. CASE Channels
  <2>1. UNCHANGED <<ier, napi, isr, cpu>>
    BY <1>2 DEF Channels, Arrive, RaiseOther
  <2> QED
    BY <2>1 DEF ComesBack, AllIdle, EnabledSoFar
<1> QED
  BY <1>1, <1>2, ComesBackIsr, ComesBackPoll DEF Next

\* drv.c:3520: on one CPU the receive interrupts of every channel are enabled
\* whenever nobody works on reception, for any number of channels and any
\* interleaving of the service routine with enable_all_ch_rx_interrpt.
THEOREM NapiRxNotDead == ASSUME OneCpu PROVE Spec => []RxNotDead
<1>1. Init => ComesBack
  <2>1. Init => isr.pc = "idle" /\ \A c \in Cpus : cpu[c].pc = "idle"
    BY DEF Init, Idle
  <2> QED
    BY <2>1 DEF Init, ComesBack
<1>2. NapiInv /\ NapiInv' /\ ComesBack /\ [Next]_vars => ComesBack'
  BY OneCpu, ComesBackStep
<1>3. ComesBack => RxNotDead
  BY OneCpu DEF ComesBack, RxNotDead, Quiet, AllIdle, OneCpu, Idle
<1> QED
  BY <1>1, <1>2, <1>3, NapiInvariant, PTL DEF Spec

-----------------------------------------------------------------------------
(* One channel without other interrupts, whose ring never fills: reception  *)
(* goes from the service routine to one poll and back, on any CPUs.         *)

Alone == QUEUE_CNT = 1 /\ ~OtherIrq

\* A packet that arrives finds room.
Fits == arrived' # arrived => pkts[0] < RingSize

Reported == "RI" \in sr[0]

NoPoll == \A c \in Cpus : cpu[c] = Idle

OnlyPoll(c) == \A d \in Cpus : d # c => cpu[d] = Idle

\* The service routine has not been called, or is about to schedule a poll.
Watching ==
    /\ napi[0] = "idle" /\ ier[0] = Irqs /\ NoPoll
    /\ isr.pc \in {"idle", "clear", "test"}
    /\ isr.pc = "clear" => Reported /\ isr.q = 0 /\ ~isr.sched
    /\ isr.pc = "test" => "RI" \in isr.seen /\ isr.q = 0 /\ ~isr.sched
    /\ pkts[0] > 0 => Reported \/ isr.pc = "test"

\* It masks RBU, then RI.
Masking ==
    /\ napi[0] = "prep" /\ NoPoll
    /\ isr.pc = "mask" /\ isr.prep /\ isr.q = 0
    /\ \/ ier[0] = Irqs /\ isr.w \in {<<0, "RBU", NotRead>>, <<0, "RBU", Irqs>>}
       \/ ier[0] = {"RI"} /\ isr.w \in {<<0, "RI", NotRead>>, <<0, "RI", {"RI"}>>}
       \/ ier[0] = {} /\ isr.w = <<1, "RBU", NotRead>>

Told == napi[0] = "sched" /\ ier[0] = {} /\ NoPoll /\ isr = Idle

\* A poll that has passed the ring leaves nothing that is not reported, or has
\* used up the budget.
Polling ==
    /\ napi[0] = "run" /\ ier[0] = {} /\ isr = Idle
    /\ \E c \in Cpus :
        /\ cpu[c].pc = "clean" /\ OnlyPoll(c)
        /\ cpu[c].q = 0 => cpu[c].received = cpu[c].got
        /\ cpu[c].q = 1 => pkts[0] = 0 \/ Reported \/ cpu[c].received >= Budget

\* It enables RBU, then RI.
Enabling ==
    /\ napi[0] = "idle" /\ isr = Idle
    /\ pkts[0] > 0 => Reported
    /\ \E c \in Cpus :
        /\ cpu[c].pc = "enable" /\ OnlyPoll(c)
        /\ \/ ier[0] = {} /\ cpu[c].w \in {<<0, "RBU", NotRead>>, <<0, "RBU", {}>>}
           \/ ier[0] = {"RBU"} /\ cpu[c].w \in {<<0, "RI", NotRead>>, <<0, "RI", {"RBU"}>>}

HandedRound ==
    /\ pkts[0] <= arrived /\ sr[0] \subseteq {"RI"}
    /\ Watching \/ Masking \/ Told \/ Polling \/ Enabling

LEMMA AloneFacts ==
    ASSUME Alone, NapiInv
    PROVE  /\ QUEUE_CNT = 1 /\ Queues = {0} /\ PerQBudget = Budget /\ Budget \in Nat \ {0}
           /\ pkts \in [Queues -> Nat] /\ arrived \in Nat
           /\ sr \in [Queues -> SUBSET (Irqs \cup {"OTHER"})] /\ ier \in [Queues -> SUBSET Irqs]
           /\ napi \in [Queues -> {"idle", "prep", "sched", "run"}]
           /\ cpu \in [Cpus -> CpuType] /\ Idle.pc = "idle" /\ 0 \in Queues
           /\ isr.pc = "idle" => isr = Idle
<1>1. QUEUE_CNT = 1 /\ Queues = {0} /\ PerQBudget = Budget /\ Budget \in Nat \ {0}
  BY NapiAssumption DEF Alone, Queues, PerQBudget
<1>2. TypeOK
  BY DEF NapiInv
<1>3. pkts \in [Queues -> Nat] /\ arrived \in Nat
  BY <1>2, NapiAssumption DEF TypeOK
<1>4. isr.pc = "idle" => isr = Idle
  BY <1>2, IsrCases DEF ClearRec, TestRec, MaskRec
<1> QED
  BY <1>1, <1>2, <1>3, <1>4 DEF TypeOK, Idle

LEMMA HandedInit == ASSUME Alone, Init PROVE HandedRound
<1>1. NapiInv
  BY NapiInit
<1>2. Queues = {0} /\ Idle.pc = "idle"
  BY <1>1, AloneFacts
<1>3. /\ pkts[0] = 0 /\ arrived = 0 /\ sr[0] = {} /\ ier[0] = Irqs /\ napi[0] = "idle"
      /\ isr = Idle /\ NoPoll
  BY <1>2 DEF Init, NoPoll
<1>4. Watching
  BY <1>2, <1>3 DEF Watching
<1> QED
  BY <1>3, <1>4 DEF HandedRound

\* A packet arrives, and says so.
LEMMA HandedArrive ==
    ASSUME Alone, NapiInv, HandedRound, Channels, Fits
    PROVE  HandedRound'
<1>1. /\ Queues = {0} /\ 0 \in Queues /\ pkts \in [Queues -> Nat] /\ arrived \in Nat
      /\ sr \in [Queues -> SUBSET (Irqs \cup {"OTHER"})] /\ RingSize \in Nat /\ MaxArrivals \in Nat
  BY AloneFacts, NapiAssumption
<1>2. PICK q \in Queues : Arrive(q)
  BY DEF Channels, RaiseOther, Alone
<1>3. q = 0 /\ arrived < MaxArrivals /\ arrived' = arrived + 1 /\ UNCHANGED <<ier, napi, isr, cpu>>
  BY <1>1, <1>2 DEF Arrive
<1>4. pkts[0] < RingSize
  BY <1>1, <1>3 DEF Fits
<1>5. pkts' = [pkts EXCEPT ![0] = @ + 1] /\ sr' = [sr EXCEPT ![0] = @ \cup {"RI"}]
  BY <1>2, <1>3, <1>4 DEF Arrive, Report
<1>6. pkts'[0] = pkts[0] + 1 /\ sr'[0] = sr[0] \cup {"RI"}
  BY <1>1, <1>5
<1>7. pkts'[0] <= arrived' /\ sr'[0] \subseteq {"RI"} /\ Reported'
  BY <1>1, <1>3, <1>6 DEF HandedRound, Reported
<1>8. CASE Watching
  <2>1. Watching'
    BY <1>3, <1>7, <1>8 DEF Watching, NoPoll
  <2> QED
    BY <1>7, <2>1 DEF HandedRound
<1>9. CASE Masking
  <2>1. Masking'
    BY <1>3, <1>9 DEF Masking, NoPoll
  <2> QED
    BY <1>7, <2>1 DEF HandedRound
<1>10. CASE Told
  <2>1. Told'
    BY <1>3, <1>10 DEF Told, NoPoll
  <2> QED
    BY <1>7, <2>1 DEF HandedRound
<1>11. CASE Polling
  <2>1. Polling'
    BY <1>3, <1>7, <1>11 DEF Polling, OnlyPoll
  <2> QED
    BY <1>7, <2>1 DEF HandedRound
<1>12. CASE Enabling
  <2>1. Enabling'
    BY <1>3, <1>7, <1>12 DEF Enabling, OnlyPoll
  <2> QED
    BY <1>7, <2>1 DEF HandedRound
<1> QED
  BY <1>8, <1>9, <1>10, <1>11, <1>12 DEF HandedRound

\* The service routine finds the report and schedules the poll.
LEMMA HandedIsr ==
    ASSUME Alone, NapiInv, HandedRound, Isr
    PROVE  HandedRound'
<1>0. /\ QUEUE_CNT = 1 /\ Queues = {0} /\ 0 \in Queues
      /\ sr \in [Queues -> SUBSET (Irqs \cup {"OTHER"})] /\ ier \in [Queues -> SUBSET Irqs]
      /\ napi \in [Queues -> {"idle", "prep", "sched", "run"}] /\ Idle.pc = "idle"
  BY AloneFacts
<1>1. CASE IsrStart
  <2>1. /\ isr = Idle /\ isr' = [pc |-> "clear", q |-> 0, sched |-> FALSE]
        /\ UNCHANGED <<pkts, arrived, sr, ier, napi, cpu>>
        /\ sr[0] \cap (ier[0] \cup {"OTHER"}) # {}
    BY <1>0, <1>1 DEF IsrStart, Enabled
  <2>2. Reported /\ "RI" \in ier[0]
    BY <2>1 DEF HandedRound, Reported
  <2>3. Watching
    BY <1>0, <2>1, <2>2 DEF HandedRound, Masking, Told, Polling, Enabling
  <2>4. Watching'
    BY <2>1, <2>2, <2>3 DEF Watching, Reported, NoPoll
  <2> QED
    BY <2>1, <2>4 DEF HandedRound
<1>2. CASE IsrClear
  <2>1. isr.pc = "clear" /\ UNCHANGED <<pkts, arrived, ier, napi, cpu>>
    BY <1>2 DEF IsrClear
  <2>2. Watching
    BY <1>0, <2>1 DEF HandedRound, Masking, Told, Polling, Enabling
  <2>3. isr.q = 0 /\ ~isr.sched /\ Reported
    BY <2>1, <2>2 DEF Watching
  <2>4. /\ isr' = [pc |-> "test", q |-> isr.q, sched |-> isr.sched, seen |-> sr[0]]
        /\ sr' = [sr EXCEPT ![0] = {}]
    BY <1>2, <2>3 DEF IsrClear
  <2>5. /\ isr'.pc = "test" /\ isr'.q = 0 /\ ~isr'.sched /\ "RI" \in isr'.seen /\ sr'[0] = {}
    BY <1>0, <2>3, <2>4 DEF Reported
  <2>6. Watching'
    BY <2>1, <2>2, <2>5 DEF Watching, NoPoll
  <2> QED
    BY <2>1, <2>5, <2>6 DEF HandedRound
<1>3. ASSUME isr.pc = "test", Watching PROVE RxIrq
  BY <1>3 DEF RxIrq, Watching, Irqs
<1>4. CASE IsrNothing
  <2>1. isr.pc = "test" /\ ~RxIrq
    BY <1>4 DEF IsrNothing
  <2>2. Watching
    BY <1>0, <2>1 DEF HandedRound, Masking, Told, Polling, Enabling
  <2> QED
    BY <1>3, <2>1, <2>2
<1>5. CASE IsrReceive
  <2>1. isr.pc = "test" /\ UNCHANGED <<pkts, arrived, sr, ier, cpu>>
    BY <1>5 DEF IsrReceive
  <2>2. Watching
    BY <1>0, <2>1 DEF HandedRound, Masking, Told, Polling, Enabling
  <2>3. isr.q = 0 /\ napi[0] = "idle"
    BY <2>1, <2>2 DEF Watching
  <2>4. /\ isr' = [pc |-> "mask", q |-> 0, prep |-> TRUE, w |-> FirstWrite]
        /\ napi' = [napi EXCEPT ![0] = "prep"]
    BY <1>5, <2>3 DEF IsrReceive
  <2>5. napi'[0] = "prep"
    BY <1>0, <2>4
  <2>6. Masking'
    BY <2>1, <2>2, <2>4, <2>5 DEF Masking, Watching, NoPoll, FirstWrite
  <2> QED
    BY <2>1, <2>6 DEF HandedRound
<1>6. CASE IsrMask
  <2> DEFINE w == isr.w
  <2>1. isr.pc = "mask" /\ UNCHANGED <<pkts, arrived, sr, napi, cpu>> /\ ~WritesDone(w)
    BY <1>6 DEF IsrMask
  <2>2. Masking
    BY <1>0, <2>1 DEF HandedRound, Watching, Told, Polling, Enabling
  <2>3. isr \in MaskRec
    BY <2>1, IsrCases DEF NapiInv
  <2>4. \E v : isr' = [isr EXCEPT !.w = v] /\ v = (IF w[3] = NotRead THEN ReadIer(w) ELSE NextWrite(w))
    BY <1>6 DEF IsrMask
  <2>5. /\ isr'.pc = "mask" /\ isr'.prep = isr.prep /\ isr'.q = isr.q
        /\ isr'.w = IF w[3] = NotRead THEN ReadIer(w) ELSE NextWrite(w)
    BY <2>3, <2>4 DEF MaskRec
  <2>6. Irqs # NotRead /\ {"RI"} # NotRead /\ Irqs = {"RI", "RBU"}
    BY DEF Irqs, NotRead
  <2>7. /\ w[3] = NotRead => ier' = ier
        /\ w[3] # NotRead => ier' = [ier EXCEPT ![w[1]] = w[3] \ {w[2]}]
    BY <1>6 DEF IsrMask
  <2>8. CASE w = <<0, "RBU", NotRead>> /\ ier[0] = Irqs
    <3>1. ier' = ier /\ isr'.w = <<0, "RBU", Irqs>>
      BY <2>5, <2>7, <2>8 DEF ReadIer
    <3>2. Masking'
      BY <2>1, <2>2, <2>5, <2>8, <3>1 DEF Masking, NoPoll
    <3> QED
      BY <2>1, <3>2 DEF HandedRound
  <2>9. CASE w = <<0, "RBU", Irqs>> /\ ier[0] = Irqs
    <3>1. ier'[0] = {"RI"} /\ isr'.w = <<0, "RI", NotRead>>
      BY <1>0, <2>5, <2>6, <2>7, <2>9 DEF NextWrite
    <3>2. Masking'
      BY <2>1, <2>2, <2>5, <3>1 DEF Masking, NoPoll
    <3> QED
      BY <2>1, <3>2 DEF HandedRound
  <2>10. CASE w = <<0, "RI", NotRead>> /\ ier[0] = {"RI"}
    <3>1. ier' = ier /\ isr'.w = <<0, "RI", {"RI"}>>
      BY <2>5, <2>7, <2>10 DEF ReadIer
    <3>2. Masking'
      BY <2>1, <2>2, <2>5, <2>10, <3>1 DEF Masking, NoPoll
    <3> QED
      BY <2>1, <3>2 DEF HandedRound
  <2>11. CASE w = <<0, "RI", {"RI"}>> /\ ier[0] = {"RI"}
    <3>1. ier'[0] = {} /\ isr'.w = <<1, "RBU", NotRead>>
      BY <1>0, <2>5, <2>6, <2>7, <2>11 DEF NextWrite
    <3>2. Masking'
      BY <2>1, <2>2, <2>5, <3>1 DEF Masking, NoPoll
    <3> QED
      BY <2>1, <3>2 DEF HandedRound
  <2>12. CASE w = <<1, "RBU", NotRead>>
    BY <1>0, <2>1, <2>12 DEF WritesDone
  <2> QED
    BY <2>2, <2>8, <2>9, <2>10, <2>11, <2>12 DEF Masking
<1>7. CASE IsrSchedule
  <2>1. isr.pc = "mask" /\ UNCHANGED <<pkts, arrived, sr, ier, cpu>> /\ WritesDone(isr.w)
    BY <1>7 DEF IsrSchedule
  <2>2. Masking
    BY <1>0, <2>1 DEF HandedRound, Watching, Told, Polling, Enabling
  <2>3. ier[0] = {}
    BY <1>0, <2>1, <2>2 DEF Masking, WritesDone
  <2>4. napi' = [napi EXCEPT ![0] = "sched"] /\ isr' = Idle
    BY <1>0, <1>7, <2>2 DEF IsrSchedule, Masking, NextChannel
  <2>5. Told'
    BY <1>0, <2>1, <2>2, <2>3, <2>4 DEF Told, Masking, NoPoll
  <2> QED
    BY <2>1, <2>5 DEF HandedRound
<1> QED
  BY <1>1, <1>2, <1>4, <1>5, <1>6, <1>7 DEF Isr

\* The poll takes what is there and enables the interrupts again.
LEMMA HandedPoll ==
    ASSUME Alone, NapiInv, HandedRound, NEW c \in Cpus, Poll(c)
    PROVE  HandedRound'
<1>0. /\ QUEUE_CNT = 1 /\ Queues = {0} /\ 0 \in Queues /\ PerQBudget = Budget
      /\ Budget \in Nat \ {0} /\ pkts \in [Queues -> Nat] /\ arrived \in Nat
      /\ ier \in [Queues -> SUBSET Irqs] /\ cpu \in [Cpus -> CpuType]
      /\ napi \in [Queues -> {"idle", "prep", "sched", "run"}] /\ Idle.pc = "idle"
  BY AloneFacts
<1>1. UNCHANGED <<arrived, sr, isr>>
  BY DEF Poll, PollStart, CleanOne, CleanNext, PollEnd, Enable
<1>2. ASSUME cpu[c].pc = "clean" PROVE Polling /\ OnlyPoll(c) /\ cpu[c] \in CleanRec
  <2>1. cpu[c] # Idle
    BY <1>0, <1>2
  <2>2. Polling
    BY <1>0, <1>2, <2>1 DEF HandedRound, Watching, Masking, Told, Enabling, NoPoll, OnlyPoll
  <2>3. OnlyPoll(c)
    BY <2>1, <2>2 DEF Polling, OnlyPoll
  <2> QED
    BY <1>2, <2>2, <2>3, CpuCases DEF NapiInv
<1>3. ASSUME cpu[c].pc = "clean"
      PROVE  /\ cpu[c].q = 0 => cpu[c].received = cpu[c].got
             /\ cpu[c].q = 1 => pkts[0] = 0 \/ Reported \/ cpu[c].received >= Budget
  <2>1. PICK d \in Cpus :
           /\ cpu[d].pc = "clean" /\ OnlyPoll(d)
           /\ cpu[d].q = 0 => cpu[d].received = cpu[d].got
           /\ cpu[d].q = 1 => pkts[0] = 0 \/ Reported \/ cpu[d].received >= Budget
    BY <1>2, <1>3 DEF Polling
  <2>2. c = d
    BY <1>0, <1>3, <2>1 DEF OnlyPoll
  <2> QED
    BY <2>1, <2>2
<1>4. CASE PollStart(c)
  <2>1. /\ napi[0] = "sched" /\ napi' = [napi EXCEPT ![0] = "run"]
        /\ cpu' = [cpu EXCEPT ![c] =
              [pc |-> "clean", napi |-> 0, q |-> 0, got |-> 0, received |-> 0]]
        /\ UNCHANGED <<pkts, ier>>
    BY <1>0, <1>4 DEF PollStart
  <2>2. Told
    BY <2>1 DEF HandedRound, Watching, Masking, Polling, Enabling
  <2>3. /\ cpu'[c].pc = "clean" /\ cpu'[c].q = 0 /\ cpu'[c].received = cpu'[c].got
        /\ \A d \in Cpus : d # c => cpu'[d] = Idle
    BY <1>0, <2>1, <2>2 DEF Told, NoPoll
  <2>4. Polling'
    BY <1>0, <1>1, <2>1, <2>2, <2>3 DEF Polling, Told, OnlyPoll
  <2> QED
    BY <1>1, <2>1, <2>4 DEF HandedRound
<1>5. CASE CleanOne(c)
  <2>1. cpu[c].pc = "clean" /\ cpu[c].q = 0 /\ pkts[0] > 0 /\ UNCHANGED <<ier, napi>>
        /\ pkts' = [pkts EXCEPT ![0] = @ - 1]
        /\ cpu' = [cpu EXCEPT ![c] = [cpu[c] EXCEPT !.got = @ + 1, !.received = @ + 1]]
    BY <1>0, <1>5 DEF CleanOne
  <2>2. cpu[c] \in CleanRec /\ Polling /\ OnlyPoll(c) /\ cpu[c].received = cpu[c].got
    BY <1>2, <1>3, <2>1
  <2>3. cpu'[c] = [cpu[c] EXCEPT !.got = @ + 1, !.received = @ + 1]
    BY <1>0, <2>1
  <2>4. cpu'[c].pc = "clean" /\ cpu'[c].q = 0 /\ cpu'[c].received = cpu'[c].got
    BY <2>1, <2>2, <2>3 DEF CleanRec
  <2>5. \A d \in Cpus : d # c => cpu'[d] = Idle
    BY <1>0, <2>1, <2>2 DEF OnlyPoll
  <2>6. pkts'[0] = pkts[0] - 1
    BY <1>0, <2>1
  <2>7. Polling'
    BY <1>1, <2>1, <2>2, <2>4, <2>5 DEF Polling, OnlyPoll
  <2> QED
    BY <1>0, <1>1, <2>6, <2>7 DEF HandedRound
<1>6. CASE CleanNext(c)
  <2> DEFINE k == cpu[c]
  <2>1. k.pc = "clean" /\ k.q \in Queues /\ UNCHANGED <<pkts, ier, napi>>
    BY <1>6 DEF CleanNext
  <2>2. k.q = 0
    BY <1>0, <2>1
  <2>3. k \in CleanRec /\ Polling /\ OnlyPoll(c)
    BY <1>2, <2>1
  <2>4. k.received = k.got
    BY <1>3, <2>1, <2>2
  <2>5. pkts[0] = 0 \/ k.got >= Budget
    BY <1>0, <1>6, <2>2 DEF CleanNext
  <2>6. cpu' = [cpu EXCEPT ![c] = [k EXCEPT !.q = @ + 1, !.got = 0]]
    BY <1>6 DEF CleanNext
  <2>7. cpu'[c] = [k EXCEPT !.q = @ + 1, !.got = 0]
    BY <1>0, <2>6
  <2>8. \A d \in Cpus : d # c => cpu'[d] = Idle
    BY <1>0, <2>3, <2>6 DEF OnlyPoll
  <2> HIDE DEF k
  <2>9. cpu'[c].pc = "clean" /\ cpu'[c].q = 1 /\ cpu'[c].received = k.received
    BY <2>1, <2>2, <2>3, <2>7 DEF CleanRec
  <2>10. pkts[0] = 0 \/ cpu'[c].received >= Budget
    BY <2>4, <2>5, <2>9
  <2>11. pkts'[0] = 0 \/ Reported' \/ cpu'[c].received >= Budget
    BY <2>1, <2>10
  <2>12. Polling'
    BY <1>1, <2>1, <2>3, <2>8, <2>9, <2>11 DEF Polling, OnlyPoll
  <2> QED
    BY <1>1, <2>1, <2>12 DEF HandedRound
<1>7. CASE PollEnd(c)
  <2> DEFINE done == cpu[c].received < Budget
  <2>1. cpu[c].pc = "clean" /\ cpu[c].q = 1 /\ UNCHANGED <<pkts, ier>>
        /\ napi' = [napi EXCEPT ![cpu[c].napi] = IF done THEN "idle" ELSE "sched"]
        /\ cpu' = [cpu EXCEPT ![c] = IF done THEN [pc |-> "enable", w |-> FirstWrite] ELSE Idle]
    BY <1>0, <1>7 DEF PollEnd
  <2>2. /\ cpu[c] \in CleanRec /\ Polling /\ OnlyPoll(c)
        /\ pkts[0] = 0 \/ Reported \/ cpu[c].received >= Budget
    BY <1>2, <1>3, <2>1
  <2>3. cpu[c].napi = 0 /\ cpu[c].received \in Nat
    BY <1>0, <2>2, NapiAssumption DEF CleanRec
  <2>4. CASE done
    <3>1. napi'[0] = "idle" /\ cpu'[c] = [pc |-> "enable", w |-> FirstWrite]
      BY <1>0, <2>1, <2>3, <2>4
    <3>2. \A d \in Cpus : d # c => cpu'[d] = Idle
      BY <1>0, <2>1, <2>2 DEF OnlyPoll
    <3>3. pkts[0] > 0 => Reported
      BY <1>0, <2>2, <2>3, <2>4
    <3>4. cpu'[c].pc = "enable" /\ cpu'[c].w = <<0, "RBU", NotRead>>
      BY <3>1 DEF FirstWrite
    <3>5. Enabling'
      BY <1>1, <2>1, <2>2, <3>1, <3>2, <3>3, <3>4 DEF Enabling, Polling, OnlyPoll, Reported
    <3> QED
      BY <1>1, <2>1, <3>5 DEF HandedRound
  <2>5. CASE ~done
    <3>1. napi'[0] = "sched" /\ cpu'[c] = Idle
      BY <1>0, <2>1, <2>3, <2>5
    <3>2. \A d \in Cpus : d # c => cpu'[d] = Idle
      BY <1>0, <2>1, <2>2 DEF OnlyPoll
    <3>3. Told'
      BY <1>1, <2>1, <2>2, <3>1, <3>2 DEF Told, Polling, NoPoll
    <3> QED
      BY <1>1, <2>1, <3>3 DEF HandedRound
  <2> QED
    BY <2>4, <2>5
<1>8. CASE Enable(c)
  <2> DEFINE w == cpu[c].w
             v == NextWrite(w)
  <2>1. cpu[c].pc = "enable" /\ UNCHANGED <<pkts, napi>>
    BY <1>8 DEF Enable
  <2>2. cpu[c] # Idle /\ cpu[c] \in EnableRec
    BY <1>0, <2>1, CpuCases DEF NapiInv
  <2>3. Enabling
    BY <1>0, <2>1, <2>2 DEF HandedRound, Watching, Masking, Told, Polling, NoPoll, OnlyPoll
  <2>4. /\ OnlyPoll(c)
        /\ \/ ier[0] = {} /\ w \in {<<0, "RBU", NotRead>>, <<0, "RBU", {}>>}
           \/ ier[0] = {"RBU"} /\ w \in {<<0, "RI", NotRead>>, <<0, "RI", {"RBU"}>>}
    BY <2>2, <2>3 DEF Enabling, OnlyPoll
  <2>5. /\ w[3] = NotRead => ier' = ier /\ cpu' = [cpu EXCEPT ![c] = [cpu[c] EXCEPT !.w = ReadIer(w)]]
        /\ w[3] # NotRead => /\ ier' = [ier EXCEPT ![w[1]] = w[3] \cup {w[2]}]
                             /\ cpu' = [cpu EXCEPT ![c] =
                                   IF WritesDone(v) THEN Idle ELSE [cpu[c] EXCEPT !.w = v]]
    BY <1>8 DEF Enable
  <2>6. \A d \in Cpus : d # c => cpu'[d] = Idle
    BY <1>0, <2>4, <2>5 DEF OnlyPoll
  <2>7. {} # NotRead /\ {"RBU"} # NotRead /\ Irqs = {"RI", "RBU"}
    BY DEF Irqs, NotRead
  <2>8. ASSUME NEW u, cpu'[c] = [cpu[c] EXCEPT !.w = u] PROVE cpu'[c].pc = "enable" /\ cpu'[c].w = u
    BY <2>1, <2>2, <2>8 DEF EnableRec
  <2>9. CASE w = <<0, "RBU", NotRead>> /\ ier[0] = {}
    <3>1. ier' = ier /\ cpu'[c] = [cpu[c] EXCEPT !.w = ReadIer(w)]
      BY <1>0, <2>5, <2>9
    <3>2. cpu'[c].pc = "enable" /\ cpu'[c].w = <<0, "RBU", {}>>
      BY <2>8, <2>9, <3>1 DEF ReadIer
    <3>3. Enabling'
      BY <1>1, <2>1, <2>3, <2>6, <2>9, <3>1, <3>2 DEF Enabling, OnlyPoll, Reported
    <3> QED
      BY <1>1, <2>1, <3>3 DEF HandedRound
  <2>10. CASE w = <<0, "RBU", {}>> /\ ier[0] = {}
    <3>1. v = <<0, "RI", NotRead>> /\ ~WritesDone(v)
      BY <1>0, <2>10 DEF NextWrite, WritesDone
    <3>2. cpu' = [cpu EXCEPT ![c] = [cpu[c] EXCEPT !.w = v]] /\ ier'[0] = {"RBU"}
      BY <1>0, <2>5, <2>7, <2>10, <3>1
    <3>3. cpu'[c] = [cpu[c] EXCEPT !.w = v]
      BY <1>0, <3>2
    <3>4. cpu'[c].pc = "enable" /\ cpu'[c].w = <<0, "RI", NotRead>>
      BY <2>8, <3>1, <3>3
    <3>5. Enabling'
      BY <1>1, <2>1, <2>3, <2>6, <3>2, <3>4 DEF Enabling, OnlyPoll, Reported
    <3> QED
      BY <1>1, <2>1, <3>5 DEF HandedRound
  <2>11. CASE w = <<0, "RI", NotRead>> /\ ier[0] = {"RBU"}
    <3>1. ier' = ier /\ cpu'[c] = [cpu[c] EXCEPT !.w = ReadIer(w)]
      BY <1>0, <2>5, <2>11
    <3>2. cpu'[c].pc = "enable" /\ cpu'[c].w = <<0, "RI", {"RBU"}>>
      BY <2>8, <2>11, <3>1 DEF ReadIer
    <3>3. Enabling'
      BY <1>1, <2>1, <2>3, <2>6, <2>11, <3>1, <3>2 DEF Enabling, OnlyPoll, Reported
    <3> QED
      BY <1>1, <2>1, <3>3 DEF HandedRound
  <2>12. CASE w = <<0, "RI", {"RBU"}>> /\ ier[0] = {"RBU"}
    <3>1. v = <<1, "RBU", NotRead>> /\ WritesDone(v)
      BY <1>0, <2>12 DEF NextWrite, WritesDone
    <3>2. cpu' = [cpu EXCEPT ![c] = Idle] /\ ier'[0] = Irqs
      BY <1>0, <2>5, <2>7, <2>12, <3>1
    <3>3. NoPoll'
      BY <1>0, <2>6, <3>2 DEF NoPoll
    <3>4. isr' = Idle /\ napi'[0] = "idle" /\ (pkts'[0] > 0 => Reported')
      BY <1>1, <2>1, <2>3 DEF Enabling, Reported
    <3>5. Watching'
      BY <1>0, <3>2, <3>3, <3>4 DEF Watching
    <3> QED
      BY <1>1, <2>1, <3>5 DEF HandedRound
  <2> QED
    BY <2>4, <2>9, <2>10, <2>11, <2>12
<1> QED
  BY <1>4, <1>5, <1>6, <1>7, <1>8 DEF Poll

LEMMA HandedStep ==
    ASSUME Alone, NapiInv, HandedRound, [Next]_vars, [Fits]_vars
    PROVE  HandedRound'
<1>1. CASE UNCHANGED vars
  BY <1>1 DEF vars, HandedRound, Watching, Masking, Told, Polling, Enabling, NoPoll, OnlyPoll,
     Reported
<1>2. CASE Next /\ Fits
  BY <1>2, HandedArrive, HandedIsr, HandedPoll DEF Next
<1> QED
  BY <1>1, <1>2

LEMMA OnlyArrivals ==
    ASSUME Next, arrived' # arrived
    PROVE  \E q \in Queues : Arrive(q)
<1>1. CASE Isr
  BY <1>1 DEF Isr, IsrStart, IsrClear, IsrNothing, IsrReceive, IsrMask, IsrSchedule
<1>2. ASSUME NEW c \in Cpus, Poll(c) PROVE FALSE
  BY <1>2 DEF Poll, PollStart, CleanOne, CleanNext, PollEnd, Enable
<1>3. CASE Channels
  BY <1>3 DEF Channels, RaiseOther
<1> QED
  BY <1>1, <1>2, <1>3 DEF Next

LEMMA HandedQuiet == ASSUME Alone, NapiInv, HandedRound PROVE NoPacketStranded
<1> SUFFICES ASSUME Quiet, NEW q \in Queues, pkts[q] > 0
             PROVE  sr[q] \cap ier[q] # {}
  BY DEF NoPacketStranded
<1>1. q = 0 /\ 0 \in Queues /\ Idle.pc = "idle"
  BY AloneFacts
<1>2. isr = Idle /\ napi[0] = "idle" /\ \A c \in Cpus : cpu[c].pc = "idle"
  BY <1>1 DEF Quiet
<1>3. Watching
  BY <1>2 DEF HandedRound, Masking, Told, Polling, Enabling
<1>4. Reported /\ "RI" \in ier[0]
  BY <1>1, <1>2, <1>3 DEF Watching, Irqs
<1> QED
  BY <1>1, <1>4 DEF Reported

\* drv.c:479 and drv.c:3520: with one channel and no other interrupt, and as
\* long as the ring does not fill, a packet no poll has taken is reported by an
\* interrupt that is still to come, on any number of CPUs and for any budget.
THEOREM NapiNoPacketStranded ==
    ASSUME Alone PROVE Spec /\ [][Fits]_vars => []NoPacketStranded
<1>1. Init => HandedRound
  BY HandedInit
<1>2. NapiInv /\ HandedRound /\ [Next]_vars /\ [Fits]_vars => HandedRound'
  BY HandedStep
<1>3. NapiInv /\ HandedRound => NoPacketStranded
  BY HandedQuiet
<1> QED
  BY <1>1, <1>2, <1>3, NapiInvariant, PTL DEF Spec

\* ... which it does not, when it holds all the packets that ever arrive.
THEOREM NapiFewPackets ==
    ASSUME Alone, MaxArrivals <= RingSize PROVE Spec => []NoPacketStranded
<1>1. Init => HandedRound
  BY HandedInit
<1>2. NapiInv /\ HandedRound /\ [Next]_vars => HandedRound'
  <2> SUFFICES ASSUME NapiInv, HandedRound, [Next]_vars PROVE HandedRound'
    OBVIOUS
  <2>1. /\ pkts[0] \in Nat /\ arrived \in Nat /\ RingSize \in Nat /\ MaxArrivals \in Nat
    BY AloneFacts, NapiAssumption
  <2>2. ASSUME arrived' # arrived PROVE pkts[0] < RingSize
    <3>1. CASE UNCHANGED vars
      BY <2>2, <3>1 DEF vars
    <3>2. CASE Next
      <4>1. PICK q \in Queues : Arrive(q)
        BY <2>2, <3>2, OnlyArrivals
      <4>2. arrived < MaxArrivals /\ pkts[0] <= arrived
        BY <4>1 DEF Arrive, HandedRound
      <4> QED
        BY <2>1, <4>2
    <3> QED
      BY <3>1, <3>2
  <2>3. [Fits]_vars
    BY <2>2 DEF Fits
  <2> QED
    BY <2>3, HandedStep
<1>3. NapiInv /\ HandedRound => NoPacketStranded
  BY HandedQuiet
<1> QED
  BY <1>1, <1>2, <1>3, NapiInvariant, PTL DEF Spec

\* drv.c:3481: with one channel, and so one napi structure, no second poll
\* starts while one works on the ring; with two, the second one may.
THEOREM NapiOneCleaner == ASSUME QUEUE_CNT = 1 PROVE Spec => []OneCleaner
<1>1. NapiInv => OneCleaner
  <2> SUFFICES ASSUME NapiInv, NEW c \in Cpus, NEW d \in Cpus,
                      cpu[c].pc = "clean", cpu[d].pc = "clean"
               PROVE  c = d
    BY DEF OneCleaner
  <2>1. cpu[c] \in CleanRec /\ cpu[d] \in CleanRec /\ Queues = {0}
    BY CpuCases DEF NapiInv, Queues
  <2>2. cpu[c].napi = cpu[d].napi
    BY <2>1 DEF CleanRec
  <2> QED
    BY <2>2 DEF NapiInv, OnePollEach
<1> QED
  BY <1>1, NapiInvariant, PTL

=============================================================================
