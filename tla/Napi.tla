-------------------------------- MODULE Napi --------------------------------
(***************************************************************************)
(* The receive interrupts of all DMA channels, the interrupt service       *)
(* routine and the NAPI poll routine of the kernel driver.                 *)
(*                                                                         *)
(* Every channel has its own napi structure, but any poll cleans all the   *)
(* rings and any interrupt masks all the channels.  A poll runs in softirq *)
(* context: with one CPU the service routine interrupts it between any two *)
(* of its steps, with two CPUs they run side by side.  Writing one bit of  *)
(* an interrupt enable register reads the register, changes the bit and    *)
(* writes the register back.                                               *)
(***************************************************************************)
EXTENDS Integers, FiniteSets

CONSTANTS
    QUEUE_CNT,      \* receive (and transmit) channels
    Budget,         \* what the kernel lets one call of poll_mq deliver
    RingSize,       \* packets a channel holds before its buffers are used up
    Cpus,           \* the CPUs that run softirqs
    OtherIrq,       \* the channels also raise interrupts that are never masked
    MaxArrivals     \* bound: packets that arrive

ASSUME NapiAssumption ==
    /\ QUEUE_CNT \in Nat \ {0}
    /\ Budget \in Nat \ {0}
    /\ RingSize \in Nat \ {0}
    /\ IsFiniteSet(Cpus) /\ Cpus # {}
    /\ OtherIrq \in BOOLEAN
    /\ MaxArrivals \in Nat

Queues == 0 .. QUEUE_CNT - 1
Irqs   == {"RI", "RBU"}     \* packet received, receive buffer unavailable

VARIABLES
    pkts,       \* packets in each ring that clean_rx has not taken
    arrived,    \* packets that arrived so far
    sr,         \* DMA_SR: the interrupts each channel reports
    ier,        \* DMA_IER: those of RI and RBU that are enabled
    napi,       \* the napi structure of each queue
    isr,        \* the service routine and its locals
    cpu         \* the call of poll_mq on each CPU and its locals

vars == <<pkts, arrived, sr, ier, napi, isr, cpu>>

Idle == [pc |-> "idle"]

\* One CPU: a poll stands still while the service routine runs.
CpuRuns == Cardinality(Cpus) > 1 \/ isr = Idle

\* TBU and the other unmasked sources are one bit, "OTHER".
Enabled(q) == ier[q] \cup {"OTHER"}

-----------------------------------------------------------------------------
(* Writing RBUE and RIE of every channel, one read-modify-write each: w is  *)
(* the next write of a context, <<channel, bit, register as it was read>>.  *)

NotRead == {"NotRead"}

FirstWrite == <<0, "RBU", NotRead>>

ReadIer(w) == <<w[1], w[2], ier[w[1]]>>

NextWrite(w) ==
    IF w[2] = "RBU" THEN <<w[1], "RI", NotRead>> ELSE <<w[1] + 1, "RBU", NotRead>>

WritesDone(w) == w[1] = QUEUE_CNT

-----------------------------------------------------------------------------
(* DWC_ETH_QOS_ISR_SW_DWC_ETH_QOS: the loop over the DMA channels.         *)

IsrStart ==
    /\ isr = Idle
    /\ \E q \in Queues : sr[q] \cap Enabled(q) # {}
    /\ isr' = [pc |-> "clear", q |-> 0, sched |-> FALSE]
    /\ UNCHANGED <<pkts, arrived, sr, ier, napi, cpu>>

\* DMA_SR is read and written back, which clears what was read.
IsrClear ==
    /\ isr.pc = "clear"
    /\ isr' = [pc |-> "test", q |-> isr.q, sched |-> isr.sched, seen |-> sr[isr.q]]
    /\ sr' = [sr EXCEPT ![isr.q] = {}]
    /\ UNCHANGED <<pkts, arrived, ier, napi, cpu>>

NextChannel(q, sched) ==
    isr' = IF q + 1 = QUEUE_CNT THEN Idle ELSE [pc |-> "clear", q |-> q + 1, sched |-> sched]

\* The first channel with an enabled receive interrupt.
RxIrq == isr.seen \cap ier[isr.q] # {} /\ ~isr.sched

IsrNothing ==
    /\ isr.pc = "test" /\ ~RxIrq
    /\ NextChannel(isr.q, isr.sched)
    /\ UNCHANGED <<pkts, arrived, sr, ier, napi, cpu>>

\* napi_schedule_prep, then the masking of all channels either way.
IsrReceive ==
    /\ isr.pc = "test" /\ RxIrq
    /\ isr' = [pc |-> "mask", q |-> isr.q, prep |-> napi[isr.q] = "idle", w |-> FirstWrite]
    /\ napi' = [napi EXCEPT ![isr.q] = IF @ = "idle" THEN "prep" ELSE @]
    /\ UNCHANGED <<pkts, arrived, sr, ier, cpu>>

IsrMask ==
    /\ isr.pc = "mask" /\ ~WritesDone(isr.w)
    /\ LET w == isr.w IN
       IF w[3] = NotRead
       THEN isr' = [isr EXCEPT !.w = ReadIer(w)] /\ UNCHANGED ier
       ELSE /\ ier' = [ier EXCEPT ![w[1]] = w[3] \ {w[2]}]
            /\ isr' = [isr EXCEPT !.w = NextWrite(w)]
    /\ UNCHANGED <<pkts, arrived, sr, napi, cpu>>

\* Mutant: the napi structure is scheduled whether or not prep said so.
IsrScheduleAlways ==
    /\ isr.pc = "mask" /\ WritesDone(isr.w)
    /\ napi' = [napi EXCEPT ![isr.q] = "sched"]
    /\ NextChannel(isr.q, TRUE)
    /\ UNCHANGED <<pkts, arrived, sr, ier, cpu>>

\* __napi_schedule if prep succeeded; "driver bug!" otherwise.
IsrSchedule ==
    /\ isr.pc = "mask" /\ WritesDone(isr.w)
    /\ napi' = [napi EXCEPT ![isr.q] = IF isr.prep THEN "sched" ELSE @]
    /\ NextChannel(isr.q, TRUE)
    /\ UNCHANGED <<pkts, arrived, sr, ier, cpu>>

-----------------------------------------------------------------------------
(* DWC_ETH_QOS_poll_mq on CPU c.                                           *)

PollStart(c) ==
    /\ CpuRuns /\ cpu[c] = Idle
    /\ \E n \in Queues :
        /\ napi[n] = "sched"
        /\ napi' = [napi EXCEPT ![n] = "run"]
        /\ cpu' = [cpu EXCEPT ![c] =
              [pc |-> "clean", napi |-> n, q |-> 0, got |-> 0, received |-> 0]]
    /\ UNCHANGED <<pkts, arrived, sr, ier, isr>>

\* Mutant: every queue gets the whole budget.
PerQBudgetWhole == Budget

\* "divide the budget evenly among all the queues"
PerQBudget == Budget \div QUEUE_CNT

\* clean_rx delivers a packet of queue q.
CleanOne(c) ==
    /\ CpuRuns /\ cpu[c].pc = "clean"
    /\ LET q == cpu[c].q IN
       /\ q \in Queues
       /\ pkts[q] > 0 /\ cpu[c].got < PerQBudget
       /\ pkts' = [pkts EXCEPT ![q] = @ - 1]
    /\ cpu' = [cpu EXCEPT ![c].got = @ + 1, ![c].received = @ + 1]
    /\ UNCHANGED <<arrived, sr, ier, napi, isr>>

CleanNext(c) ==
    /\ CpuRuns /\ cpu[c].pc = "clean"
    /\ cpu[c].q \in Queues
    /\ pkts[cpu[c].q] = 0 \/ cpu[c].got >= PerQBudget
    /\ cpu' = [cpu EXCEPT ![c].q = @ + 1, ![c].got = 0]
    /\ UNCHANGED <<pkts, arrived, sr, ier, napi, isr>>

\* Mutant: the poll completes whether or not the budget was used up.
PollEndAlways(c) ==
    /\ CpuRuns /\ cpu[c].pc = "clean" /\ cpu[c].q = QUEUE_CNT
    /\ napi' = [napi EXCEPT ![cpu[c].napi] = "idle"]
    /\ cpu' = [cpu EXCEPT ![c] = [pc |-> "enable", w |-> FirstWrite]]
    /\ UNCHANGED <<pkts, arrived, sr, ier, isr>>

\* napi_complete if the budget was not used up, else the kernel polls again.
PollEnd(c) ==
    /\ CpuRuns /\ cpu[c].pc = "clean" /\ cpu[c].q = QUEUE_CNT
    /\ LET done == cpu[c].received < Budget IN
       /\ napi' = [napi EXCEPT ![cpu[c].napi] = IF done THEN "idle" ELSE "sched"]
       /\ cpu' = [cpu EXCEPT ![c] = IF done THEN [pc |-> "enable", w |-> FirstWrite] ELSE Idle]
    /\ UNCHANGED <<pkts, arrived, sr, ier, isr>>

\* Mutant: the last channel is left out.
EnableAllButLast(c) ==
    /\ CpuRuns /\ cpu[c].pc = "enable"
    /\ LET w == cpu[c].w IN
       IF w[1] + 1 >= QUEUE_CNT /\ w[2] = "RI"
       THEN cpu' = [cpu EXCEPT ![c] = Idle] /\ UNCHANGED ier
       ELSE IF w[3] = NotRead
       THEN cpu' = [cpu EXCEPT ![c].w = ReadIer(w)] /\ UNCHANGED ier
       ELSE /\ ier' = [ier EXCEPT ![w[1]] = w[3] \cup {w[2]}]
            /\ cpu' = [cpu EXCEPT ![c].w = NextWrite(w)]
    /\ UNCHANGED <<pkts, arrived, sr, napi, isr>>

\* enable_all_ch_rx_interrpt, one register access at a time.
Enable(c) ==
    /\ CpuRuns /\ cpu[c].pc = "enable"
    /\ LET w == cpu[c].w IN
       IF w[3] = NotRead
       THEN cpu' = [cpu EXCEPT ![c].w = ReadIer(w)] /\ UNCHANGED ier
       ELSE /\ ier' = [ier EXCEPT ![w[1]] = w[3] \cup {w[2]}]
            /\ cpu' = [cpu EXCEPT ![c] =
                  IF WritesDone(NextWrite(w)) THEN Idle ELSE [@ EXCEPT !.w = NextWrite(w)]]
    /\ UNCHANGED <<pkts, arrived, sr, napi, isr>>

-----------------------------------------------------------------------------
(* The channels.                                                           *)

Report(q, irq) == sr' = [sr EXCEPT ![q] = @ \cup {irq}]

Arrive(q) ==
    /\ arrived < MaxArrivals /\ arrived' = arrived + 1
    /\ IF pkts[q] < RingSize
       THEN pkts' = [pkts EXCEPT ![q] = @ + 1] /\ Report(q, "RI")
       ELSE Report(q, "RBU") /\ UNCHANGED pkts
    /\ UNCHANGED <<ier, napi, isr, cpu>>

RaiseOther(q) ==
    /\ OtherIrq
    /\ Report(q, "OTHER")
    /\ UNCHANGED <<pkts, arrived, ier, napi, isr, cpu>>

-----------------------------------------------------------------------------
Init ==
    /\ pkts = [q \in Queues |-> 0] /\ arrived = 0
    /\ sr = [q \in Queues |-> {}]
    /\ ier = [q \in Queues |-> Irqs]
    /\ napi = [q \in Queues |-> "idle"]
    /\ isr = Idle
    /\ cpu = [c \in Cpus |-> Idle]

Isr == IsrStart \/ IsrClear \/ IsrNothing \/ IsrReceive \/ IsrMask \/ IsrSchedule
Poll(c) == PollStart(c) \/ CleanOne(c) \/ CleanNext(c) \/ PollEnd(c) \/ Enable(c)
Channels == \E q \in Queues : Arrive(q) \/ RaiseOther(q)

Next == Isr \/ (\E c \in Cpus : Poll(c)) \/ Channels

Spec == Init /\ [][Next]_vars

\* An asserted interrupt line is served, and a scheduled napi is polled.
Fairness == WF_vars(Isr) /\ \A c \in Cpus : WF_vars(Poll(c))

FairSpec == Spec /\ Fairness

-----------------------------------------------------------------------------
(* Type invariant and safety properties.                                   *)

WriteType == (0 .. QUEUE_CNT) \X Irqs \X ((SUBSET Irqs) \cup {NotRead})

IsrType ==
    {Idle} \cup [pc : {"clear"}, q : Queues, sched : BOOLEAN]
           \cup [pc : {"test"}, q : Queues, sched : BOOLEAN, seen : SUBSET (Irqs \cup {"OTHER"})]
           \cup [pc : {"mask"}, q : Queues, prep : BOOLEAN, w : WriteType]

CpuType ==
    {Idle} \cup [pc : {"clean"}, napi : Queues, q : 0 .. QUEUE_CNT,
                 got : 0 .. PerQBudget, received : 0 .. Budget]
           \cup [pc : {"enable"}, w : WriteType]

\* Every variable keeps its type; no call of poll_mq delivers more packets than
\* its budget, which the queues share.
TypeOK ==
    /\ pkts \in [Queues -> 0 .. RingSize] /\ arrived \in 0 .. MaxArrivals
    /\ sr \in [Queues -> SUBSET (Irqs \cup {"OTHER"})]
    /\ ier \in [Queues -> SUBSET Irqs]
    /\ napi \in [Queues -> {"idle", "prep", "sched", "run"}]
    /\ isr \in IsrType
    /\ cpu \in [Cpus -> CpuType]

\* Nobody works on reception, and nobody has been told to.
Quiet ==
    /\ isr = Idle
    /\ \A c \in Cpus : cpu[c] = Idle
    /\ \A q \in Queues : napi[q] = "idle"

\* drv.c:3520 "we are done; tell the kernel & re-enable interrupt": when the
\* last poll is over, every channel can raise its receive interrupts again.
RxNotDead == Quiet => \A q \in Queues : ier[q] = Irqs

\* A packet that no poll has taken is reported by an interrupt that is still
\* to come: it never waits for the next packet to be noticed.
NoPacketStranded ==
    Quiet => \A q \in Queues : pkts[q] > 0 => sr[q] \cap ier[q] # {}

\* A napi structure is polled by the one call that took it from the list, and
\* a scheduled one is never forgotten by the service routine.
NapiHeldOnce ==
    /\ \A n \in Queues :
          napi[n] = "run" <=> \E c \in Cpus : cpu[c].pc = "clean" /\ cpu[c].napi = n
    /\ \A n \in Queues :
          napi[n] = "prep" <=> isr.pc = "mask" /\ isr.prep /\ isr.q = n

\* No poll passes its budget and no napi structure is lost or polled twice.
NapiKept == TypeOK /\ NapiHeldOnce

\* Packets do not stay in a ring.
EveryPacketTaken == \A q \in Queues : pkts[q] > 0 ~> pkts[q] = 0

-----------------------------------------------------------------------------
(* What the code says and does not do.                                     *)

\* drv.c:3481 "to operate the interface in a polled mode, with interrupts
\* disabled": no second poll starts while one works on the rings (clean_rx
\* takes no lock).
OneCleaner ==
    \A c, d \in Cpus : cpu[c].pc = "clean" /\ cpu[d].pc = "clean" => c = d

=============================================================================
