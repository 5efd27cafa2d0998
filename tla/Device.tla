------------------------------- MODULE Device -------------------------------
(***************************************************************************)
(* The network device goes up and down: open, close, change of MTU,        *)
(* powerdown and powerup by ioctl, suspend and resume, the wake-up packet, *)
(* the restart after a bus error, against the interrupt, the NAPI poll,    *)
(* the transmit timer and the energy efficient Ethernet timer.             *)
(*                                                                         *)
(* Every operation is the sequence of the calls its function makes, see    *)
(* Program; a step performs the first call that is left.  Operations of    *)
(* the process ("task") follow one another, under the rtnl lock or with    *)
(* the processes frozen; the service routine ("isr") runs some of them     *)
(* too.  One channel: what the loops over channels do, they do to it.      *)
(***************************************************************************)
EXTENDS Naturals, Sequences

CONSTANTS
    Rules,          \* what the environment is known to avoid, see below
    NumOps,         \* bound: operations
    NumFrames,      \* bound: frames received
    NumPackets,     \* bound: packets sent
    RingSize        \* bound: packets the transmit ring holds

(* The driver relies on its users for more than it says.  Each rule is     *)
(* something the code does not check; a run may drop one.                  *)
(*   mtu_when_up   the MTU changes only while the device is up and awake   *)
(*   close_awake   no close or suspend after powerdown by ioctl            *)
(*   tx_drained    nothing is sent while the device is taken down          *)
(*   rx_quiet      no frame arrives while the power state changes          *)
(*   one_waker     a wake-up packet does not race an operation             *)
(*   up_power      powerdown and powerup by ioctl on one CPU only          *)
(*   bus_error_alone  a bus error meets no operation, poll or packet       *)
AllRules == {"mtu_when_up", "close_awake", "tx_drained", "rx_quiet", "one_waker",
             "up_power", "bus_error_alone"}

ASSUME DeviceAssumption ==
    /\ Rules \subseteq AllRules
    /\ NumOps \in Nat /\ NumFrames \in Nat /\ NumPackets \in Nat
    /\ RingSize \in Nat \ {0}

Ruled(r, ok) == r \in Rules => ok

VARIABLES
    smp,            \* more than one CPU
    todo,           \* calls left, of the process and of the service routine
    op,             \* the operation of the process, "none" between two
    lock, irqoff,   \* holder of pdata->lock; the process has interrupts off
    isr,            \* CPU the service routine runs on: "none", "same", "other" than the process's
    running,        \* netif_running
    suspended,      \* the system sleeps
    power_down, pmt,                \* pdata->power_down; wake-up enabled in the MAC
    irq,            \* the service routine is registered
    ring,           \* descriptor memory: "none", "stale" (skbs freed), "ready"
    napi, polling,  \* "off", "idle", "sched"; the poll has begun
    dma,            \* the DMA is started
    rie, ri,        \* receive interrupt enabled, reported
    rxready,        \* unread frames in the ring
    txq,            \* the stack may call start_xmit
    queue_stopped,  \* start_xmit stopped the queue, the ring is full
    queued, sent,   \* tx_pkt_queued; how many of them were sent
    phy,            \* phy_start, phy_stop
    eee_enabled, eee_armed,         \* EEE, its timer
    lpien, lpi,     \* LPI asked of the MAC, tx_path_in_lpi_mode
    count           \* operations, frames and packets so far

cpu   == <<smp, isr, lock, irqoff>>
power == <<running, suspended, power_down, pmt>>
rx    == <<irq, napi, polling, rie, ri, rxready>>
tx    == <<txq, queue_stopped, queued, sent>>
eee   == <<eee_enabled, eee_armed, lpien, lpi>>
vars  == <<cpu, todo, op, power, rx, tx, eee, ring, dma, phy, count>>

-----------------------------------------------------------------------------
(* The functions, as sequences of calls.                                   *)

Open == <<"request_irq", "alloc", "default_confs", "napi_enable", "lock", "unlock",
          "desc_init", "hw_init", "phy_start", "eee_init", "tx_start">>

\* Mutant: the memory is freed before the poll is stopped.
CloseFreesEarly == <<"eee_del", "phy_stop", "tx_stop", "free_mem", "napi_disable", "hw_exit",
                     "free_irq">>

\* Mutant: napi_disable is missing.
CloseNoDisable == <<"eee_del", "phy_stop", "tx_stop", "hw_exit", "free_mem", "free_irq">>

Close == <<"eee_del", "phy_stop", "tx_stop", "napi_disable", "hw_exit", "free_mem",
           "free_irq">>

\* stop_dev, then start_dev.
ChangeMtu == <<"tx_stop", "napi_disable", "dma_stop", "hw_exit", "skb_free",
               "default_confs", "napi_enable", "desc_init", "hw_init", "tx_start">>

Powerdown(caller) ==
    <<"phy_stop", "lock", "tx_stop", "napi_disable", "dma_stop",
      IF caller = "ioctl" THEN "pmt_on" ELSE "pmt_on_driver", "unlock">>

\* Mutant: the DMA is not started again.
PowerupNoDma == <<"lock", "pmt_off", "phy_start", "napi_enable", "tx_start", "unlock">>

Powerup == <<"lock", "pmt_off", "phy_start", "dma_start", "napi_enable", "tx_start", "unlock">>

\* DWC_ETH_QOS_ioctl takes the lock for every private command.
Ioctl(body) == <<"ioctl_lock">> \o body \o <<"ioctl_unlock">>

Restart == <<"tx_stop", "napi_disable", "dma_stop", "skb_free", "desc_init", "napi_enable",
             "hw_init", "tx_start">>

\* The process stands still while the service routine runs on its CPU.
Runs(t) == t = "task" => isr # "same"

Idle == op = "none" /\ todo["task"] = <<>>

-----------------------------------------------------------------------------
(* The process begins an operation.                                        *)

Quiet == ~ri /\ napi # "sched" /\ ~rxready

Drained == Ruled("tx_drained", queued = 0)

Begin(name, calls) ==
    /\ Idle /\ Runs("task") /\ count.ops < NumOps
    /\ Ruled("one_waker", isr = "none")
    /\ op' = name
    /\ todo' = [todo EXCEPT !["task"] = calls]
    /\ count' = [count EXCEPT !.ops = @ + 1]
    /\ UNCHANGED <<cpu, rx, tx, eee, ring, dma, phy>>

BeginOpen ==
    /\ ~running /\ ~suspended
    /\ Begin("open", Open)
    /\ running' = TRUE
    /\ UNCHANGED <<suspended, power_down, pmt>>

\* The stack marks the device as down before it calls close.
BeginClose ==
    /\ running /\ ~suspended
    /\ Ruled("close_awake", ~power_down)
    /\ Drained
    /\ Begin("close", Close)
    /\ running' = FALSE
    /\ UNCHANGED <<suspended, power_down, pmt>>

BeginMtu ==
    /\ ~suspended
    /\ Ruled("mtu_when_up", running /\ ~power_down)
    /\ Drained
    /\ Begin("mtu", ChangeMtu)
    /\ UNCHANGED power

\* Mutant: the command does not look whether the device is powered down.
BeginPowerdownTwice ==
    /\ running /\ ~suspended
    /\ Ruled("up_power", ~smp)
    /\ Drained
    /\ Ruled("rx_quiet", Quiet)
    /\ Begin("powerdown", Ioctl(Powerdown("ioctl")))
    /\ UNCHANGED power

BeginPowerdown ==
    /\ running /\ ~suspended
    /\ Ruled("up_power", ~smp)
    /\ Drained
    /\ Ruled("rx_quiet", Quiet)
    /\ Begin("powerdown", IF power_down THEN Ioctl(<<>>) ELSE Ioctl(Powerdown("ioctl")))
    /\ UNCHANGED power

\* powerup looks at power_down before it takes the lock.
BeginPowerup ==
    /\ running /\ ~suspended
    /\ Ruled("up_power", ~smp)
    /\ Begin("powerup", IF power_down THEN Ioctl(Powerup) ELSE Ioctl(<<>>))
    /\ UNCHANGED power

BeginSuspend ==
    /\ running /\ ~suspended
    /\ Ruled("close_awake", ~power_down)
    /\ Drained
    /\ Ruled("rx_quiet", Quiet)
    /\ Begin("suspend", Powerdown("driver"))
    /\ suspended' = TRUE
    /\ UNCHANGED <<running, power_down, pmt>>

BeginResume ==
    /\ suspended
    /\ Begin("resume", Powerup)
    /\ suspended' = FALSE
    /\ UNCHANGED <<running, power_down, pmt>>

End ==
    /\ op # "none" /\ todo["task"] = <<>> /\ Runs("task")
    /\ op' = "none"
    /\ UNCHANGED <<cpu, todo, power, rx, tx, eee, ring, dma, phy, count>>

-----------------------------------------------------------------------------
(* The calls.  Waits(t) is a call that cannot return yet.                  *)

Waits(t) ==
    LET call == Head(todo[t]) IN
    \/ call \in {"lock", "ioctl_lock"} /\ smp /\ lock # "none"
    \/ call = "napi_disable" /\ napi # "idle"
    \/ call = "free_irq" /\ isr # "none"

\* t performs its first call, which is one of calls.
Does(t, calls) ==
    /\ todo[t] # <<>> /\ Head(todo[t]) \in calls
    /\ Runs(t) /\ ~Waits(t)
    /\ UNCHANGED <<op, count>>

Proceeds(t, calls) == Does(t, calls) /\ todo' = [todo EXCEPT ![t] = Tail(@)]

\* Interrupts are off in the process between lock and unlock, not in the ioctl.
Lock(t) ==
    /\ Proceeds(t, {"lock", "ioctl_lock"})
    /\ lock' = IF smp THEN t ELSE lock
    /\ irqoff' = (irqoff \/ (t = "task" /\ Head(todo[t]) = "lock"))
    /\ UNCHANGED <<smp, isr, power, rx, tx, eee, ring, dma, phy>>

Unlock(t) ==
    /\ Proceeds(t, {"unlock", "ioctl_unlock"})
    /\ lock' = "none"
    /\ irqoff' = IF t = "task" THEN FALSE ELSE irqoff
    /\ UNCHANGED <<smp, isr, power, rx, tx, eee, ring, dma, phy>>

RequestIrq(t) ==
    /\ Proceeds(t, {"request_irq"})
    /\ irq' = TRUE
    /\ UNCHANGED <<cpu, power, napi, polling, rie, ri, rxready, tx, eee, ring, dma, phy>>

FreeIrq(t) ==
    /\ Proceeds(t, {"free_irq"})
    /\ irq' = FALSE
    /\ UNCHANGED <<cpu, power, napi, polling, rie, ri, rxready, tx, eee, ring, dma, phy>>

Alloc(t) ==
    /\ Proceeds(t, {"alloc"})
    /\ ring' = "stale"
    /\ UNCHANGED <<cpu, power, rx, tx, eee, dma, phy>>

\* open returns -ENOMEM and the stack marks the device as down again.
AllocFails(t) ==
    /\ Does(t, {"alloc"})
    /\ todo' = [todo EXCEPT ![t] = <<"free_irq">>]
    /\ running' = FALSE
    /\ UNCHANGED <<cpu, suspended, power_down, pmt, rx, tx, eee, ring, dma, phy>>

\* tx_free_mem leaves tx_pkt_queued as it is.
FreeMem(t) ==
    /\ Proceeds(t, {"free_mem"})
    /\ ring' = "none" /\ rxready' = FALSE
    /\ UNCHANGED <<cpu, power, irq, napi, polling, rie, ri, tx, eee, dma, phy>>

SkbFree(t) ==
    /\ Proceeds(t, {"skb_free"})
    /\ ring' = "stale" /\ rxready' = FALSE
    /\ UNCHANGED <<cpu, power, irq, napi, polling, rie, ri, tx, eee, dma, phy>>

DescInit(t) ==
    /\ Proceeds(t, {"desc_init"})
    /\ ring' = "ready" /\ rxready' = FALSE
    /\ queued' = 0 /\ sent' = 0 /\ queue_stopped' = FALSE
    /\ UNCHANGED <<cpu, power, irq, napi, polling, rie, ri, txq, eee, dma, phy>>

DefaultConfs(t) ==
    /\ Proceeds(t, {"default_confs"})
    /\ power_down' = FALSE
    /\ UNCHANGED <<cpu, running, suspended, pmt, rx, tx, eee, ring, dma, phy>>

NapiEnable(t) ==
    /\ Proceeds(t, {"napi_enable"})
    /\ napi' = "idle"
    /\ UNCHANGED <<cpu, power, irq, polling, rie, ri, rxready, tx, eee, ring, dma, phy>>

NapiDisable(t) ==
    /\ Proceeds(t, {"napi_disable"})
    /\ napi' = "off"
    /\ UNCHANGED <<cpu, power, irq, polling, rie, ri, rxready, tx, eee, ring, dma, phy>>

\* The software reset takes every register back.
HwExit(t) ==
    /\ Proceeds(t, {"hw_exit"})
    /\ dma' = FALSE /\ rie' = FALSE /\ ri' = FALSE /\ pmt' = FALSE /\ lpien' = FALSE
    /\ UNCHANGED <<cpu, running, suspended, power_down, irq, napi, polling, rxready, tx,
                   eee_enabled, eee_armed, lpi, ring, phy>>

\* hw_if->init: reset, interrupts cleared and enabled, DMA started.
HwInit(t) ==
    /\ Proceeds(t, {"hw_init"})
    /\ dma' = TRUE /\ rie' = TRUE /\ ri' = FALSE /\ pmt' = FALSE /\ lpien' = FALSE
    /\ UNCHANGED <<cpu, running, suspended, power_down, irq, napi, polling, rxready, tx,
                   eee_enabled, eee_armed, lpi, ring, phy>>

DmaStartStop(t) ==
    /\ Proceeds(t, {"dma_start", "dma_stop"})
    /\ dma' = (Head(todo[t]) = "dma_start")
    /\ UNCHANGED <<cpu, power, rx, tx, eee, ring, phy>>

TxStartStop(t) ==
    /\ Proceeds(t, {"tx_start", "tx_stop"})
    /\ txq' = (Head(todo[t]) = "tx_start")
    /\ UNCHANGED <<cpu, power, rx, queue_stopped, queued, sent, eee, ring, dma, phy>>

PhyStartStop(t) ==
    /\ Proceeds(t, {"phy_start", "phy_stop"})
    /\ phy' = (Head(todo[t]) = "phy_start")
    /\ UNCHANGED <<cpu, power, rx, tx, eee, ring, dma>>

\* Only the ioctl notes that the device is powered down.
PmtOn(t) ==
    /\ Proceeds(t, {"pmt_on", "pmt_on_driver"})
    /\ pmt' = TRUE
    /\ power_down' = (power_down \/ Head(todo[t]) = "pmt_on")
    /\ UNCHANGED <<cpu, running, suspended, rx, tx, eee, ring, dma, phy>>

\* Mutant: power_down is not reset.
PmtOffForgets(t) ==
    /\ Proceeds(t, {"pmt_off"})
    /\ pmt' = FALSE
    /\ UNCHANGED <<cpu, power_down, running, suspended, rx, tx, eee, ring, dma, phy>>

PmtOff(t) ==
    /\ Proceeds(t, {"pmt_off"})
    /\ pmt' = FALSE /\ power_down' = FALSE
    /\ UNCHANGED <<cpu, running, suspended, rx, tx, eee, ring, dma, phy>>

EeeInit(t) ==
    /\ Proceeds(t, {"eee_init"})
    /\ eee_enabled' = TRUE /\ eee_armed' = TRUE
    /\ UNCHANGED <<cpu, power, rx, tx, lpien, lpi, ring, dma, phy>>

EeeDel(t) ==
    /\ Proceeds(t, {"eee_del"})
    /\ eee_armed' = (eee_armed /\ ~eee_enabled)
    /\ UNCHANGED <<cpu, power, rx, tx, eee_enabled, lpien, lpi, ring, dma, phy>>

Call(t) ==
    \/ Lock(t) \/ Unlock(t) \/ RequestIrq(t) \/ FreeIrq(t)
    \/ Alloc(t) \/ AllocFails(t) \/ FreeMem(t) \/ SkbFree(t) \/ DescInit(t)
    \/ DefaultConfs(t) \/ NapiEnable(t) \/ NapiDisable(t)
    \/ HwExit(t) \/ HwInit(t) \/ DmaStartStop(t) \/ TxStartStop(t) \/ PhyStartStop(t)
    \/ PmtOn(t) \/ PmtOff(t) \/ EeeInit(t) \/ EeeDel(t)

-----------------------------------------------------------------------------
(* The service routine, on the CPU of the process or on another.           *)

CanInterrupt(c) ==
    /\ irq /\ isr = "none"
    /\ IF c = "same" THEN ~irqoff ELSE smp

\* napi_schedule_prep fails while the napi structure is off: "driver bug!".
\* In both cases the receive interrupts are disabled.
IsrRx(c) ==
    /\ CanInterrupt(c)
    /\ ri /\ rie
    /\ ri' = FALSE /\ rie' = FALSE
    /\ napi' = IF napi = "idle" THEN "sched" ELSE napi
    /\ UNCHANGED <<cpu, todo, op, power, irq, polling, rxready, tx, eee, ring, dma, phy, count>>

\* A fatal bus error, with or without a received frame in the same status word.
IsrBusError(c) ==
    /\ CanInterrupt(c) /\ dma
    /\ Ruled("bus_error_alone", Idle /\ Quiet /\ queued = 0)
    /\ isr' = c
    /\ todo' = [todo EXCEPT !["isr"] = Restart]
    /\ IF ri /\ rie
       THEN /\ ri' = FALSE /\ rie' = FALSE
            /\ napi' = IF napi = "idle" THEN "sched" ELSE napi
       ELSE UNCHANGED <<ri, rie, napi>>
    /\ UNCHANGED <<smp, lock, irqoff, op, power, irq, polling, rxready, tx, eee, ring, dma, phy,
                   count>>

\* The wake-up packet.
IsrPmt(c) ==
    /\ CanInterrupt(c)
    /\ pmt /\ power_down /\ running
    /\ Ruled("one_waker", Idle)
    /\ isr' = c
    /\ todo' = [todo EXCEPT !["isr"] = Powerup]
    /\ UNCHANGED <<smp, lock, irqoff, op, power, rx, tx, eee, ring, dma, phy, count>>

IsrReturn ==
    /\ isr # "none" /\ todo["isr"] = <<>>
    /\ isr' = "none"
    /\ UNCHANGED <<smp, lock, irqoff, todo, op, power, rx, tx, eee, ring, dma, phy, count>>

\* The MAC reports that it entered the LPI state, or left it for a packet.
IsrLpi(c) ==
    /\ CanInterrupt(c)
    /\ \/ lpien /\ ~lpi /\ queued = sent /\ lpi' = TRUE /\ UNCHANGED lpien
       \/ lpi /\ queued > sent /\ lpi' = FALSE /\ lpien' = FALSE
    /\ UNCHANGED <<cpu, todo, op, power, rx, tx, eee_enabled, eee_armed, ring, dma, phy, count>>

\* enable_eee_mode, with empty the number of descriptors that stay in the ring.
EnableEee(left) == lpien' = (lpien \/ (left = 0 /\ ~lpi))

\* Mutant: what was reclaimed is counted again.
TxInterruptTwice ==
    /\ queued' = queued - sent
    /\ queue_stopped' = (queue_stopped /\ queued' = RingSize)
    /\ txq' = (txq \/ (queue_stopped /\ ~queue_stopped'))
    /\ UNCHANGED <<cpu, todo, op, power, rx, sent, eee, ring, dma, phy, count>>

\* tx_interrupt reclaims what was sent, wakes a stopped queue and, whether or
\* not there was anything to reclaim, starts the EEE timer.
TxInterrupt ==
    /\ queued' = queued - sent /\ sent' = 0
    /\ queue_stopped' = (queue_stopped /\ queued' = RingSize)
    /\ txq' = (txq \/ (queue_stopped /\ ~queue_stopped'))
    /\ IF eee_enabled /\ ~lpi
       THEN EnableEee(queued') /\ eee_armed' = TRUE
       ELSE UNCHANGED <<lpien, eee_armed>>
    /\ UNCHANGED <<cpu, todo, op, power, rx, eee_enabled, lpi, ring, dma, phy, count>>

IsrTx(c) == CanInterrupt(c) /\ dma /\ sent > 0 /\ TxInterrupt

-----------------------------------------------------------------------------
(* Soft interrupts: the poll and the timers.  A process that waits in      *)
(* napi_disable lets them run.                                             *)

Soft ==
    \/ smp
    \/ isr = "none" /\ (irqoff => todo["task"] # <<>> /\ Waits("task"))

PollBegin ==
    /\ Soft /\ isr = "none" /\ napi = "sched" /\ ~polling
    /\ polling' = TRUE
    /\ UNCHANGED <<cpu, todo, op, power, irq, napi, rie, ri, rxready, tx, eee, ring, dma, phy, count>>

\* Mutant: the receive interrupts stay disabled.
PollEndMasked ==
    /\ Soft /\ polling
    /\ polling' = FALSE /\ rxready' = FALSE
    /\ napi' = "idle"
    /\ UNCHANGED <<cpu, todo, op, power, irq, rie, ri, tx, eee, ring, dma, phy, count>>

\* clean_rx reads all frames, then napi_complete and enable_all_ch_rx_interrpt.
PollEnd ==
    /\ Soft /\ polling
    /\ polling' = FALSE /\ rxready' = FALSE
    /\ napi' = "idle" /\ rie' = TRUE
    /\ UNCHANGED <<cpu, todo, op, power, irq, ri, tx, eee, ring, dma, phy, count>>

\* The transmit timer runs from probe to remove and arms itself again.
TxTimer == Soft /\ TxInterrupt

\* The EEE timer arms itself again.
EeeTimer ==
    /\ Soft /\ eee_armed
    /\ EnableEee(queued)
    /\ UNCHANGED <<cpu, todo, op, power, rx, tx, eee_enabled, eee_armed, lpi, ring, dma, phy, count>>

\* start_xmit leaves the LPI state and stops the EEE timer.
Xmit ==
    /\ Soft /\ txq /\ running
    /\ count.packets < NumPackets
    /\ Ruled("tx_drained", op \in {"none", "open"} /\ isr = "none")
    /\ queued' = queued + 1
    /\ queue_stopped' = (queued' = RingSize) /\ txq' = ~queue_stopped'
    /\ IF lpi THEN lpi' = FALSE /\ lpien' = FALSE /\ eee_armed' = FALSE
       ELSE UNCHANGED <<lpi, lpien, eee_armed>>
    /\ count' = [count EXCEPT !.packets = @ + 1]
    /\ UNCHANGED <<cpu, todo, op, power, rx, sent, eee_enabled, ring, dma, phy>>

-----------------------------------------------------------------------------
(* The device.                                                             *)

Changing == op \in {"powerdown", "powerup", "suspend", "resume"} \/ isr # "none"

FrameArrives ==
    /\ dma /\ ring = "ready"
    /\ count.frames < NumFrames
    /\ Ruled("rx_quiet", ~Changing)
    /\ ri' = TRUE /\ rxready' = TRUE
    /\ count' = [count EXCEPT !.frames = @ + 1]
    /\ UNCHANGED <<cpu, todo, op, power, irq, napi, polling, rie, tx, eee, ring, dma, phy>>

PacketSent ==
    /\ dma /\ sent < queued
    /\ sent' = sent + 1
    /\ UNCHANGED <<cpu, todo, op, power, rx, txq, queue_stopped, queued, eee, ring, dma, phy, count>>

-----------------------------------------------------------------------------
\* After probe: netif_napi_add leaves the napi structure off.
Init ==
    /\ smp \in BOOLEAN
    /\ todo = [t \in {"task", "isr"} |-> <<>>] /\ op = "none"
    /\ lock = "none" /\ irqoff = FALSE /\ isr = "none"
    /\ running = FALSE /\ suspended = FALSE /\ power_down = FALSE /\ pmt = FALSE
    /\ irq = FALSE /\ ring = "none"
    /\ napi = "off" /\ polling = FALSE
    /\ dma = FALSE /\ rie = FALSE /\ ri = FALSE /\ rxready = FALSE
    /\ txq = FALSE /\ queue_stopped = FALSE /\ queued = 0 /\ sent = 0 /\ phy = FALSE
    /\ eee_enabled = FALSE /\ eee_armed = FALSE /\ lpien = FALSE /\ lpi = FALSE
    /\ count = [ops |-> 0, frames |-> 0, packets |-> 0]

BeginSome ==
    BeginOpen \/ BeginClose \/ BeginMtu \/ BeginPowerdown \/ BeginPowerup \/ BeginSuspend
        \/ BeginResume

Task   == Call("task") \/ End
IsrRun == Call("isr") \/ IsrReturn
Interrupt ==
    \E c \in {"same", "other"} : IsrRx(c) \/ IsrBusError(c) \/ IsrPmt(c) \/ IsrLpi(c) \/ IsrTx(c)
Poll   == PollBegin \/ PollEnd
Timers == TxTimer \/ EeeTimer

Next ==
    \/ BeginSome \/ Task \/ IsrRun \/ Interrupt
    \/ Poll \/ Timers \/ Xmit
    \/ FrameArrives \/ PacketSent

Spec == Init /\ [][Next]_vars

\* Whoever can run is scheduled, a pending interrupt is served.
Fairness ==
    /\ WF_vars(Task) /\ WF_vars(IsrRun) /\ WF_vars(Poll)
    /\ WF_vars(\E c \in {"same", "other"} : IsrRx(c))

FairSpec == Spec /\ Fairness

-----------------------------------------------------------------------------
\* Every variable keeps its type.
TypeOK ==
    /\ smp \in BOOLEAN /\ irqoff \in BOOLEAN
    /\ \A t \in {"task", "isr"} : Len(todo[t]) \in 0 .. Len(Open)
    /\ op \in {"none", "open", "close", "mtu", "powerdown", "powerup", "suspend", "resume"}
    /\ lock \in {"none", "task", "isr"} /\ isr \in {"none", "same", "other"}
    /\ \A b \in {running, suspended, power_down, pmt, irq, polling, dma, rie, ri, rxready} :
          b \in BOOLEAN
    /\ \A b \in {txq, queue_stopped, phy, eee_enabled, eee_armed, lpien, lpi} : b \in BOOLEAN
    /\ ring \in {"none", "stale", "ready"} /\ napi \in {"off", "idle", "sched"}
    /\ queued \in 0 .. RingSize /\ sent \in 0 .. queued
    /\ count \in [ops : 0 .. NumOps, frames : 0 .. NumFrames, packets : 0 .. NumPackets]

\* napi_enable has a BUG_ON: it meets a napi structure that is off, whoever
\* powers the device up.
NapiPaired ==
    \A t \in DOMAIN todo : todo[t] # <<>> /\ Head(todo[t]) = "napi_enable" => napi = "off"

\* The transmit counters and the napi structure survive every operation.
CountsKept == TypeOK /\ NapiPaired

\* The poll, tx_interrupt and start_xmit walk the rings whenever they run: they
\* find nothing to do unless the rings are there and initialised.
RingsThere ==
    /\ napi = "sched" \/ polling => ring = "ready"
    /\ queued > 0 => ring = "ready"
    /\ txq /\ running => ring = "ready"

Settled == Idle /\ isr = "none"

Awake == running /\ ~power_down /\ ~suspended

\* Between two operations a device that is up and awake works, with its receive
\* interrupt enabled or the poll under way ...
UpWorks ==
    Settled /\ Awake =>
        /\ irq /\ dma /\ phy /\ ring = "ready"
        /\ napi # "off" /\ (rie \/ napi = "sched")
        /\ txq \/ queue_stopped

\* ... and one that is down or sleeps is silent: the DMA stopped, nobody polls,
\* the stack does not send, and a device that is down holds no memory or IRQ.
DownSilent ==
    /\ Settled /\ ~Awake => ~dma /\ ~phy /\ napi = "off" /\ ~(running /\ txq)
    /\ Settled /\ ~running => ring = "none" /\ ~irq /\ ~rie

\* drv.c:1506 "This function should reverse operations performed at open time":
\* after close the EEE timer that open started is not pending.
EeeTimerStopped == Settled /\ ~running => ~eee_armed

\* Every operation returns, in the process and in the service routine.
OpsReturn ==
    /\ op # "none" ~> op = "none"
    /\ isr # "none" ~> isr = "none"

\* No frame stays in the ring: it is read, or the ring is taken down.
FramesRead == rxready ~> ~rxready
=============================================================================
