# Verification of the DWC_ETH_QOS driver

TLA+ models of the Synopsys DWC Ethernet QoS driver in `src/temprepo`: the Linux
kernel driver (`kmod/`), the user mode driver of the AVB queues (`umod/`) and the
loops of the talker and listener that drive it (`example/`). Small instances are
model-checked with TLC; what matters most about the rings, the interrupt
masks and the memory of the AVB queues is proved with TLAPS for every instance.

Source files are named without directory and prefix below: `drv.c` is
`src/temprepo/kmod/DWC_ETH_QOS_drv.c`, `dev.c` and `desc.c` likewise, `umod drv.c`
is `src/temprepo/umod/DWC_ETH_QOS_drv.c`.

Contents: [the system](#1-the-system), [hard behaviour](#2-what-is-hard-about-it),
[modules](#3-the-modules), [model-checking runs](#4-what-the-runs-show),
[proofs](#5-what-is-proved), [disagreements found](#6-where-code-and-comments-disagree),
[limits](#7-not-modelled), [what could follow](#8-what-could-follow).

## 1. The system

A packet on its way out: the network stack calls `DWC_ETH_QOS_start_xmit`, which
counts the descriptors the packet needs, maps its buffers (`map_skb`) and fills
descriptors (`pre_transmit`). A transmit DMA channel reads the descriptors it
owns, sends the frame and clears OWN. `DWC_ETH_QOS_tx_interrupt`, called from the
poll routine and from a 2 ms timer, takes finished descriptors back, frees the
skbs and wakes the queue.

A packet on its way in: a receive channel writes it into the buffer of an armed
descriptor and reports RI. The interrupt service routine masks the receive
interrupts of all channels and schedules a napi structure; `DWC_ETH_QOS_poll_mq`
runs `clean_rx_irq` over every queue and re-enables the interrupts. The ring is
refilled by `re_alloc_skb`.

The last one or two channels can belong to user processes. These map
the descriptor rings and registers through a character device, fill and read the
rings themselves (`umod`), and sleep in the kernel on a semaphore that the service
routine releases.

| Component | State | Operations | What makes it correct |
|---|---|---|---|
| Transmit ring (`drv.c`, `desc.c`, `dev.c`) | descriptors, buffers, `cur_tx`, `dirty_tx`, `free_desc_cnt`, `tx_pkt_queued`, cached tag and MSS, queue state | `start_xmit`, `tx_interrupt` under `tx_lock`; DMA channel | counters agree with the ring, descriptors of the DMA are left alone, whole frames in order, skb freed once and after sending, a stopped queue is woken |
| Receive ring (`drv.c`, `desc.c`, `dev.c`) | descriptors, skbs, `cur_rx`, `dirty_rx`, `skb_realloc_idx`, time stamp switch | `clean_rx_irq`, `get_rx_hwtstamp`, `re_alloc_skb`; DMA channel | each good frame handed on once, in order, in an skb nobody else uses, with its own time stamp; descriptors re-armed only when read |
| Interrupts and NAPI (`drv.c`) | DMA_SR and DMA_IER per channel, napi structures | service routine, `poll_mq`, mask and unmask loops | no packet left behind, no interrupt left masked, one poll on a ring at a time |
| Jumbo and split-header receive (`drv.c`) | the receive ring, `skb_head`, locals of one poll | `clean_jumbo_rx_irq`, `clean_split_hdr_rx_irq` | a frame of several descriptors is put together from its own pieces |
| Open, close, restart (`drv.c`) | queues, timers, napi, rings | `open`, `close`, `start_dev`, `stop_dev`, `restart_dev` | nothing runs on a ring that is being torn down; a restart ends |
| Descriptor allocation (`desc.c`) | descriptor memory, buffer tables, skbs | `alloc_queue_struct`, `allocate_buffer_and_desc`, free functions | after a failure everything allocated is freed, once |
| Transmit coalescing timer (`drv.c`) | timer | `tx_timer` | descriptors are reclaimed without an interrupt |
| AVB character device (`avb.c`) | bit sets of mapped queues, list of user buffers, semaphores | `map_tx_desc`, `map_rx_desc`, `map_buf`, unmaps, `rx_getlock`, `rx_setlock`, `release_file` | what a process has mapped is allocated for it; no buffer outlives the last close, and the next process gets the descriptors a dead one left |
| User mode driver (`umod drv.c`) | rings of the AVB queues, pool of buffers, `pkt_present` | `attach`, `start_xmit`, `tx_buffer_cleanup`, `read`, `read_done`, `detach` | as for the kernel rings; a sleeping reader is woken |
| Energy efficient Ethernet (`eee.c`) | LPI state, timer | enter by timer, leave by `start_xmit`, link change | the transmitter is never in LPI with packets to send |
| Power management (`drv.c`, `pci.c`) | `power_down`, wake-up mode | `powerdown`, `powerup`, PMT interrupt, suspend, resume | balanced power transitions, no lock held twice |
| PHY and link (`mdio.c`) | link, speed, duplex cached | `adjust_link`, MDIO reads and writes | the MAC agrees with the PHY; busy waits end |
| PTP clock (`ptp.c`, `dev.c`) | addend, system time | adjust frequency and time, set time | arithmetic does not overflow; time moves as asked |
| Filters (`drv.c`) | perfect and hash tables, VLAN filter | `set_rx_mode`, VLAN ioctls | wanted addresses pass |
| FIFO, DCB, AVB, CBS set-up (`drv.c`, `umod drv.c`) | register values | size and credit calculations | sums fit the hardware |
| Private ioctls, ethtool (`drv.c`, `ethtool.c`) | settings | one command each | settings agree with the hardware |
| Packet generator (`pktgen.c`) | its own use of the rings | start, timer, stop | statistics add up |
| Register access, debugfs, device control functions, PCI probe, tools, scripts | registers | one field each; straight-line set-up | no state of their own; set-up in order, undone in reverse |
| Demo and example applications | sequence numbers, presentation times | talkers and listeners | streams stay in sequence |

The components share the rings (transmit, receive, restart, packet generator),
the interrupt enable registers (service routine, poll, user processes), `tx_lock`
(`start_xmit`, `tx_interrupt`) and, through the character device, descriptor
memory (kernel, user processes). Calls go from the stack and NAPI into the driver
and from the service routine to semaphores, NAPI and `restart_dev`.

## 2. What is hard about it

`PROJECT.json` lists the hazards line by line. In groups:

* **A DMA channel that takes no lock.** Every descriptor write is visible at once
  and the only agreement is the OWN bit. `pre_transmit` therefore sets OWN of the
  first descriptor last, and the receive poll may see a time stamp arrive late.
* **Counting in several places.** `get_total_desc_cnt`, `map_skb`, `start_xmit`
  and `pre_transmit` each work out for themselves how many descriptors a packet
  takes; `cur_rx`, `dirty_rx` and `skb_realloc_idx` are moved by three functions,
  one of which moves them back.
* **Limits.** Full transmit ring, receive ring out of buffers, budget and quota
  used up, 20 looks for a time stamp, allocation and mapping failures.
* **Cached knowledge of the hardware.** `vlan_tag_id` and `default_mss` say what
  the channel was last told; `pkt_present` says what a read left behind. One register,
  DMA_CR, holds the MSS of the whole channel and is written when a packet is prepared,
  not when the channel gets to it.
* **Interrupts that are cleared, masked and enabled by different contexts**, with
  read-modify-write sequences and one loop per channel.
* **Sleeping and waking.** Stopped queue, suspended DMA channel, sleeping process:
  each relies on one later event.
* **Going down and up.** Seven operations of the device, one of which the service
  routine also performs by itself, take apart what the interrupt, the poll, two
  timers and `start_xmit` use, and each of them stops a different part of it.
* **Frames that outlive a poll.** In jumbo and split-header mode a half-built skb
  waits in `skb_top` until a later poll finds the rest of its frame.
* **Processes that fail, die or meet.** What a user mode driver mapped must be
  given back by its own clean-up, by `release_file`, which gives back the data buffers
  only, or by the clean-up of a process that comes later.

## 3. The modules

| Module | Models | Uses |
|---|---|---|
| `TxFifo` | abstract transmit queue: accept, send, release in order | |
| `TxRing` | one transmit queue and its DMA channel | refines `TxFifo` |
| `TxRingProofs` | theorems about `TxRing` | |
| `RxFifo` | abstract receive queue: enter, deliver or discard in order | |
| `RxRing` | one kernel receive queue and its DMA channel | refines `RxFifo` |
| `RxRingProofs` | theorems about `RxRing` | |
| `RxChain` | one kernel receive queue in jumbo and split-header mode | |
| `RxChainProofs` | theorems about `RxChain` | |
| `Napi` | receive interrupts of all channels, service routine, polls on one or two CPUs | |
| `NapiProofs` | theorems about `Napi` | |
| `Device` | open, close, MTU, powerdown, powerup, suspend, resume, restart, wake-up and EEE against interrupts, poll and timers | |
| `DeviceProofs` | theorems about `Device` | |
| `AvbRx` | one user space receive queue, its reader, the service routine and the DMA channel | refines `RxFifo` |
| `AvbRxProofs` | theorems about `AvbRx`, the refinement among them | |
| `AvbTx` | one user space transmit queue, the talker and the DMA channel | refines `TxFifo` |
| `AvbTxProofs` | theorems about `AvbTx`, the refinement among them | |
| `AvbFile` | the character device and the attach and detach of the processes that use it | |
| `AvbFileProofs` | theorems about `AvbFile` | |
| `MC...` | packet shapes, frame kinds, CPUs and rules of the runs, one module for each of the above that is run | |

Definitions named "Mutant" in their comment are not part of a specification. Each
is the neighbouring definition with one plausible mistake in it, and the property
listed with it in `PROJECT.json` fails when it takes that definition's place.

### TxRing

`pc` is the holder of `tx_lock`: `start_xmit` and `tx_interrupt` exclude each
other, the DMA excludes nobody. What `start_xmit` does up to `map_skb` touches
only driver-private state under the lock, so it is one action per outcome
(`XmitReject`, `XmitBusy`, `XmitTsoFails`, `XmitMapFails`, `XmitMap`). From there
on each group of writes the channel can tell apart is a step: `PreVlan`,
`PreMss`, `PreFirst`, `PreRest`, `PreOwn`, `PreTail`. `PreRest` writes all the
descriptors after the first in one step; the channel cannot reach them before
`PreOwn`, so finer steps would show it nothing more. `CleanStart`, `CleanOne`,
`CleanEnd` are the loop of `tx_interrupt`.

A packet is a shape: pieces of its linear part, fragments, segment size, tag and
whether its header is cloned. `buf` records what was mapped where, so that the
frames on `wire` can be compared with the packets offered. `wire` and `fate` are
history the driver does not have.

The details of the code are kept where they look odd: one slot is kept for a
context descriptor although two may be written (`FirstSlot`); the MSS descriptor
is written through the pointer taken at entry (`PreMss`); the tag cache is
updated before the packet is known to fit (`CountDescs`); the second fragment
pointer of a pair uses the page of the first (`page2`).

`PreMss` also writes the MSS to the channel's DMA_CR (`dma_cr_mss`) at once, while
packets sent before are still in the ring. What the channel does with it is taken from
the comment at `dev.c:3461`: a segment size in a context descriptor holds for the
frame that follows, a TSO frame without one takes that of DMA_CR when the channel reads
its first descriptor (`FrameHead`). With `TagViaReg` (`tx_vlan_tag_via_reg` in the
driver) the tag goes to a register of the MAC and there is no context descriptor for it;
`vlan_tag_id` is then what the register holds.

### RxRing

The poll is `PollStart`, then one action for each kind of descriptor it meets
(`RxGood`, `RxBad`, `RxWantStamp` with `RxStamp` or `RxStampLate`), then `RxEnd`. It
starts when it is `due`: the channel has reported a frame, a time stamp or a missing
buffer, or the last poll used up its budget.
The refill is one step per descriptor (`RefillOne`), since the channel may use the
first refilled descriptor before the second is armed. `NextDescriptor` holds the
part of the loop that every turn ends with: `dirty_rx++`, a refill at the
threshold, then `cur_rx++`. `HwtstampIoctl` flips the time stamp switch at any
moment.

Descriptor bits have two meanings in this hardware: bit 30 of RDES3 is INTE in an
armed descriptor and CTXT in a written one. `Armed` and `WriteBack` keep that, so
a poll that forgets OWN takes an address for a time stamp. INTE is also why the channel
reports a time stamp (`StampIrq`): `rx_descriptor_reset` sets it on every descriptor
(`dev.c:3222-3247`). With a channel that does not, a frame put back for a late stamp
waits for the next frame.

`get_rx_hwtstamp` passes a NULL descriptor to `print_rx_tstamp_info`, which reads a
word through it (`drv.c:2154`, `2054`). What is read goes to debug output only, so a
compiler may drop the read. Both outcomes are in the model: `RxStampOops` ends the poll, and
the softirq with it, in the state "oops"; `RxWantStamp` goes on. Safety holds whatever
happens. That a frame is handed on is said of polls that did not die (`FramesHandedOn`),
and that a time stamp gets through at all is what `MCRxRing_stamp_oops.cfg` refutes.

The channel suspends at a descriptor it does not own, and may suspend at the tail
pointer or run past it: the driver writes the last armed descriptor there, and
the properties hold for both readings. `lost` is a history variable; it counts
descriptors left behind by failed refills and bounds them by `MaxLost`.

### Napi

Two contexts write DMA_IER: the service routine and the poll. A bit is written by
reading the register, changing the bit and writing it back, two steps here
(`IsrMask`, `Enable`). With one CPU the service routine interrupts a poll between
any two steps (`CpuRuns`); with two, polls and the service routine run side by
side. Packets are counters. `napi` has one state per structure:
idle, between `napi_schedule_prep` and `__napi_schedule` ("prep"), scheduled,
running. A poll that used its budget goes back on the list, any other completes.
Interrupt sources that the driver never masks are one bit, `OTHER`.

### AvbRx

The reader is a loop of `DWC_ETH_QOS_read` and `DWC_ETH_QOS_read_done`, as
`example/simple_listener.c` has it. `ReadCall` enables the receive interrupt
and goes to sleep, unless `pkt_present`; `ReadWoken` or `ReadSignal` end the
sleep. One step is taken per descriptor read and per descriptor armed. The service
routine clears the interrupt, masks it and releases the semaphore in three steps.
The register writes are single steps here: reader and service routine change the
same one bit of the register, so a read-modify-write has the effect of its last
access.

The channel suspends at the tail pointer, as `start_xmit` of the same driver
relies on when it writes the first descriptor that is not the channel's.

### AvbTx

The talker of `example/simple_talker.c`: it takes a packet from its free list,
sends it (`Xmit` up to the OWN bit, `Trigger` for the tail pointer and the
counters), and calls `tx_buffer_cleanup` when there is no packet or no descriptor
left (`XmitRefused`). The clean-up is one step per packet (`CleanPacket`), since
the channel gives descriptors back meanwhile; `Reuse` puts the packets back on
the list. After a signal (`Interrupt`) the talker drains the ring (`Drain`) and
releases its buffer. Details kept: a clean-up that returns as many packets as
EINVAL is a number is taken for a failure; one that finds nothing queued returns
-1; detaching does not stop the channel. `place` and `content` are history: where
the data of each send is, for the refinement of `TxFifo`.

### Device

Each operation is the sequence of the calls its function makes (`Open`, `Close`,
`ChangeMtu`, `Powerdown`, `Powerup`, `Restart`), and a step performs the first
call that is left (`Call`). The process performs one operation after another; the
service routine performs `Powerup` at a wake-up packet and `Restart` at a bus
error, on the same CPU, where the process then stands still, or on another.
`napi_disable` waits for the poll, and a spin lock for its holder, by a call that
cannot be made yet. Rings, registers and queues are one flag or counter each:
the question is who uses what while it is being taken down.

The driver relies on its users for more than it says. The seven `Rules` are
what it does not check; each is a constraint on the environment, named where it
is used, and section 6 lists what happens without each.

### RxChain

The poll takes one descriptor per step: `RxBad`, `RxFirst` and `RxMiddle` for a
frame of several, `RxGood` for the last or only one, `RxLate` for a time stamp
that is not there yet. A refill allocates per descriptor the parts that are
missing (`Missing`) and may fail after some of them. `Restart` frees all of it,
`skb_top` included, and may change the mode. `pages` and `skbs` hold which part
of which frame is where, so that what the stack reads can be compared with what
came. Lengths are in units of 1024 bytes and computed modulo `U16`, as the `u16`
of the driver. A frame is copied only if its skb has room for it (`Copied`): an skb that comes
back for a late time stamp has less.

### AvbFile

The kernel's side (`tx_avb_queue`, `rx_avb_queue`, descriptor memory, the list
`ubuff`) and what each process believes it has (`has`). An ioctl is one step,
except `MAP_BUF`, which sleeps in the allocation with its entry on the list
already (`MapBuf`, then `MapBufDone` or `MapBufFails`). `WithoutOwner` and
`WithoutMem` remove the first match from the list, as the driver's loop does.
`Release` is `release_file`, called by `Close` and by the death of a process
(`Crash`) at any place outside an ioctl.

`Release` frees the data buffers and nothing else. Its loop over the transmit queues
(`avb.c:628`) runs from `tx_avb_q_idx` to `tx_queue_cnt`, and `DWC_ETH_QOS_pci.c:136-137`,
`181` and `186-187` set both to `max_tx_queue_cnt - 2` whenever there are the three
queues the user driver asks for. What a dead process leaves is taken back by the
processes after it: the first attach is refused at its transmit descriptors and unmaps
those of all queues, the second is refused at its receive descriptors and unmaps these,
and the third succeeds. An application that gets no buffer ends without detaching
(`MapBufFails`), and one may detach or die with its channels running, as the examples do.

The kernel looks at no owner: the one rule of use, `one_user`, says that one process at
a time has the file open.

## 4. What the runs show

Ten runs pass:

| Run | Instance | Distinct states | Shows |
|---|---|---|---|
| `tx_safety` | 5 descriptors, 3 packets of 8 shapes, allocation and mapping failures | 398 623 | types, counters, ownership (`RingKept`: `TypeOK`, `Accounting`, `OwnedInFlight`), no descriptor of the DMA is touched (`OwnedUntouched`), frames complete, unchanged, with a segment size that is not out of date (`FramesRight`), skbs held once (`HeldOnce`), refinement of `TxFifo` |
| `tx_live` | 5 descriptors, 3 packets of 3 shapes, tags in the MAC register | 10 117 | every packet settles, a stopped queue is woken |
| `rx` | 4 descriptors, refill after 2, 3 frames of 6 kinds, 1 descriptor lost to a failed refill, polls by interrupt, an oops possible | 431 374 | indices agree (`RingKept`), skbs are written by the DMA or read by the stack, never both (`SkbsSafe`), time stamps are a frame's own (`StampRight`), descriptors taken have an skb (`TakenHasSkb`), refinement of `RxFifo`, every frame is handed on unless the poll died (`FramesHandedOn`) |
| `chain` | 4 descriptors, refill after 2, 2 frames of 8 kinds, both modes, 1 restart, 1 lost descriptor, 1 late time stamp | 204 833 | a half-built frame is the one the ring goes on with (`ChainKept`), no skb and no page in two places, nor twice in one (`PagesApart`), the stack reads every part of a frame (`WholeFrames`), good frames come once and in order, and none the poll has passed is left out (`InOrder`) |
| `one_cpu` | 2 channels, 1 CPU, budget 2, 4 packets, other interrupts | 144 405 | no poll passes its budget and no napi structure is lost (`NapiKept`), interrupts are enabled once polling ends (`RxNotDead`) |
| `one_queue` | 1 channel, 2 CPUs, 4 packets, a ring of 4 | 459 | no packet stranded, every packet taken |
| `device` | 5 operations, one or several CPUs, 2 frames, 2 packets, bus error, wake-up, EEE, all rules | 51 432 | counters and napi survive (`CountsKept`), rings are there for whoever walks them (`RingsThere`), up means working (`UpWorks`), down means silent (`DownSilent`), every operation returns, no frame stays |
| `avb_rx` | 4 descriptors, quota 2, 5 frames, 1 of them bad, 1 signal | 157 794 | indices agree, the list a read returns is intact until `read_done`, a reader asleep over a complete frame has a wake-up coming, every complete frame is read, refinement of `RxFifo` |
| `avb_tx` | 4 descriptors, 4 packets, 6 sends, EINVAL set to 2 | 3 219 | counters, ring and free list agree (`RingKept`), the buffer is idle when released (`BufferIdle`), the drain ends (`Stops`), refinement of `TxFifo` |
| `avb_file` | 2 processes, 2 queues, 2 deaths, 2 refused allocations | 8 379 | what is held is allocated for its holder (`MemoryKept`), no buffer outlives the last close (`NothingLost`), a detach or a refused attach leaves no transmit descriptors, whoever had them (`GivenBack`), the next process gets attached in the end (`AttachSucceeds`) |

Two runs, `vlan_retry` and `early_mss`, end in a counterexample, explained in
[section 6](#6-where-code-and-comments-disagree).

**Why the bounds suffice.** Behaviour depends on where a ring is full, empty or wraps,
not on its length. In `tx_safety` a packet takes one to five reserved descriptors of
five, so packets fit, almost fit and wait, and the third packet wraps around the ring.
With three packets the tag and MSS caches see a value set, kept and replaced, which is
also what `early_mss` takes. In `rx` four descriptors are twice the refill threshold,
three frames of up to two descriptors, with time stamp descriptors, go once round the
ring. In `chain` a frame takes one, two or three of four descriptors, so a quota of
two ends polls in the middle of it; frames dropped before the first delivered one or
after the last count too, so two frames are enough for `InOrder`. Four packets through
rings of two in `one_cpu` overflow them. `avb_rx` has more frames than descriptors,
`avb_tx` more sends than descriptors and an `EINVAL` that a clean-up can return (22 in
the driver, below its 512 descriptors too). Five operations in `device` are enough to
open, go down, come up, change something and close. In `avb_file` a process meets what
others left behind, after each of two deaths, also when an attach that was about to
take the descriptors back dies or is refused memory itself. Counters that only the
environment increases are bounded by constants named in the modules: `NumSkbs`,
`NumFrames`, `NumSends`, `NumOps`, `NumPackets`, `MaxArrivals`, `MaxSignals`,
`MaxLost`, `MaxBad`, `MaxRestarts`, `MaxLates`, `MaxCrashes`, `MaxFails`. The proofs
of section 5 remove the bounds, for the safety of all eight modules.

**What the instances leave out on purpose.** `MixedShapes` has no packet that needs
both a VLAN and an MSS context descriptor, `one_queue` has one channel, a ring that
never fills and no other interrupt source, `one_cpu` one CPU, `avb_rx` at most one
frame with an error, `chain` no late time stamp behind a chain, `rx` no other queue
and no other interrupt source, `device` follows its rules of use and `avb_file` rule
`one_user`. Outside these limits the code does not do what it says; section 6 shows
how.

**Deadlock.** The runs of `TxRing` and `AvbFile` check it: the timer and a process
that wants the device can always take a step. The runs of `RxRing`, `Napi`, `AvbRx`,
`AvbTx`, `Device` and `RxChain` switch it off: a poll that died of an oops stays
dead, and a receive queue without frames, a talker that has ended and a device after
its last operation rightly wait. That nobody waits for
ever in `Device` is `OpsReturn`.

**Fairness.** `TxRing`: `tx_lock` is a spin lock that both contenders get again
and again (strong fairness of `Xmit` and `CleanStart`), what runs under the lock
runs to its end, the 2 ms timer re-arms itself, a running DMA channel goes on.
`RxRing`: a poll that is due is called (the queue is alone, so what the channel reports
reaches it), a poll ends, a running channel goes on; nothing is assumed about frames or
the ioctl. `Napi`: an asserted interrupt line is
served and a scheduled napi structure is polled; packets arrive or do not.
`AvbRx`: the process keeps calling read, an interrupt is served, the channel
goes on; signals and frames come or do not. `AvbTx`: the process and the
channel go on; the signal comes or not. `Device`: a process, a service routine and
a poll that can run do, a receive interrupt is served; the timers, packets,
bus errors and wake-ups owe nothing. `AvbFile`: a process that wants the device
opens it, and an attach or detach that has begun goes on; nobody has to detach
and nobody has to die. `RxChain` states no liveness.

## 5. What is proved

`TxRingProofs`, for every value of the constants that meets `TxAssumption`:

* `TxTypeCorrect`, `TxAccountingCorrect`, `TxOwnedCorrect` and with them
  `TxRingKept`: `Spec => []RingKept`. `free_desc_cnt` is unsigned in the driver;
  that it never goes below zero is part of it.
* `TxHeldOnce`: an skb the driver holds is in one buffer of the window, and no
  buffer refers to one that was given back.
* `TxFramesRight`, `TxOwnedUntouched` and `TxImplementsFifo`, the refinement of
  `TxFifo`, under the explicit hypothesis `OneContext`: the tag goes to the register, or
  no packet that is not cloned needs both a VLAN and an MSS context descriptor.

`TxFramesRight` claims of the segment size what the driver gives: a TSO frame leaves
with its own, or with that of a TSO packet accepted after it, never with an earlier
packet's and never with none, although register and context descriptor are written
only when `default_mss` changes. That it leaves with its own is not true (run
`early_mss`).

The inductive invariant of the first group is `TxInv`: `TypeOK`, `Accounting`,
`OwnedWritten` and `Preparing`. `Accounting` alone is not inductive. While
`pre_transmit` runs, `cur_tx` lags behind the counters by `ToPass`, which depends on
the packet in hand, so `Preparing` says what the locals mean at each label; and that
the DMA owns only what was accepted needs the sharper `OwnedWritten`, that it owns
only what `pre_transmit` has passed. The key lemma, `ReservedCovers`, is that the
three ways of counting descriptors agree well enough: a packet uses at most what
was reserved for it.

What goes on the wire needs to know what the window contains, from `dirty_tx` to
`cur_tx`: `TxFrames` adds to `TxInv` that packets lie in it in the order of acceptance
(`Ordered`), each in a run of descriptors whose first, last and buffers are those of
its skb (`Laid`, `Chain`), and where the channel is (`RingAt`). For the segment size,
`Register` says that DMA_CR holds `default_mss` and that this fits every TSO packet
whose `PreMss` is past (`Settled`), `PartsSettled` that the channel reads no others,
`MssSaid` and `Latched` that a size in a context descriptor, or latched from one, is
that of the frame that follows, and `HeadRight` that the frame the channel is in the
middle of has a size that fits. `OneContext` is needed for all of it: `map_skb` keeps
one slot for a context descriptor, `pre_transmit` writes two and lays the data one
slot late, which `MCTxRing_two_contexts.cfg` shows.

`RxRingProofs`, for every value of the constants that meets `RxAssumption` and
`Bearable`, that is `MaxLost + MIN_RX_DESC_CNT < RX_DESC_CNT`:

* `RxTypeCorrect`, `RxWindowCorrect` and with them `RxRingKept`; `RxOwnedCorrect`,
  `RxSkbsCorrect`, `RxStackCorrect` and with them `RxSkbsSafe`; `RxTakenCorrect`.
* `RxStampRight`: no frame is given the time stamp of another, in builds where the
  poll survives the NULL pointer of `get_rx_hwtstamp`; in the others none gets any.
* `RxImplementsFifo`, the refinement of `RxFifo`: every frame is handed on once, in
  the order of arrival, or counted as bad.

The inductive invariant `RxInv` adds to the first group how many consumed descriptors
each place of the poll may leave (`Consumed`), that a consumed and not yet armed descriptor
is not the channel's while every other has an skb (`Window`), that skbs in the
ring were allocated (`Allocated`), and that an skb held while its time stamp is
awaited can be put back (`InHand`). Steps are grouped by what they do to
the window: a step takes its first slot or puts it back at the front
(`Takes`, `PutsBack`), arms a slot at the end (`Arms`) or leaves it (`Stays`);
each property is then proved once per group. `Bearable` is not a convenience:
`MCRxRing_lost_refills.cfg` shows what happens without it.

The order of frames needs `RxOrder`: counting places from the oldest descriptor the
poll has not consumed, the channel is at some place `at`; before it lie written
descriptors, from it on empty ones, and `LaidOut(at)` says that a descriptor with a
time stamp to follow has its context descriptor next or is the last (`Stamped`), that
complete frames lie in the order of arrival (`Rising`), and that a frame that is
neither delivered nor dropped is in the ring, half written, or waiting for its
stamp (`Located`, `Waiting`).

`RxChainProofs`, for every ring, page size, refill threshold, budget share, mix of
frames, failed refills and restarts with a change of mode:

* `ChainHeadKept`: `Spec => []ChainKept`.
* `PagesKeptApart`: an skb or page is in one buffer, in the chain or with the stack, and
  there once: not in two buffers, not as both pages of one buffer, not in two skbs and not
  twice in one; the skb of the chain is not one the stack has.
* `FramesWhole`, and `FramesInOrder`: the stack gets no bad frame, each good one at most
  once and in order, and every good frame before the one the poll is at was given to it or
  thrown away by a restart.

The four suppose the frames to be `Ordinary`: a header the DMA splits off is part of
its frame, a good frame fits three pages (the driver accepts an MTU of at most 9000
bytes, a page has 4096), a bad one has no time stamp, and where time stamps may be late
they belong to frames that are copied, small enough that the skb has room each time
the poll comes back to them. The kinds of run `chain` are ordinary. The last
condition is not a convenience: `MCRxChain_late_stamp.cfg` shows a chain whose stamp is
late.

The inductive invariant `ChainInv` has a part for the memory and a part for the stream
of parts in the ring. For the memory, `Stock` says that every descriptor the poll has
not passed has a full buffer, `Distinct` and `Apart` that nothing is in two buffers,
nor in a buffer and with the stack or the chain, and `Clean` that an skb in the ring
is empty unless its frame waits for a stamp. For the stream, `LaidOut` counts places
from the descriptor the poll comes to next (`Coming`); the channel is at some place
`at`, before it lie written descriptors, from it on empty ones (`Handed`). Place 0 has
what comes after the `t` frames and `n` parts the poll has taken; `n` parts are what
`skb_top` holds (`Collected`), the frames up to `t` are delivered, bad or gone
(`Settled`); and each place says what the next one has (`Linked`): the following part
of the frame, its time stamp, or the first part of the next frame, until the place of
the channel, which says the same of what the channel is about to write (`Channel`). A
descriptor and its buffers determine the part they hold (`Begun`, `BegunOnce`), so the
invariant needs no list of what was written. Each kind of descriptor then has a lemma
that says what its skb reads afterwards (`FirstSkb`, `MiddleSkb`, `WholeSkb`,
`ChainEndSkb`), and steps that leave the stream alone share one (`LaidKept`).

`NapiProofs`, for every number of channels and CPUs, budget and ring size:

* `NapiKeptAlways`: `Spec => []NapiKept`. Its invariant `NapiInv` is `TypeOK`,
  `NapiHeldOnce`, `WithinShares` (each queue is within its share of the budget in
  the poll at hand) and `OnePollEach` (a structure is polled by one CPU).
* `NapiRxNotDead`: on one CPU, `Spec => []RxNotDead`. It needs `ComesBack`: when no
  structure is scheduled and no CPU polls, all receive interrupts are enabled, and a
  CPU that is about to end its polls has enabled those of the channels it has passed.
  On two CPUs this does not hold.
* `NapiNoPacketStranded`: with one channel and no other interrupt (`Alone`), `Spec /\
  [][Fits]_vars => []NoPacketStranded`. `Fits` says that a packet finds room. The
  driver does not ensure it, and without it the claim is false: after a full ring the
  RBU interrupt is taken between the poll's two writes that enable RBU and RI, a
  second poll runs and ends on another CPU, the masks the two write back overlap, and
  the receive interrupt of a new packet is cleared by a service routine that finds it
  masked. `NapiFewPackets` has no such condition: the ring holds all the packets that
  come.
* `NapiOneCleaner`: with one channel no two polls work on the ring.

The invariant of the third is `HandedRound`: reception is with exactly one of the
service routine before its mask (`Watching`), in it (`Masking`), the napi structure
(`Told`), a poll that cleans (`Polling`) and one that enables (`Enabling`), and each
of them says which masks are set and which packets are already reported.

`DeviceProofs`, for any number of operations, frames and packets, any transmit ring,
on one CPU or several, and under the hypothesis `Careful`, that is all rules of use
but `up_power`:

* `DeviceCountsKept`, `DeviceRingsThere`, `DeviceUpWorks` and `DeviceDownSilent`:
  `Spec => []P` for each invariant of run `device`.

A device at rest is in one of three states (`Works`, `Sleeps`, `IsDown`), and none of
the four properties is inductive, because an operation leaves these states call
by call. `DeviceInv` says for each operation what holds before its k-th call
(`OpenAt(k)`, `CloseAt(k)`, `MtuAt(k)`, ...), that the process or the service routine
is at such a point and never both, and what the poll, the interrupt and `start_xmit`
may rely on at any time (`Traffic`). One lemma for each program shows that every
call finds what it needs and leaves the next predicate (`OpenStep`, ...); one for
each asynchronous step shows that it disturbs none of them (`MeanwhileCalm`). Section 6
shows what happens where one of the rules is dropped.

`AvbTxProofs`, for every value of the constants that meets `AvbTxAssumption`:

* `TalkerRingKept` and `TalkerBufferIdle`, and
* `TalkerImplementsFifo`: `Spec => ImplementsFifo`, the refinement of `TxFifo`.
  Initial states map to initial states; `Xmit`, the write-back of the channel and
  the release of a packet map to the three actions of the queue, everything else
  to stuttering.

`AvbTxInv` is `TypeOK`, `Counts` (the counters add up), `Window` (which slots hold
a packet and which of them are the channel's), `OnePlace` (no packet is in two
places), `NoneLost` (every packet is somewhere), `Order` (sends sit in the ring in
the order they were made, sent ones first) and `Stages` (what is known at each
label of the talker, such as that a failed clean-up left the ring empty).

`AvbRxProofs`, for every ring, quota and sequence of frames:

* `ReaderRingKept`, `ReaderListIntact` and `ReaderWakeUpPending`: `Spec /\ []FewBad`
  implies that the property holds always, and
* `ReaderImplementsFifo`: `Spec /\ []FewBad => ImplementsFifo`, the refinement of
  `RxFifo`.
* `GoodFramesOnly`: if `MaxBad = 0`, all four follow from `Spec` alone.

`FewBad` says that no single read meets more bad descriptors than the ring has
beside the quota. It is a condition on the traffic that the driver does not enforce: bad
descriptors are not counted against the quota, and a read that gets
all the way round the ring takes the descriptors it has consumed for new ones. The
instance of `avb_rx` meets it (one bad frame of two descriptors, four less two).
`AvbRxInv` is `TypeOK`, `Window` (consumed descriptors first, then written ones,
then the channel's), `Arrived`, `Contents` (a written descriptor tells what its
frame is), `InOrder` and `Located` (the written descriptors hold the complete
frames in the order of arrival, which makes the frame at `cur_rx` the oldest),
`List` and `Wake`. `Wake` needs more than the sleeping process: whenever a frame is
complete outside a read and `pkt_present` is not set, the interrupt is pending or
the service routine or the semaphore has it.

`AvbFileProofs`, for any processes, queues, deaths and failures:

* `FileMemoryKept`, `FileNothingLost` and `FileGivenBack` under rule `one_user`:
  `Spec => []P` for the three invariants of run `avb_file`.

`FileInv` is `TypeOK`, `OneUser`, `DescsAgree` and `BufsAgree` (kernel and process
have the same idea of what is mapped; the kernel may have descriptors of the dead
besides), `Progress` (what an attach has got so far) and `Giving` (which queues a detach
or a refused attach has already given back).

Only model-checked: liveness everywhere. The prover has no fairness reasoning
beyond propositional temporal logic.

## 6. Where code and comments disagree

Two runs end in a counterexample to what a comment says:

* `vlan_retry`: `get_total_desc_cnt` records a tag as told to the hardware before
  `start_xmit` knows whether the packet fits. After NETDEV_TX_BUSY the packet
  gets no context descriptor and leaves with an old tag.
* `early_mss`: a packet with the MSS of the one before gets no context descriptor,
  because DMA_CR holds its MSS (`dev.c:3461`). A third packet with another MSS has it
  overwritten (`dev.c:3463`) while the second is still in the ring, and the second is
  segmented with the MSS of the third.

Further configurations on disk end in a counterexample as well: the first three also to what
a comment says, the others document a limit of the runs above (`tlc -config MCX_name.cfg MCX`):

| Configuration | What happens |
|---|---|
| `MCRxRing_stamp_oops` | `get_rx_hwtstamp` says that it passes the time stamp to the stack (`drv.c:2116`); in a build that keeps the dead read of `drv.c:2054` the poll oopses on the first frame that has one |
| `MCRxChain_jumbo_length` | for each descriptor of a frame before the last, `clean_jumbo_rx_irq` adds `rx_buffer_len * 2` to the skb (`drv.c:3091-3094`); at the "end of the chain" it adds the rest of the frame, for which it subtracts only `rx_buffer_len` per descriptor (`3100-3101`): an skb over n descriptors is (n - 1) times `rx_buffer_len` longer than its frame |
| `MCAvbFile_file_release` | `release_file` is to "free descriptor memory of all used queue" (`avb.c:627`); its loop has no turn, and a process that dies leaves its descriptors |
| `MCTxRing_two_contexts` | a packet with a tag and a new segment size has one slot kept for two context descriptors; `pre_transmit` starts the data one slot late |
| `MCRxRing_lost_refills` | a failed refill resets `dirty_rx` all the same; after as many lost descriptors as the ring has, the poll takes one without skb |
| `MCNapi_lost_irq` | the service routine clears all of DMA_SR before it looks at what is enabled; an interrupt of another source during a poll wipes out the RI of a packet the poll has passed |
| `MCNapi_two_pollers` | `napi_schedule_prep` guards one napi structure, but each poll cleans every ring; on two CPUs two polls meet on one ring |
| `MCAvbRx_dead_tail` | `read_done` after a read that returned nothing points the tail at descriptor 0; if that is the channel's next descriptor, the channel stops with all the ring its own |
| `MCAvbTx_talker_einval` | the talker takes a clean-up of EINVAL packets for an error and gives up its drain with the channel at work |
| `MCRxChain_late_stamp` | a chain whose last descriptor waits for a time stamp is not the one the next poll goes on with |
| `MCDevice_mtu_down` | the MTU is changed while the device is down: `napi_disable` waits for ever |
| `MCDevice_close_asleep` | `close` or suspend after `powerdown` disables napi a second time and waits for ever |
| `MCDevice_undrained` | packets still queued when the device is taken down: the timer walks a ring that was freed |
| `MCDevice_wake_race` | a frame that arrives while the device goes down or comes up leaves its receive interrupt masked and nobody polls |
| `MCDevice_two_powerups` | a wake-up packet while `powerup` runs: napi is enabled twice |
| `MCDevice_smp_powerdown` | the ioctl takes the lock that `powerdown` takes again; it returns only where spin locks are empty, on one CPU |
| `MCDevice_bus_error` | `restart_dev` in the service routine waits for a poll that its own CPU has to run |
| `MCDevice_eee_timer` | the EEE timer is pending after `close` |
| `MCAvbFile_two_users` | a second process unmaps the first one's memory |
| `MCAvbFile_orphan_dma` | a detach without `DWC_ETH_QOS_exit`, as both examples do it, or the death of a process leaves channels running over memory that is freed: nobody stops them |

Others are noted with the hazards in `PROJECT.json`, modelled as the code does
them and left outside what the passing runs state: GSO packets with cloned
headers sent unsegmented, the page of a second fragment pointer, a queue that
used up its share of the budget, the masking of the "driver bug!" branch on two
CPUs, `pkt_present` that stays set, and a read that goes round a ring full of bad
frames.

## 7. Not modelled

**Within the modelled parts.** Memory ordering: descriptor writes take effect in
program order, which the code asks for with `wmb()` in places only. DMA mappings
are not counted (unmapping twice or never does not show). Checksum offload,
statistics, VLAN tags on receive, LRO and GRO, transmit time stamps and byte queue
limits are left out of the rings. One transmit and one receive queue are modelled;
queues share `tx_lock` and the interrupt registers, not rings, and the sharing of
the registers is what `Napi` is about. `Device` has one channel and no content of
rings. The hardware is modelled from how the driver uses it.

**Components.** `PROJECT.json` gives each its reason. In short:

* Register macros and debugfs, three quarters of the lines of the repository
  (`yregacc.h` twice, `debug_operation.c`), are generated: one accessor or one file
  per register field, no state, nothing that interleaves.
* Device control functions, ethtool, most private ioctls, filters, FIFO and DCB
  set-up write one register field or copy a table. What a component relies on is
  folded into its actions; a model of the rest would restate the assignment.
* The PTP clock and the credit calculations are formulas over 64-bit values. The
  integers of TLC have 32 bits, and the recurrences (addend against nanoseconds)
  lose their rounding, which is what could be wrong, when scaled down.
* PHY and link: `adjust_link` runs under the lock of the kernel's PHY layer with
  three cached values, and the MDIO accessors are busy waits.
* The packet generator is a test mode compiled in by an option, with copies
  of the ring routines.
* PCI probe and remove are straight lines of kernel calls; suspend and resume are
  in `Device`.
* The audio and video applications of `demo/`, the configuration tool and the
  scripts are I/O around the calls that the talker and the listener make.

## 8. What could follow

Theorems: that `RxChain` too implements `RxFifo`, for which the invariant has what is
needed; that lengths in split-header mode are right for frames of one descriptor.

Models: the allocation of the rings with a failure in the middle of it (the
hazard at `desc.c:372`), `Napi` with `RxRing` in place of its counters, and
several channels in `Device`.
