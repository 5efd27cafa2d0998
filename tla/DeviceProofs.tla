---------------------------- MODULE DeviceProofs ----------------------------
(***************************************************************************)
(* For any number of operations, frames and packets and any ring, and      *)
(* whether or not there are several CPUs: under the rules of use the       *)
(* transmit counters and the napi structure survive every operation, the   *)
(* rings are there for whoever walks them, an awake device works and one   *)
(* that is down or asleep is silent.                                       *)
(***************************************************************************)
EXTENDS Device, SequenceTheorems, TLAPS

\* One CPU or several: a powerdown by ioctl that blocks on its own lock on
\* several CPUs does no other harm.
Careful == AllRules \ {"up_power"} \subseteq Rules

-----------------------------------------------------------------------------
(* What every state keeps, whatever is going on.                           *)

Flags ==
    /\ smp \in BOOLEAN /\ irqoff \in BOOLEAN
    /\ running \in BOOLEAN /\ suspended \in BOOLEAN /\ power_down \in BOOLEAN /\ pmt \in BOOLEAN
    /\ irq \in BOOLEAN /\ polling \in BOOLEAN /\ dma \in BOOLEAN /\ rie \in BOOLEAN
    /\ ri \in BOOLEAN /\ rxready \in BOOLEAN /\ txq \in BOOLEAN /\ queue_stopped \in BOOLEAN
    /\ phy \in BOOLEAN /\ eee_enabled \in BOOLEAN /\ eee_armed \in BOOLEAN
    /\ lpien \in BOOLEAN /\ lpi \in BOOLEAN

Modes ==
    /\ op \in {"none", "open", "close", "mtu", "powerdown", "powerup", "suspend", "resume"}
    /\ lock \in {"none", "task", "isr"} /\ isr \in {"none", "same", "other"}
    /\ ring \in {"none", "stale", "ready"} /\ napi \in {"off", "idle", "sched"}

Counts ==
    /\ queued \in 0 .. RingSize /\ sent \in 0 .. queued
    /\ count \in [ops : 0 .. NumOps, frames : 0 .. NumFrames, packets : 0 .. NumPackets]

Types == Flags /\ Modes /\ Counts

\* A poll in progress, a reported frame and a queued packet need the rings; the
\* queue is stopped when the ring is full, and only then.
Traffic ==
    /\ polling => napi = "sched"
    /\ napi = "sched" => ring = "ready"
    /\ ri => ring = "ready"
    /\ queued > 0 => ring = "ready"
    /\ queue_stopped => queued = RingSize
    /\ txq => queued < RingSize

-----------------------------------------------------------------------------
(* The three states a device rests in.                                     *)

Receives == rie \/ napi = "sched"
Sends    == txq \/ queue_stopped

Works ==
    /\ running /\ ~suspended /\ ~power_down
    /\ irq /\ ring = "ready" /\ dma /\ phy
    /\ napi # "off" /\ Receives /\ Sends

\* Powered down by the ioctl, or by the driver for a system that sleeps.
Sleeps ==
    /\ running /\ (power_down <=> ~suspended)
    /\ irq /\ ring = "ready" /\ ~dma /\ ~phy
    /\ napi = "off" /\ ~ri /\ rie /\ ~txq /\ queued = 0

IsDown ==
    /\ ~running /\ ~suspended /\ ~power_down
    /\ ~irq /\ ring = "none" /\ ~dma /\ ~phy
    /\ napi = "off" /\ ~ri /\ ~rie /\ ~txq /\ queued = 0

-----------------------------------------------------------------------------
(* Between them: what holds before call k of each program.                 *)

Calls ==
    {"request_irq", "free_irq", "alloc", "free_mem", "skb_free", "desc_init", "default_confs",
     "napi_enable", "napi_disable", "hw_init", "hw_exit", "dma_start", "dma_stop", "tx_start",
     "tx_stop", "phy_start", "phy_stop", "pmt_on", "pmt_on_driver", "pmt_off", "eee_init",
     "eee_del", "lock", "unlock", "ioctl_lock", "ioctl_unlock"}

\* t has the calls from k on to make.
At(t, program, k) ==
    /\ k \in 1 .. Len(program) + 1
    /\ todo[t] = SubSeq(program, k, Len(program))

OpenAt(k) ==
    /\ At("task", Open, k)
    /\ running /\ ~suspended /\ ~power_down
    /\ irq <=> k > 1
    /\ ring = IF k <= 2 THEN "none" ELSE IF k <= 7 THEN "stale" ELSE "ready"
    /\ napi = "off" <=> k <= 4
    /\ IF k <= 8 THEN ~dma /\ ~ri ELSE dma /\ Receives
    /\ k <= 4 => ~rie
    /\ phy <=> k > 9
    /\ IF k <= 11 THEN ~txq /\ queued = 0 ELSE Sends

\* The allocation failed.
OpenFailed(k) ==
    /\ At("task", <<"free_irq">>, k)
    /\ ~running /\ ~suspended /\ ~power_down
    /\ irq <=> k = 1
    /\ ring = "none" /\ ~dma /\ ~phy
    /\ napi = "off" /\ ~ri /\ ~rie /\ ~txq /\ queued = 0

CloseAt(k) ==
    /\ At("task", Close, k)
    /\ ~running /\ ~suspended /\ ~power_down
    /\ irq <=> k <= 7
    /\ ring = IF k <= 6 THEN "ready" ELSE "none"
    /\ napi = "off" <=> k > 4
    /\ phy <=> k <= 2
    /\ k > 5 => ~dma /\ ~ri /\ ~rie
    /\ k > 3 => ~txq
    /\ queued = 0

MtuAt(k) ==
    /\ At("task", ChangeMtu, k)
    /\ running /\ ~suspended /\ ~power_down
    /\ irq /\ phy
    /\ ring = IF k \in 6 .. 8 THEN "stale" ELSE "ready"
    /\ napi = "off" <=> k \in 3 .. 7
    /\ dma <=> k <= 3 \/ k > 9
    /\ k \in 5 .. 9 => ~ri
    /\ k > 9 => Receives
    /\ IF k > 10 THEN txq ELSE k > 1 => ~txq
    /\ queued = 0

\* Before call j of Powerdown.
DescendsAt(j) ==
    /\ running
    /\ irq /\ ring = "ready"
    /\ phy <=> j <= 1
    /\ napi = "off" <=> j > 4
    /\ dma <=> j <= 5
    /\ ~ri /\ rie
    /\ j > 3 => ~txq
    /\ queued = 0

PowerdownAt(k) ==
    /\ At("task", Ioctl(Powerdown("ioctl")), k)
    /\ DescendsAt(k - 1)
    /\ ~suspended /\ (power_down <=> k > 7)

SuspendAt(k) ==
    /\ At("task", Powerdown("driver"), k)
    /\ DescendsAt(k)
    /\ suspended /\ ~power_down

\* Before call j of Powerup.
AscendsAt(j) ==
    /\ running /\ ~suspended
    /\ irq /\ ring = "ready"
    /\ phy <=> j > 3
    /\ dma <=> j > 4
    /\ napi = "off" <=> j <= 5
    /\ ~ri /\ rie
    /\ txq <=> j > 6
    /\ queued = 0

PowerupAt(k) ==
    /\ At("task", Ioctl(Powerup), k)
    /\ AscendsAt(k - 1)
    /\ power_down <=> k <= 3

ResumeAt(k) ==
    /\ At("task", Powerup, k)
    /\ AscendsAt(k)
    /\ ~power_down

WakeAt(k) ==
    /\ At("isr", Powerup, k)
    /\ AscendsAt(k)
    /\ power_down <=> k <= 2

\* The ioctl has nothing to do.
NothingAt(k, rests) ==
    /\ At("task", Ioctl(<<>>), k)
    /\ rests

RestartAt(k) ==
    /\ At("isr", Restart, k)
    /\ running /\ ~suspended /\ ~power_down
    /\ irq /\ phy
    /\ ring = IF k = 5 THEN "stale" ELSE "ready"
    /\ napi = "off" <=> k \in 3 .. 6
    /\ dma <=> k <= 3 \/ k > 7
    /\ ~ri /\ rie
    /\ IF k > 8 THEN txq ELSE k > 1 => ~txq
    /\ queued = 0

-----------------------------------------------------------------------------
(* The inductive invariant: the process, or the service routine, is at some *)
(* call of its program, never both.                                        *)

Rests ==
    /\ op = "none" /\ isr = "none" /\ todo["task"] = <<>> /\ todo["isr"] = <<>>
    /\ Works \/ Sleeps \/ IsDown

Operates ==
    /\ isr = "none" /\ todo["isr"] = <<>>
    /\ \E k \in 1 .. 12 :
        \/ op = "open" /\ (OpenAt(k) \/ OpenFailed(k))
        \/ op = "close" /\ CloseAt(k)
        \/ op = "mtu" /\ MtuAt(k)
        \/ op = "powerdown" /\ (PowerdownAt(k) \/ NothingAt(k, Sleeps /\ ~suspended))
        \/ op = "powerup" /\ (PowerupAt(k) \/ NothingAt(k, Works))
        \/ op = "suspend" /\ SuspendAt(k)
        \/ op = "resume" /\ ResumeAt(k)

Serves ==
    /\ op = "none" /\ todo["task"] = <<>> /\ isr # "none"
    /\ \E k \in 1 .. 9 : RestartAt(k) \/ WakeAt(k)

DeviceInv ==
    /\ todo \in [{"task", "isr"} -> Seq(Calls)]
    /\ Types
    /\ Traffic
    /\ Rests \/ Operates \/ Serves

-----------------------------------------------------------------------------
(* What a call does, by its name.                                          *)

Effect(c) ==
    /\ UNCHANGED <<smp, op, isr, running, suspended, polling, count>>
    /\ irq' <=> c = "request_irq" \/ (irq /\ c # "free_irq")
    /\ ring' = IF c \in {"alloc", "skb_free"} THEN "stale"
               ELSE IF c = "free_mem" THEN "none"
               ELSE IF c = "desc_init" THEN "ready" ELSE ring
    /\ power_down' <=> c = "pmt_on" \/ (power_down /\ c \notin {"default_confs", "pmt_off"})
    /\ napi' = IF c = "napi_enable" THEN "idle" ELSE IF c = "napi_disable" THEN "off" ELSE napi
    /\ c = "napi_disable" => napi = "idle"
    /\ dma' <=> c \in {"hw_init", "dma_start"} \/ (dma /\ c \notin {"hw_exit", "dma_stop"})
    /\ rie' <=> c = "hw_init" \/ (rie /\ c # "hw_exit")
    /\ ri' <=> ri /\ c \notin {"hw_init", "hw_exit"}
    /\ txq' <=> c = "tx_start" \/ (txq /\ c # "tx_stop")
    /\ phy' <=> c = "phy_start" \/ (phy /\ c # "phy_stop")
    /\ IF c = "desc_init" THEN queued' = 0 /\ sent' = 0 /\ queue_stopped' = FALSE
                          ELSE UNCHANGED <<queued, sent, queue_stopped>>

\* t makes its first call.
Performs(t) ==
    /\ todo[t] # <<>>
    /\ todo' = [todo EXCEPT ![t] = Tail(@)]
    /\ Effect(Head(todo[t]))

\* A call that is made with the memory and the napi structure as it needs them.
Safe(c) ==
    /\ c = "napi_enable" => napi = "off"
    /\ c \in {"alloc", "free_mem", "skb_free"} => napi # "sched" /\ ~ri /\ queued = 0
    /\ c = "tx_start" => queued = 0

LEMMA CallPerforms ==
    ASSUME NEW t \in {"task", "isr"}, Call(t)
    PROVE  Performs(t) \/ AllocFails(t)
<1>1. CASE Lock(t)
  BY <1>1 DEF Lock, Proceeds, Does, Performs, Effect, cpu, power, rx, tx, eee
<1>2. CASE Unlock(t)
  BY <1>2 DEF Unlock, Proceeds, Does, Performs, Effect, cpu, power, rx, tx, eee
<1>3. CASE RequestIrq(t)
  BY <1>3 DEF RequestIrq, Proceeds, Does, Performs, Effect, cpu, power, rx, tx, eee
<1>4. CASE FreeIrq(t)
  BY <1>4 DEF FreeIrq, Proceeds, Does, Performs, Effect, cpu, power, rx, tx, eee
<1>5. CASE Alloc(t)
  BY <1>5 DEF Alloc, Proceeds, Does, Performs, Effect, cpu, power, rx, tx, eee
<1>7. CASE FreeMem(t)
  BY <1>7 DEF FreeMem, Proceeds, Does, Performs, Effect, cpu, power, rx, tx, eee
<1>8. CASE SkbFree(t)
  BY <1>8 DEF SkbFree, Proceeds, Does, Performs, Effect, cpu, power, rx, tx, eee
<1>9. CASE DescInit(t)
  BY <1>9 DEF DescInit, Proceeds, Does, Performs, Effect, cpu, power, rx, tx, eee
<1>10. CASE DefaultConfs(t)
  BY <1>10 DEF DefaultConfs, Proceeds, Does, Performs, Effect, cpu, power, rx, tx, eee
<1>11. CASE NapiEnable(t)
  BY <1>11 DEF NapiEnable, Proceeds, Does, Performs, Effect, cpu, power, rx, tx, eee
<1>12. CASE NapiDisable(t)
  BY <1>12 DEF NapiDisable, Proceeds, Does, Waits, Performs, Effect, cpu, power, rx, tx, eee
<1>13. CASE HwExit(t)
  BY <1>13 DEF HwExit, Proceeds, Does, Performs, Effect, cpu, power, rx, tx, eee
<1>14. CASE HwInit(t)
  BY <1>14 DEF HwInit, Proceeds, Does, Performs, Effect, cpu, power, rx, tx, eee
<1>15. CASE DmaStartStop(t)
  BY <1>15 DEF DmaStartStop, Proceeds, Does, Performs, Effect, cpu, power, rx, tx, eee
<1>16. CASE TxStartStop(t)
  BY <1>16 DEF TxStartStop, Proceeds, Does, Performs, Effect, cpu, power, rx, tx, eee
<1>17. CASE PhyStartStop(t)
  BY <1>17 DEF PhyStartStop, Proceeds, Does, Performs, Effect, cpu, power, rx, tx, eee
<1>18. CASE PmtOn(t)
  BY <1>18 DEF PmtOn, Proceeds, Does, Performs, Effect, cpu, power, rx, tx, eee
<1>19. CASE PmtOff(t)
  BY <1>19 DEF PmtOff, Proceeds, Does, Performs, Effect, cpu, power, rx, tx, eee
<1>20. CASE EeeInit(t)
  BY <1>20 DEF EeeInit, Proceeds, Does, Performs, Effect, cpu, power, rx, tx, eee
<1>21. CASE EeeDel(t)
  BY <1>21 DEF EeeDel, Proceeds, Does, Performs, Effect, cpu, power, rx, tx, eee
<1> QED
  BY <1>1, <1>2, <1>3, <1>4, <1>5, <1>7, <1>8, <1>9, <1>10, <1>11, <1>12, <1>13, <1>14, <1>15, <1>16, <1>17, <1>18, <1>19, <1>20, <1>21 DEF Call

LEMMA CallFlags ==
    ASSUME Flags, NEW t \in {"task", "isr"}, Call(t)
    PROVE  Flags'
<1>1. CASE Lock(t)
  <2>1. irqoff' \in BOOLEAN
    BY <1>1 DEF Lock, Flags
  <2> QED
    BY <1>1, <2>1 DEF Lock, cpu, power, rx, tx, eee, Flags
<1>2. CASE Unlock(t)
  <2>1. irqoff' \in BOOLEAN
    BY <1>2 DEF Unlock, Flags
  <2>2. UNCHANGED <<smp, isr, power, rx, tx, eee, ring, dma, phy>>
    BY <1>2 DEF Unlock
  <2> QED
    BY <2>1, <2>2 DEF power, rx, tx, eee, Flags
<1>3. CASE RequestIrq(t)
  <2>1. irq' \in BOOLEAN
    BY <1>3 DEF RequestIrq, Flags
  <2> QED
    BY <1>3, <2>1 DEF RequestIrq, cpu, power, rx, tx, eee, Flags
<1>4. CASE FreeIrq(t)
  <2>1. irq' \in BOOLEAN
    BY <1>4 DEF FreeIrq, Flags
  <2> QED
    BY <1>4, <2>1 DEF FreeIrq, cpu, power, rx, tx, eee, Flags
<1>5. CASE Alloc(t)
  BY <1>5 DEF Alloc, cpu, power, rx, tx, eee, Flags
<1>6. CASE AllocFails(t)
  <2>1. running' \in BOOLEAN
    BY <1>6 DEF AllocFails, Flags
  <2> QED
    BY <1>6, <2>1 DEF AllocFails, cpu, power, rx, tx, eee, Flags
<1>7. CASE FreeMem(t)
  <2>1. rxready' \in BOOLEAN
    BY <1>7 DEF FreeMem, Flags
  <2> QED
    BY <1>7, <2>1 DEF FreeMem, cpu, power, rx, tx, eee, Flags
<1>8. CASE SkbFree(t)
  <2>1. rxready' \in BOOLEAN
    BY <1>8 DEF SkbFree, Flags
  <2> QED
    BY <1>8, <2>1 DEF SkbFree, cpu, power, rx, tx, eee, Flags
<1>9. CASE DescInit(t)
  <2>1. rxready' \in BOOLEAN /\ queue_stopped' \in BOOLEAN
    BY <1>9 DEF DescInit, Flags
  <2> QED
    BY <1>9, <2>1 DEF DescInit, cpu, power, rx, tx, eee, Flags
<1>10. CASE DefaultConfs(t)
  <2>1. power_down' \in BOOLEAN
    BY <1>10 DEF DefaultConfs, Flags
  <2> QED
    BY <1>10, <2>1 DEF DefaultConfs, cpu, power, rx, tx, eee, Flags
<1>11. CASE NapiEnable(t)
  BY <1>11 DEF NapiEnable, cpu, power, rx, tx, eee, Flags
<1>12. CASE NapiDisable(t)
  BY <1>12 DEF NapiDisable, cpu, power, rx, tx, eee, Flags
<1>13. CASE HwExit(t)
  <2>1. dma' \in BOOLEAN /\ rie' \in BOOLEAN /\ ri' \in BOOLEAN /\ pmt' \in BOOLEAN /\ lpien' \in BOOLEAN
    BY <1>13 DEF HwExit, Flags
  <2> QED
    BY <1>13, <2>1 DEF HwExit, cpu, power, rx, tx, eee, Flags
<1>14. CASE HwInit(t)
  <2>1. dma' \in BOOLEAN /\ rie' \in BOOLEAN /\ ri' \in BOOLEAN /\ pmt' \in BOOLEAN /\ lpien' \in BOOLEAN
    BY <1>14 DEF HwInit, Flags
  <2> QED
    BY <1>14, <2>1 DEF HwInit, cpu, power, rx, tx, eee, Flags
<1>15. CASE DmaStartStop(t)
  <2>1. dma' \in BOOLEAN
    BY <1>15 DEF DmaStartStop, Flags
  <2> QED
    BY <1>15, <2>1 DEF DmaStartStop, cpu, power, rx, tx, eee, Flags
<1>16. CASE TxStartStop(t)
  <2>1. txq' \in BOOLEAN
    BY <1>16 DEF TxStartStop, Flags
  <2> QED
    BY <1>16, <2>1 DEF TxStartStop, cpu, power, rx, tx, eee, Flags
<1>17. CASE PhyStartStop(t)
  <2>1. phy' \in BOOLEAN
    BY <1>17 DEF PhyStartStop, Flags
  <2> QED
    BY <1>17, <2>1 DEF PhyStartStop, cpu, power, rx, tx, eee, Flags
<1>18. CASE PmtOn(t)
  <2>1. pmt' \in BOOLEAN /\ power_down' \in BOOLEAN
    BY <1>18 DEF PmtOn, Flags
  <2> QED
    BY <1>18, <2>1 DEF PmtOn, cpu, power, rx, tx, eee, Flags
<1>19. CASE PmtOff(t)
  <2>1. pmt' \in BOOLEAN /\ power_down' \in BOOLEAN
    BY <1>19 DEF PmtOff, Flags
  <2> QED
    BY <1>19, <2>1 DEF PmtOff, cpu, power, rx, tx, eee, Flags
<1>20. CASE EeeInit(t)
  <2>1. eee_enabled' \in BOOLEAN /\ eee_armed' \in BOOLEAN
    BY <1>20 DEF EeeInit, Flags
  <2> QED
    BY <1>20, <2>1 DEF EeeInit, cpu, power, rx, tx, eee, Flags
<1>21. CASE EeeDel(t)
  <2>1. eee_armed' \in BOOLEAN
    BY <1>21 DEF EeeDel, Flags
  <2> QED
    BY <1>21, <2>1 DEF EeeDel, cpu, power, rx, tx, eee, Flags
<1> QED
  BY <1>1, <1>2, <1>3, <1>4, <1>5, <1>6, <1>7, <1>8, <1>9, <1>10, <1>11, <1>12, <1>13, <1>14, <1>15, <1>16, <1>17, <1>18, <1>19, <1>20, <1>21 DEF Call

LEMMA CallLock ==
    ASSUME Modes, NEW t \in {"task", "isr"}, Call(t)
    PROVE  lock' \in {"none", "task", "isr"}
BY DEF Call, cpu, Modes, Lock, Unlock, RequestIrq, FreeIrq, Alloc, AllocFails, FreeMem, SkbFree, DescInit, DefaultConfs, NapiEnable, NapiDisable, HwExit, HwInit, DmaStartStop, TxStartStop, PhyStartStop, PmtOn, PmtOff, EeeInit, EeeDel

LEMMA CallTypes ==
    ASSUME Types, NEW t \in {"task", "isr"}, Call(t)
    PROVE  Types'
<1>1. Flags'
  BY CallFlags DEF Types
<1>2. CASE Performs(t)
  <2>1. Modes'
    BY <1>2, CallLock DEF Types, Performs, Effect, Modes
  <2>2. Counts'
    BY <1>2, DeviceAssumption DEF Types, Performs, Effect, Counts
  <2> QED
    BY <1>1, <2>1, <2>2 DEF Types
<1>3. CASE AllocFails(t)
  BY <1>1, <1>3 DEF AllocFails, Does, cpu, rx, tx, eee, Types, Modes, Counts
<1> QED
  BY <1>2, <1>3, CallPerforms

LEMMA CallTraffic ==
    ASSUME Types, Traffic, NEW c, Effect(c), Safe(c)
    PROVE  Traffic'
BY DeviceAssumption DEF Types, Counts, Flags, Traffic, Effect, Safe

-----------------------------------------------------------------------------
(* The programs.                                                           *)

LEMMA IoctlIs ==
    ASSUME NEW body \in Seq(Calls)
    PROVE  /\ Ioctl(body) \in Seq(Calls) /\ Len(Ioctl(body)) = Len(body) + 2
           /\ Ioctl(body)[1] = "ioctl_lock"
           /\ \A i \in 1 .. Len(body) : Ioctl(body)[i + 1] = body[i]
           /\ Ioctl(body)[Len(body) + 2] = "ioctl_unlock"
<1> DEFINE a == <<"ioctl_lock">>
           b == <<"ioctl_unlock">>
           u == a \o body
<1>1. a \in Seq(Calls) /\ Len(a) = 1 /\ a[1] = "ioctl_lock"
      /\ b \in Seq(Calls) /\ Len(b) = 1 /\ b[1] = "ioctl_unlock"
      /\ Len(body) \in Nat
  BY DEF Calls
<1> HIDE DEF a, b
<1>2. u \in Seq(Calls) /\ Len(u) = Len(body) + 1
      /\ \A i \in 1 .. 1 + Len(body) : u[i] = IF i <= 1 THEN a[i] ELSE body[i - 1]
  BY <1>1, ConcatProperties
<1> HIDE DEF u
<1>3. u \o b \in Seq(Calls) /\ Len(u \o b) = Len(body) + 2
      /\ \A i \in 1 .. Len(body) + 2 : (u \o b)[i] = IF i <= Len(body) + 1 THEN u[i] ELSE b[i - (Len(body) + 1)]
  <2>1. u \o b \in Seq(Calls) /\ Len(u \o b) = Len(u) + Len(b)
        /\ \A i \in 1 .. Len(u) + Len(b) : (u \o b)[i] = IF i <= Len(u) THEN u[i] ELSE b[i - Len(u)]
    BY <1>1, <1>2, ConcatProperties
  <2> QED
    BY <1>1, <1>2, <2>1
<1>4. Ioctl(body) = u \o b
  BY DEF Ioctl, a, b, u
<1>5. (u \o b)[1] = "ioctl_lock"
  BY <1>1, <1>2, <1>3
<1>6. \A i \in 1 .. Len(body) : (u \o b)[i + 1] = body[i]
  BY <1>1, <1>2, <1>3
<1>7. (u \o b)[Len(body) + 2] = "ioctl_unlock"
  BY <1>1, <1>2, <1>3
<1> QED
  BY <1>3, <1>4, <1>5, <1>6, <1>7

LEMMA ProgramsAre ==
    /\ Open \in Seq(Calls) /\ Len(Open) = 11
    /\ Close \in Seq(Calls) /\ Len(Close) = 7
    /\ ChangeMtu \in Seq(Calls) /\ Len(ChangeMtu) = 10
    /\ Restart \in Seq(Calls) /\ Len(Restart) = 8
    /\ Powerup \in Seq(Calls) /\ Len(Powerup) = 7
    /\ Powerdown("ioctl") \in Seq(Calls) /\ Len(Powerdown("ioctl")) = 7
    /\ Powerdown("driver") \in Seq(Calls) /\ Len(Powerdown("driver")) = 7
    /\ Ioctl(<<>>) \in Seq(Calls) /\ Len(Ioctl(<<>>)) = 2
    /\ Ioctl(Powerup) \in Seq(Calls) /\ Len(Ioctl(Powerup)) = 9
    /\ Ioctl(Powerdown("ioctl")) \in Seq(Calls) /\ Len(Ioctl(Powerdown("ioctl"))) = 9
    /\ <<"free_irq">> \in Seq(Calls) /\ Len(<<"free_irq">>) = 1
<1>1. Open \in Seq(Calls) /\ Len(Open) = 11
  BY DEF Open, Calls
<1>2. Close \in Seq(Calls) /\ Len(Close) = 7
  BY DEF Close, Calls
<1>3. ChangeMtu \in Seq(Calls) /\ Len(ChangeMtu) = 10
  BY DEF ChangeMtu, Calls
<1>4. Restart \in Seq(Calls) /\ Len(Restart) = 8
  BY DEF Restart, Calls
<1>5. Powerup \in Seq(Calls) /\ Len(Powerup) = 7
  BY DEF Powerup, Calls
<1>6. Powerdown("driver") \in Seq(Calls) /\ Len(Powerdown("driver")) = 7
      /\ Powerdown("ioctl") \in Seq(Calls) /\ Len(Powerdown("ioctl")) = 7
  BY DEF Powerdown, Calls
<1>7. Ioctl(<<>>) \in Seq(Calls) /\ Len(Ioctl(<<>>)) = 2
  <2>1. <<>> \in Seq(Calls) /\ Len(<<>>) = 0
    BY EmptySeq
  <2>2. Ioctl(<<>>) \in Seq(Calls) /\ Len(Ioctl(<<>>)) = Len(<<>>) + 2
    BY <2>1, IoctlIs
  <2> QED
    BY <2>1, <2>2
<1>8. Ioctl(Powerup) \in Seq(Calls) /\ Len(Ioctl(Powerup)) = 9
  <2>1. Len(Ioctl(Powerup)) = Len(Powerup) + 2 /\ Ioctl(Powerup) \in Seq(Calls)
    BY <1>5, IoctlIs
  <2> QED
    BY <1>5, <2>1
<1>9. Ioctl(Powerdown("ioctl")) \in Seq(Calls) /\ Len(Ioctl(Powerdown("ioctl"))) = 9
  <2> DEFINE p == Powerdown("ioctl")
  <2>1. p \in Seq(Calls) /\ Len(p) = 7
    BY <1>6
  <2> HIDE DEF p
  <2>2. Len(Ioctl(p)) = Len(p) + 2 /\ Ioctl(p) \in Seq(Calls)
    BY <2>1, IoctlIs
  <2>3. Len(Ioctl(p)) = 9
    BY <2>1, <2>2
  <2> QED
    BY <2>2, <2>3 DEF p
<1>10. <<"free_irq">> \in Seq(Calls) /\ Len(<<"free_irq">>) = 1
  BY DEF Calls
<1> QED
  BY <1>1, <1>2, <1>3, <1>4, <1>5, <1>6, <1>7, <1>8, <1>9, <1>10

LEMMA IoctlOfSeven ==
    ASSUME NEW p \in Seq(Calls), Len(p) = 7
    PROVE  /\ Ioctl(p)[1] = "ioctl_lock" /\ Ioctl(p)[9] = "ioctl_unlock"
           /\ Ioctl(p)[2] = p[1] /\ Ioctl(p)[3] = p[2] /\ Ioctl(p)[4] = p[3] /\ Ioctl(p)[5] = p[4]
           /\ Ioctl(p)[6] = p[5] /\ Ioctl(p)[7] = p[6] /\ Ioctl(p)[8] = p[7]
<1> DEFINE u == Ioctl(p)
<1>1. u[1] = "ioctl_lock" /\ u[Len(p) + 2] = "ioctl_unlock" /\ \A i \in 1 .. Len(p) : u[i + 1] = p[i]
  BY IoctlIs
<1> HIDE DEF u
<1>2. u[9] = "ioctl_unlock" /\ \A i \in 1 .. 7 : u[i + 1] = p[i]
  BY <1>1
<1>3. /\ u[2] = p[1] /\ u[3] = p[2] /\ u[4] = p[3] /\ u[5] = p[4] /\ u[6] = p[5] /\ u[7] = p[6]
      /\ u[8] = p[7]
  BY <1>2
<1> QED
  BY <1>1, <1>2, <1>3 DEF u

\* The calls of the ioctl, after its lock.
LEMMA IoctlPowerup ==
    /\ Ioctl(Powerup)[1] = "ioctl_lock" /\ Ioctl(Powerup)[2] = "lock"
    /\ Ioctl(Powerup)[3] = "pmt_off" /\ Ioctl(Powerup)[4] = "phy_start"
    /\ Ioctl(Powerup)[5] = "dma_start" /\ Ioctl(Powerup)[6] = "napi_enable"
    /\ Ioctl(Powerup)[7] = "tx_start" /\ Ioctl(Powerup)[8] = "unlock"
    /\ Ioctl(Powerup)[9] = "ioctl_unlock"
<1> DEFINE p == Powerup
<1>1. p \in Seq(Calls) /\ Len(p) = 7
  BY ProgramsAre
<1>2. /\ p[1] = "lock" /\ p[2] = "pmt_off" /\ p[3] = "phy_start" /\ p[4] = "dma_start"
      /\ p[5] = "napi_enable" /\ p[6] = "tx_start" /\ p[7] = "unlock"
  BY DEF Powerup
<1> HIDE DEF p
<1> QED
  BY <1>1, <1>2, IoctlOfSeven DEF p

LEMMA IoctlPowerdown ==
    LET p == Powerdown("ioctl") IN
    /\ Ioctl(p)[1] = "ioctl_lock" /\ Ioctl(p)[2] = "phy_stop" /\ Ioctl(p)[3] = "lock"
    /\ Ioctl(p)[4] = "tx_stop" /\ Ioctl(p)[5] = "napi_disable" /\ Ioctl(p)[6] = "dma_stop"
    /\ Ioctl(p)[7] = "pmt_on" /\ Ioctl(p)[8] = "unlock" /\ Ioctl(p)[9] = "ioctl_unlock"
<1> DEFINE p == Powerdown("ioctl")
<1>1. p \in Seq(Calls) /\ Len(p) = 7
  BY ProgramsAre
<1>2. /\ p[1] = "phy_stop" /\ p[2] = "lock" /\ p[3] = "tx_stop" /\ p[4] = "napi_disable"
      /\ p[5] = "dma_stop" /\ p[6] = "pmt_on" /\ p[7] = "unlock"
  BY DEF Powerdown
<1> HIDE DEF p
<1>3. /\ Ioctl(p)[1] = "ioctl_lock" /\ Ioctl(p)[2] = "phy_stop" /\ Ioctl(p)[3] = "lock"
      /\ Ioctl(p)[4] = "tx_stop" /\ Ioctl(p)[5] = "napi_disable" /\ Ioctl(p)[6] = "dma_stop"
      /\ Ioctl(p)[7] = "pmt_on" /\ Ioctl(p)[8] = "unlock" /\ Ioctl(p)[9] = "ioctl_unlock"
  BY <1>1, <1>2, IoctlOfSeven
<1> QED
  BY <1>3 DEF p

LEMMA AtFacts ==
    ASSUME NEW t \in {"task", "isr"}, NEW program \in Seq(Calls), NEW k, At(t, program, k)
    PROVE  /\ k \in 1 .. Len(program) + 1
           /\ todo[t] = <<>> <=> k = Len(program) + 1
           /\ todo[t] # <<>> =>
                 /\ k \in 1 .. Len(program)
                 /\ Head(todo[t]) = program[k]
                 /\ Tail(todo[t]) = SubSeq(program, k + 1, Len(program))
<1>1. Len(program) \in Nat /\ k \in 1 .. Len(program) + 1
      /\ todo[t] = SubSeq(program, k, Len(program))
  BY DEF At
<1>2. CASE k = Len(program) + 1
  <2>1. todo[t] = <<>>
    BY <1>1, <1>2, SubSeqEmpty
  <2> QED
    BY <1>1, <1>2, <2>1
<1>3. CASE k \in 1 .. Len(program)
  <2>1. Head(todo[t]) = program[k] /\ Tail(todo[t]) = SubSeq(program, k + 1, Len(program))
    BY <1>1, <1>3, HeadTailOfSubSeq
  <2>2. Len(todo[t]) = Len(program) - k + 1
    BY <1>1, <1>3, SubSeqProperties, ElementOfSeq
  <2>3. Len(todo[t]) # 0 /\ Len(<<>>) = 0
    BY <1>1, <1>3, <2>2, EmptySeq
  <2>4. todo[t] # <<>>
    BY <2>3
  <2> QED
    BY <1>1, <1>3, <2>1, <2>4
<1> QED
  BY <1>1, <1>2, <1>3

LEMMA AtNext ==
    ASSUME NEW t \in {"task", "isr"}, NEW program \in Seq(Calls), NEW k, At(t, program, k),
           todo \in [{"task", "isr"} -> Seq(Calls)], Performs(t)
    PROVE  /\ k \in 1 .. Len(program) /\ Effect(program[k])
           /\ Head(todo[t]) = program[k]
           /\ At(t, program, k + 1)'
<1>1. todo[t] # <<>> /\ Effect(Head(todo[t])) /\ todo'[t] = Tail(todo[t])
  BY DEF Performs
<1>2. k \in 1 .. Len(program) /\ Head(todo[t]) = program[k]
      /\ todo'[t] = SubSeq(program, k + 1, Len(program))
  BY <1>1, AtFacts
<1> QED
  BY <1>1, <1>2 DEF At

-----------------------------------------------------------------------------
(* Every call finds what the calls before it left.                          *)

\* drv.c:1416.
LEMMA OpenStep ==
    ASSUME todo \in [{"task", "isr"} -> Seq(Calls)], Types, Traffic, NEW k, OpenAt(k), Performs("task")
    PROVE  k \in 1 .. 11 /\ Safe(Head(todo["task"])) /\ OpenAt(k + 1)'
<1>1. /\ k \in 1 .. 11 /\ Effect(Open[k]) /\ Head(todo["task"]) = Open[k]
      /\ At("task", Open, k + 1)'
  BY AtNext, ProgramsAre DEF OpenAt
<1>2. CASE k = 1
  <2>1. Open[1] = "request_irq"
    BY DEF Open
  <2>2. Effect("request_irq") /\ Head(todo["task"]) = "request_irq" /\ At("task", Open, 2)'
    BY <1>1, <1>2, <2>1
  <2> QED
    BY <1>2, <2>2 DEF OpenAt, Effect, Safe, Receives, Sends, Traffic
<1>3. CASE k = 2
  <2>1. Open[2] = "alloc"
    BY DEF Open
  <2>2. Effect("alloc") /\ Head(todo["task"]) = "alloc" /\ At("task", Open, 3)'
    BY <1>1, <1>3, <2>1
  <2> QED
    BY <1>3, <2>2 DEF OpenAt, Effect, Safe, Receives, Sends, Traffic
<1>4. CASE k = 3
  <2>1. Open[3] = "default_confs"
    BY DEF Open
  <2>2. Effect("default_confs") /\ Head(todo["task"]) = "default_confs" /\ At("task", Open, 4)'
    BY <1>1, <1>4, <2>1
  <2> QED
    BY <1>4, <2>2 DEF OpenAt, Effect, Safe, Receives, Sends, Traffic
<1>5. CASE k = 4
  <2>1. Open[4] = "napi_enable"
    BY DEF Open
  <2>2. Effect("napi_enable") /\ Head(todo["task"]) = "napi_enable" /\ At("task", Open, 5)'
    BY <1>1, <1>5, <2>1
  <2> QED
    BY <1>5, <2>2 DEF OpenAt, Effect, Safe, Receives, Sends, Traffic
<1>6. CASE k = 5
  <2>1. Open[5] = "lock"
    BY DEF Open
  <2>2. Effect("lock") /\ Head(todo["task"]) = "lock" /\ At("task", Open, 6)'
    BY <1>1, <1>6, <2>1
  <2> QED
    BY <1>6, <2>2 DEF OpenAt, Effect, Safe, Receives, Sends, Traffic
<1>7. CASE k = 6
  <2>1. Open[6] = "unlock"
    BY DEF Open
  <2>2. Effect("unlock") /\ Head(todo["task"]) = "unlock" /\ At("task", Open, 7)'
    BY <1>1, <1>7, <2>1
  <2> QED
    BY <1>7, <2>2 DEF OpenAt, Effect, Safe, Receives, Sends, Traffic
<1>8. CASE k = 7
  <2>1. Open[7] = "desc_init"
    BY DEF Open
  <2>2. Effect("desc_init") /\ Head(todo["task"]) = "desc_init" /\ At("task", Open, 8)'
    BY <1>1, <1>8, <2>1
  <2> QED
    BY <1>8, <2>2 DEF OpenAt, Effect, Safe, Receives, Sends, Traffic
<1>9. CASE k = 8
  <2>1. Open[8] = "hw_init"
    BY DEF Open
  <2>2. Effect("hw_init") /\ Head(todo["task"]) = "hw_init" /\ At("task", Open, 9)'
    BY <1>1, <1>9, <2>1
  <2> QED
    BY <1>9, <2>2 DEF OpenAt, Effect, Safe, Receives, Sends, Traffic
<1>10. CASE k = 9
  <2>1. Open[9] = "phy_start"
    BY DEF Open
  <2>2. Effect("phy_start") /\ Head(todo["task"]) = "phy_start" /\ At("task", Open, 10)'
    BY <1>1, <1>10, <2>1
  <2> QED
    BY <1>10, <2>2 DEF OpenAt, Effect, Safe, Receives, Sends, Traffic
<1>11. CASE k = 10
  <2>1. Open[10] = "eee_init"
    BY DEF Open
  <2>2. Effect("eee_init") /\ Head(todo["task"]) = "eee_init" /\ At("task", Open, 11)'
    BY <1>1, <1>11, <2>1
  <2> QED
    BY <1>11, <2>2 DEF OpenAt, Effect, Safe, Receives, Sends, Traffic
<1>12. CASE k = 11
  <2>1. Open[11] = "tx_start"
    BY DEF Open
  <2>2. Effect("tx_start") /\ Head(todo["task"]) = "tx_start" /\ At("task", Open, 12)'
    BY <1>1, <1>12, <2>1
  <2> QED
    BY <1>12, <2>2 DEF OpenAt, Effect, Safe, Receives, Sends, Traffic
<1> QED
  BY <1>1, <1>2, <1>3, <1>4, <1>5, <1>6, <1>7, <1>8, <1>9, <1>10, <1>11, <1>12

\* drv.c:1493.
LEMMA OpenFailedStep ==
    ASSUME todo \in [{"task", "isr"} -> Seq(Calls)], Types, Traffic, NEW k, OpenFailed(k), Performs("task")
    PROVE  k \in 1 .. 1 /\ Safe(Head(todo["task"])) /\ OpenFailed(k + 1)'
<1>1. /\ k \in 1 .. 1 /\ Effect(<<"free_irq">>[k]) /\ Head(todo["task"]) = <<"free_irq">>[k]
      /\ At("task", <<"free_irq">>, k + 1)'
  BY AtNext, ProgramsAre DEF OpenFailed
<1>2. CASE k = 1
  <2>1. <<"free_irq">>[1] = "free_irq"
    OBVIOUS
  <2>2. Effect("free_irq") /\ Head(todo["task"]) = "free_irq" /\ At("task", <<"free_irq">>, 2)'
    BY <1>1, <1>2, <2>1
  <2> QED
    BY <1>2, <2>2 DEF OpenFailed, Effect, Safe, Receives, Sends, Traffic
<1> QED
  BY <1>1, <1>2

\* drv.c:1515.
LEMMA CloseStep ==
    ASSUME todo \in [{"task", "isr"} -> Seq(Calls)], Types, Traffic, NEW k, CloseAt(k), Performs("task")
    PROVE  k \in 1 .. 7 /\ Safe(Head(todo["task"])) /\ CloseAt(k + 1)'
<1>1. /\ k \in 1 .. 7 /\ Effect(Close[k]) /\ Head(todo["task"]) = Close[k]
      /\ At("task", Close, k + 1)'
  BY AtNext, ProgramsAre DEF CloseAt
<1>2. CASE k = 1
  <2>1. Close[1] = "eee_del"
    BY DEF Close
  <2>2. Effect("eee_del") /\ Head(todo["task"]) = "eee_del" /\ At("task", Close, 2)'
    BY <1>1, <1>2, <2>1
  <2> QED
    BY <1>2, <2>2 DEF CloseAt, Effect, Safe, Receives, Sends, Traffic
<1>3. CASE k = 2
  <2>1. Close[2] = "phy_stop"
    BY DEF Close
  <2>2. Effect("phy_stop") /\ Head(todo["task"]) = "phy_stop" /\ At("task", Close, 3)'
    BY <1>1, <1>3, <2>1
  <2> QED
    BY <1>3, <2>2 DEF CloseAt, Effect, Safe, Receives, Sends, Traffic
<1>4. CASE k = 3
  <2>1. Close[3] = "tx_stop"
    BY DEF Close
  <2>2. Effect("tx_stop") /\ Head(todo["task"]) = "tx_stop" /\ At("task", Close, 4)'
    BY <1>1, <1>4, <2>1
  <2> QED
    BY <1>4, <2>2 DEF CloseAt, Effect, Safe, Receives, Sends, Traffic
<1>5. CASE k = 4
  <2>1. Close[4] = "napi_disable"
    BY DEF Close
  <2>2. Effect("napi_disable") /\ Head(todo["task"]) = "napi_disable" /\ At("task", Close, 5)'
    BY <1>1, <1>5, <2>1
  <2> QED
    BY <1>5, <2>2 DEF CloseAt, Effect, Safe, Receives, Sends, Traffic
<1>6. CASE k = 5
  <2>1. Close[5] = "hw_exit"
    BY DEF Close
  <2>2. Effect("hw_exit") /\ Head(todo["task"]) = "hw_exit" /\ At("task", Close, 6)'
    BY <1>1, <1>6, <2>1
  <2> QED
    BY <1>6, <2>2 DEF CloseAt, Effect, Safe, Receives, Sends, Traffic
<1>7. CASE k = 6
  <2>1. Close[6] = "free_mem"
    BY DEF Close
  <2>2. Effect("free_mem") /\ Head(todo["task"]) = "free_mem" /\ At("task", Close, 7)'
    BY <1>1, <1>7, <2>1
  <2> QED
    BY <1>7, <2>2 DEF CloseAt, Effect, Safe, Receives, Sends, Traffic
<1>8. CASE k = 7
  <2>1. Close[7] = "free_irq"
    BY DEF Close
  <2>2. Effect("free_irq") /\ Head(todo["task"]) = "free_irq" /\ At("task", Close, 8)'
    BY <1>1, <1>8, <2>1
  <2> QED
    BY <1>8, <2>2 DEF CloseAt, Effect, Safe, Receives, Sends, Traffic
<1> QED
  BY <1>1, <1>2, <1>3, <1>4, <1>5, <1>6, <1>7, <1>8

\* drv.c:4876.
LEMMA MtuStep ==
    ASSUME todo \in [{"task", "isr"} -> Seq(Calls)], Types, Traffic, NEW k, MtuAt(k), Performs("task")
    PROVE  k \in 1 .. 10 /\ Safe(Head(todo["task"])) /\ MtuAt(k + 1)'
<1>1. /\ k \in 1 .. 10 /\ Effect(ChangeMtu[k]) /\ Head(todo["task"]) = ChangeMtu[k]
      /\ At("task", ChangeMtu, k + 1)'
  BY AtNext, ProgramsAre DEF MtuAt
<1>2. CASE k = 1
  <2>1. ChangeMtu[1] = "tx_stop"
    BY DEF ChangeMtu
  <2>2. Effect("tx_stop") /\ Head(todo["task"]) = "tx_stop" /\ At("task", ChangeMtu, 2)'
    BY <1>1, <1>2, <2>1
  <2> QED
    BY <1>2, <2>2 DEF MtuAt, Effect, Safe, Receives, Sends, Traffic
<1>3. CASE k = 2
  <2>1. ChangeMtu[2] = "napi_disable"
    BY DEF ChangeMtu
  <2>2. Effect("napi_disable") /\ Head(todo["task"]) = "napi_disable" /\ At("task", ChangeMtu, 3)'
    BY <1>1, <1>3, <2>1
  <2> QED
    BY <1>3, <2>2 DEF MtuAt, Effect, Safe, Receives, Sends, Traffic
<1>4. CASE k = 3
  <2>1. ChangeMtu[3] = "dma_stop"
    BY DEF ChangeMtu
  <2>2. Effect("dma_stop") /\ Head(todo["task"]) = "dma_stop" /\ At("task", ChangeMtu, 4)'
    BY <1>1, <1>4, <2>1
  <2> QED
    BY <1>4, <2>2 DEF MtuAt, Effect, Safe, Receives, Sends, Traffic
<1>5. CASE k = 4
  <2>1. ChangeMtu[4] = "hw_exit"
    BY DEF ChangeMtu
  <2>2. Effect("hw_exit") /\ Head(todo["task"]) = "hw_exit" /\ At("task", ChangeMtu, 5)'
    BY <1>1, <1>5, <2>1
  <2> QED
    BY <1>5, <2>2 DEF MtuAt, Effect, Safe, Receives, Sends, Traffic
<1>6. CASE k = 5
  <2>1. ChangeMtu[5] = "skb_free"
    BY DEF ChangeMtu
  <2>2. Effect("skb_free") /\ Head(todo["task"]) = "skb_free" /\ At("task", ChangeMtu, 6)'
    BY <1>1, <1>6, <2>1
  <2> QED
    BY <1>6, <2>2 DEF MtuAt, Effect, Safe, Receives, Sends, Traffic
<1>7. CASE k = 6
  <2>1. ChangeMtu[6] = "default_confs"
    BY DEF ChangeMtu
  <2>2. Effect("default_confs") /\ Head(todo["task"]) = "default_confs" /\ At("task", ChangeMtu, 7)'
    BY <1>1, <1>7, <2>1
  <2> QED
    BY <1>7, <2>2 DEF MtuAt, Effect, Safe, Receives, Sends, Traffic
<1>8. CASE k = 7
  <2>1. ChangeMtu[7] = "napi_enable"
    BY DEF ChangeMtu
  <2>2. Effect("napi_enable") /\ Head(todo["task"]) = "napi_enable" /\ At("task", ChangeMtu, 8)'
    BY <1>1, <1>8, <2>1
  <2> QED
    BY <1>8, <2>2 DEF MtuAt, Effect, Safe, Receives, Sends, Traffic
<1>9. CASE k = 8
  <2>1. ChangeMtu[8] = "desc_init"
    BY DEF ChangeMtu
  <2>2. Effect("desc_init") /\ Head(todo["task"]) = "desc_init" /\ At("task", ChangeMtu, 9)'
    BY <1>1, <1>9, <2>1
  <2> QED
    BY <1>9, <2>2 DEF MtuAt, Effect, Safe, Receives, Sends, Traffic
<1>10. CASE k = 9
  <2>1. ChangeMtu[9] = "hw_init"
    BY DEF ChangeMtu
  <2>2. Effect("hw_init") /\ Head(todo["task"]) = "hw_init" /\ At("task", ChangeMtu, 10)'
    BY <1>1, <1>10, <2>1
  <2> QED
    BY <1>10, <2>2 DEF MtuAt, Effect, Safe, Receives, Sends, Traffic
<1>11. CASE k = 10
  <2>1. ChangeMtu[10] = "tx_start"
    BY DEF ChangeMtu
  <2>2. Effect("tx_start") /\ Head(todo["task"]) = "tx_start" /\ At("task", ChangeMtu, 11)'
    BY <1>1, <1>11, <2>1
  <2> QED
    BY <1>11, <2>2 DEF MtuAt, Effect, Safe, Receives, Sends, Traffic
<1> QED
  BY <1>1, <1>2, <1>3, <1>4, <1>5, <1>6, <1>7, <1>8, <1>9, <1>10, <1>11

\* drv.c:5044, from suspend.
LEMMA SuspendStep ==
    ASSUME todo \in [{"task", "isr"} -> Seq(Calls)], Types, Traffic, NEW k, SuspendAt(k), Performs("task")
    PROVE  k \in 1 .. 7 /\ Safe(Head(todo["task"])) /\ SuspendAt(k + 1)'
<1>1. /\ k \in 1 .. 7 /\ Effect(Powerdown("driver")[k]) /\ Head(todo["task"]) = Powerdown("driver")[k]
      /\ At("task", Powerdown("driver"), k + 1)'
  BY AtNext, ProgramsAre DEF SuspendAt
<1>2. CASE k = 1
  <2>1. Powerdown("driver")[1] = "phy_stop"
    BY DEF Powerdown
  <2>2. Effect("phy_stop") /\ Head(todo["task"]) = "phy_stop" /\ At("task", Powerdown("driver"), 2)'
    BY <1>1, <1>2, <2>1
  <2> QED
    BY <1>2, <2>2 DEF SuspendAt, DescendsAt, Effect, Safe, Receives, Sends, Traffic
<1>3. CASE k = 2
  <2>1. Powerdown("driver")[2] = "lock"
    BY DEF Powerdown
  <2>2. Effect("lock") /\ Head(todo["task"]) = "lock" /\ At("task", Powerdown("driver"), 3)'
    BY <1>1, <1>3, <2>1
  <2> QED
    BY <1>3, <2>2 DEF SuspendAt, DescendsAt, Effect, Safe, Receives, Sends, Traffic
<1>4. CASE k = 3
  <2>1. Powerdown("driver")[3] = "tx_stop"
    BY DEF Powerdown
  <2>2. Effect("tx_stop") /\ Head(todo["task"]) = "tx_stop" /\ At("task", Powerdown("driver"), 4)'
    BY <1>1, <1>4, <2>1
  <2> QED
    BY <1>4, <2>2 DEF SuspendAt, DescendsAt, Effect, Safe, Receives, Sends, Traffic
<1>5. CASE k = 4
  <2>1. Powerdown("driver")[4] = "napi_disable"
    BY DEF Powerdown
  <2>2. Effect("napi_disable") /\ Head(todo["task"]) = "napi_disable" /\ At("task", Powerdown("driver"), 5)'
    BY <1>1, <1>5, <2>1
  <2> QED
    BY <1>5, <2>2 DEF SuspendAt, DescendsAt, Effect, Safe, Receives, Sends, Traffic
<1>6. CASE k = 5
  <2>1. Powerdown("driver")[5] = "dma_stop"
    BY DEF Powerdown
  <2>2. Effect("dma_stop") /\ Head(todo["task"]) = "dma_stop" /\ At("task", Powerdown("driver"), 6)'
    BY <1>1, <1>6, <2>1
  <2> QED
    BY <1>6, <2>2 DEF SuspendAt, DescendsAt, Effect, Safe, Receives, Sends, Traffic
<1>7. CASE k = 6
  <2>1. Powerdown("driver")[6] = "pmt_on_driver"
    BY DEF Powerdown
  <2>2. Effect("pmt_on_driver") /\ Head(todo["task"]) = "pmt_on_driver" /\ At("task", Powerdown("driver"), 7)'
    BY <1>1, <1>7, <2>1
  <2> QED
    BY <1>7, <2>2 DEF SuspendAt, DescendsAt, Effect, Safe, Receives, Sends, Traffic
<1>8. CASE k = 7
  <2>1. Powerdown("driver")[7] = "unlock"
    BY DEF Powerdown
  <2>2. Effect("unlock") /\ Head(todo["task"]) = "unlock" /\ At("task", Powerdown("driver"), 8)'
    BY <1>1, <1>8, <2>1
  <2> QED
    BY <1>8, <2>2 DEF SuspendAt, DescendsAt, Effect, Safe, Receives, Sends, Traffic
<1> QED
  BY <1>1, <1>2, <1>3, <1>4, <1>5, <1>6, <1>7, <1>8

\* drv.c:5044, from the ioctl.
LEMMA PowerdownStep ==
    ASSUME todo \in [{"task", "isr"} -> Seq(Calls)], Types, Traffic, NEW k, PowerdownAt(k), Performs("task")
    PROVE  k \in 1 .. 9 /\ Safe(Head(todo["task"])) /\ PowerdownAt(k + 1)'
<1>1. /\ k \in 1 .. 9 /\ Effect(Ioctl(Powerdown("ioctl"))[k]) /\ Head(todo["task"]) = Ioctl(Powerdown("ioctl"))[k]
      /\ At("task", Ioctl(Powerdown("ioctl")), k + 1)'
  BY AtNext, ProgramsAre DEF PowerdownAt
<1>2. CASE k = 1
  <2>1. Ioctl(Powerdown("ioctl"))[1] = "ioctl_lock"
    BY IoctlPowerdown
  <2>2. Effect("ioctl_lock") /\ Head(todo["task"]) = "ioctl_lock" /\ At("task", Ioctl(Powerdown("ioctl")), 2)'
    BY <1>1, <1>2, <2>1
  <2> QED
    BY <1>2, <2>2 DEF PowerdownAt, DescendsAt, Effect, Safe, Receives, Sends, Traffic
<1>3. CASE k = 2
  <2>1. Ioctl(Powerdown("ioctl"))[2] = "phy_stop"
    BY IoctlPowerdown
  <2>2. Effect("phy_stop") /\ Head(todo["task"]) = "phy_stop" /\ At("task", Ioctl(Powerdown("ioctl")), 3)'
    BY <1>1, <1>3, <2>1
  <2> QED
    BY <1>3, <2>2 DEF PowerdownAt, DescendsAt, Effect, Safe, Receives, Sends, Traffic
<1>4. CASE k = 3
  <2>1. Ioctl(Powerdown("ioctl"))[3] = "lock"
    BY IoctlPowerdown
  <2>2. Effect("lock") /\ Head(todo["task"]) = "lock" /\ At("task", Ioctl(Powerdown("ioctl")), 4)'
    BY <1>1, <1>4, <2>1
  <2> QED
    BY <1>4, <2>2 DEF PowerdownAt, DescendsAt, Effect, Safe, Receives, Sends, Traffic
<1>5. CASE k = 4
  <2>1. Ioctl(Powerdown("ioctl"))[4] = "tx_stop"
    BY IoctlPowerdown
  <2>2. Effect("tx_stop") /\ Head(todo["task"]) = "tx_stop" /\ At("task", Ioctl(Powerdown("ioctl")), 5)'
    BY <1>1, <1>5, <2>1
  <2> QED
    BY <1>5, <2>2 DEF PowerdownAt, DescendsAt, Effect, Safe, Receives, Sends, Traffic
<1>6. CASE k = 5
  <2>1. Ioctl(Powerdown("ioctl"))[5] = "napi_disable"
    BY IoctlPowerdown
  <2>2. Effect("napi_disable") /\ Head(todo["task"]) = "napi_disable" /\ At("task", Ioctl(Powerdown("ioctl")), 6)'
    BY <1>1, <1>6, <2>1
  <2> QED
    BY <1>6, <2>2 DEF PowerdownAt, DescendsAt, Effect, Safe, Receives, Sends, Traffic
<1>7. CASE k = 6
  <2>1. Ioctl(Powerdown("ioctl"))[6] = "dma_stop"
    BY IoctlPowerdown
  <2>2. Effect("dma_stop") /\ Head(todo["task"]) = "dma_stop" /\ At("task", Ioctl(Powerdown("ioctl")), 7)'
    BY <1>1, <1>7, <2>1
  <2> QED
    BY <1>7, <2>2 DEF PowerdownAt, DescendsAt, Effect, Safe, Receives, Sends, Traffic
<1>8. CASE k = 7
  <2>1. Ioctl(Powerdown("ioctl"))[7] = "pmt_on"
    BY IoctlPowerdown
  <2>2. Effect("pmt_on") /\ Head(todo["task"]) = "pmt_on" /\ At("task", Ioctl(Powerdown("ioctl")), 8)'
    BY <1>1, <1>8, <2>1
  <2> QED
    BY <1>8, <2>2 DEF PowerdownAt, DescendsAt, Effect, Safe, Receives, Sends, Traffic
<1>9. CASE k = 8
  <2>1. Ioctl(Powerdown("ioctl"))[8] = "unlock"
    BY IoctlPowerdown
  <2>2. Effect("unlock") /\ Head(todo["task"]) = "unlock" /\ At("task", Ioctl(Powerdown("ioctl")), 9)'
    BY <1>1, <1>9, <2>1
  <2> QED
    BY <1>9, <2>2 DEF PowerdownAt, DescendsAt, Effect, Safe, Receives, Sends, Traffic
<1>10. CASE k = 9
  <2>1. Ioctl(Powerdown("ioctl"))[9] = "ioctl_unlock"
    BY IoctlPowerdown
  <2>2. Effect("ioctl_unlock") /\ Head(todo["task"]) = "ioctl_unlock" /\ At("task", Ioctl(Powerdown("ioctl")), 10)'
    BY <1>1, <1>10, <2>1
  <2> QED
    BY <1>10, <2>2 DEF PowerdownAt, DescendsAt, Effect, Safe, Receives, Sends, Traffic
<1> QED
  BY <1>1, <1>2, <1>3, <1>4, <1>5, <1>6, <1>7, <1>8, <1>9, <1>10

\* drv.c:5112, from resume.
LEMMA ResumeStep ==
    ASSUME todo \in [{"task", "isr"} -> Seq(Calls)], Types, Traffic, NEW k, ResumeAt(k), Performs("task")
    PROVE  k \in 1 .. 7 /\ Safe(Head(todo["task"])) /\ ResumeAt(k + 1)'
<1>1. /\ k \in 1 .. 7 /\ Effect(Powerup[k]) /\ Head(todo["task"]) = Powerup[k]
      /\ At("task", Powerup, k + 1)'
  BY AtNext, ProgramsAre DEF ResumeAt
<1>2. CASE k = 1
  <2>1. Powerup[1] = "lock"
    BY DEF Powerup
  <2>2. Effect("lock") /\ Head(todo["task"]) = "lock" /\ At("task", Powerup, 2)'
    BY <1>1, <1>2, <2>1
  <2> QED
    BY <1>2, <2>2 DEF ResumeAt, AscendsAt, Effect, Safe, Receives, Sends, Traffic
<1>3. CASE k = 2
  <2>1. Powerup[2] = "pmt_off"
    BY DEF Powerup
  <2>2. Effect("pmt_off") /\ Head(todo["task"]) = "pmt_off" /\ At("task", Powerup, 3)'
    BY <1>1, <1>3, <2>1
  <2> QED
    BY <1>3, <2>2 DEF ResumeAt, AscendsAt, Effect, Safe, Receives, Sends, Traffic
<1>4. CASE k = 3
  <2>1. Powerup[3] = "phy_start"
    BY DEF Powerup
  <2>2. Effect("phy_start") /\ Head(todo["task"]) = "phy_start" /\ At("task", Powerup, 4)'
    BY <1>1, <1>4, <2>1
  <2> QED
    BY <1>4, <2>2 DEF ResumeAt, AscendsAt, Effect, Safe, Receives, Sends, Traffic
<1>5. CASE k = 4
  <2>1. Powerup[4] = "dma_start"
    BY DEF Powerup
  <2>2. Effect("dma_start") /\ Head(todo["task"]) = "dma_start" /\ At("task", Powerup, 5)'
    BY <1>1, <1>5, <2>1
  <2> QED
    BY <1>5, <2>2 DEF ResumeAt, AscendsAt, Effect, Safe, Receives, Sends, Traffic
<1>6. CASE k = 5
  <2>1. Powerup[5] = "napi_enable"
    BY DEF Powerup
  <2>2. Effect("napi_enable") /\ Head(todo["task"]) = "napi_enable" /\ At("task", Powerup, 6)'
    BY <1>1, <1>6, <2>1
  <2> QED
    BY <1>6, <2>2 DEF ResumeAt, AscendsAt, Effect, Safe, Receives, Sends, Traffic
<1>7. CASE k = 6
  <2>1. Powerup[6] = "tx_start"
    BY DEF Powerup
  <2>2. Effect("tx_start") /\ Head(todo["task"]) = "tx_start" /\ At("task", Powerup, 7)'
    BY <1>1, <1>7, <2>1
  <2> QED
    BY <1>7, <2>2 DEF ResumeAt, AscendsAt, Effect, Safe, Receives, Sends, Traffic
<1>8. CASE k = 7
  <2>1. Powerup[7] = "unlock"
    BY DEF Powerup
  <2>2. Effect("unlock") /\ Head(todo["task"]) = "unlock" /\ At("task", Powerup, 8)'
    BY <1>1, <1>8, <2>1
  <2> QED
    BY <1>8, <2>2 DEF ResumeAt, AscendsAt, Effect, Safe, Receives, Sends, Traffic
<1> QED
  BY <1>1, <1>2, <1>3, <1>4, <1>5, <1>6, <1>7, <1>8

\* drv.c:5112, from the ioctl.
LEMMA PowerupStep ==
    ASSUME todo \in [{"task", "isr"} -> Seq(Calls)], Types, Traffic, NEW k, PowerupAt(k), Performs("task")
    PROVE  k \in 1 .. 9 /\ Safe(Head(todo["task"])) /\ PowerupAt(k + 1)'
<1>1. /\ k \in 1 .. 9 /\ Effect(Ioctl(Powerup)[k]) /\ Head(todo["task"]) = Ioctl(Powerup)[k]
      /\ At("task", Ioctl(Powerup), k + 1)'
  BY AtNext, ProgramsAre DEF PowerupAt
<1>2. CASE k = 1
  <2>1. Ioctl(Powerup)[1] = "ioctl_lock"
    BY IoctlPowerup
  <2>2. Effect("ioctl_lock") /\ Head(todo["task"]) = "ioctl_lock" /\ At("task", Ioctl(Powerup), 2)'
    BY <1>1, <1>2, <2>1
  <2> QED
    BY <1>2, <2>2 DEF PowerupAt, AscendsAt, Effect, Safe, Receives, Sends, Traffic
<1>3. CASE k = 2
  <2>1. Ioctl(Powerup)[2] = "lock"
    BY IoctlPowerup
  <2>2. Effect("lock") /\ Head(todo["task"]) = "lock" /\ At("task", Ioctl(Powerup), 3)'
    BY <1>1, <1>3, <2>1
  <2> QED
    BY <1>3, <2>2 DEF PowerupAt, AscendsAt, Effect, Safe, Receives, Sends, Traffic
<1>4. CASE k = 3
  <2>1. Ioctl(Powerup)[3] = "pmt_off"
    BY IoctlPowerup
  <2>2. Effect("pmt_off") /\ Head(todo["task"]) = "pmt_off" /\ At("task", Ioctl(Powerup), 4)'
    BY <1>1, <1>4, <2>1
  <2> QED
    BY <1>4, <2>2 DEF PowerupAt, AscendsAt, Effect, Safe, Receives, Sends, Traffic
<1>5. CASE k = 4
  <2>1. Ioctl(Powerup)[4] = "phy_start"
    BY IoctlPowerup
  <2>2. Effect("phy_start") /\ Head(todo["task"]) = "phy_start" /\ At("task", Ioctl(Powerup), 5)'
    BY <1>1, <1>5, <2>1
  <2> QED
    BY <1>5, <2>2 DEF PowerupAt, AscendsAt, Effect, Safe, Receives, Sends, Traffic
<1>6. CASE k = 5
  <2>1. Ioctl(Powerup)[5] = "dma_start"
    BY IoctlPowerup
  <2>2. Effect("dma_start") /\ Head(todo["task"]) = "dma_start" /\ At("task", Ioctl(Powerup), 6)'
    BY <1>1, <1>6, <2>1
  <2> QED
    BY <1>6, <2>2 DEF PowerupAt, AscendsAt, Effect, Safe, Receives, Sends, Traffic
<1>7. CASE k = 6
  <2>1. Ioctl(Powerup)[6] = "napi_enable"
    BY IoctlPowerup
  <2>2. Effect("napi_enable") /\ Head(todo["task"]) = "napi_enable" /\ At("task", Ioctl(Powerup), 7)'
    BY <1>1, <1>7, <2>1
  <2> QED
    BY <1>7, <2>2 DEF PowerupAt, AscendsAt, Effect, Safe, Receives, Sends, Traffic
<1>8. CASE k = 7
  <2>1. Ioctl(Powerup)[7] = "tx_start"
    BY IoctlPowerup
  <2>2. Effect("tx_start") /\ Head(todo["task"]) = "tx_start" /\ At("task", Ioctl(Powerup), 8)'
    BY <1>1, <1>8, <2>1
  <2> QED
    BY <1>8, <2>2 DEF PowerupAt, AscendsAt, Effect, Safe, Receives, Sends, Traffic
<1>9. CASE k = 8
  <2>1. Ioctl(Powerup)[8] = "unlock"
    BY IoctlPowerup
  <2>2. Effect("unlock") /\ Head(todo["task"]) = "unlock" /\ At("task", Ioctl(Powerup), 9)'
    BY <1>1, <1>9, <2>1
  <2> QED
    BY <1>9, <2>2 DEF PowerupAt, AscendsAt, Effect, Safe, Receives, Sends, Traffic
<1>10. CASE k = 9
  <2>1. Ioctl(Powerup)[9] = "ioctl_unlock"
    BY IoctlPowerup
  <2>2. Effect("ioctl_unlock") /\ Head(todo["task"]) = "ioctl_unlock" /\ At("task", Ioctl(Powerup), 10)'
    BY <1>1, <1>10, <2>1
  <2> QED
    BY <1>10, <2>2 DEF PowerupAt, AscendsAt, Effect, Safe, Receives, Sends, Traffic
<1> QED
  BY <1>1, <1>2, <1>3, <1>4, <1>5, <1>6, <1>7, <1>8, <1>9, <1>10

\* drv.c:5112, from the service routine.
LEMMA WakeStep ==
    ASSUME todo \in [{"task", "isr"} -> Seq(Calls)], Types, Traffic, NEW k, WakeAt(k), Performs("isr")
    PROVE  k \in 1 .. 7 /\ Safe(Head(todo["isr"])) /\ WakeAt(k + 1)'
<1>1. /\ k \in 1 .. 7 /\ Effect(Powerup[k]) /\ Head(todo["isr"]) = Powerup[k]
      /\ At("isr", Powerup, k + 1)'
  BY AtNext, ProgramsAre DEF WakeAt
<1>2. CASE k = 1
  <2>1. Powerup[1] = "lock"
    BY DEF Powerup
  <2>2. Effect("lock") /\ Head(todo["isr"]) = "lock" /\ At("isr", Powerup, 2)'
    BY <1>1, <1>2, <2>1
  <2> QED
    BY <1>2, <2>2 DEF WakeAt, AscendsAt, Effect, Safe, Receives, Sends, Traffic
<1>3. CASE k = 2
  <2>1. Powerup[2] = "pmt_off"
    BY DEF Powerup
  <2>2. Effect("pmt_off") /\ Head(todo["isr"]) = "pmt_off" /\ At("isr", Powerup, 3)'
    BY <1>1, <1>3, <2>1
  <2> QED
    BY <1>3, <2>2 DEF WakeAt, AscendsAt, Effect, Safe, Receives, Sends, Traffic
<1>4. CASE k = 3
  <2>1. Powerup[3] = "phy_start"
    BY DEF Powerup
  <2>2. Effect("phy_start") /\ Head(todo["isr"]) = "phy_start" /\ At("isr", Powerup, 4)'
    BY <1>1, <1>4, <2>1
  <2> QED
    BY <1>4, <2>2 DEF WakeAt, AscendsAt, Effect, Safe, Receives, Sends, Traffic
<1>5. CASE k = 4
  <2>1. Powerup[4] = "dma_start"
    BY DEF Powerup
  <2>2. Effect("dma_start") /\ Head(todo["isr"]) = "dma_start" /\ At("isr", Powerup, 5)'
    BY <1>1, <1>5, <2>1
  <2> QED
    BY <1>5, <2>2 DEF WakeAt, AscendsAt, Effect, Safe, Receives, Sends, Traffic
<1>6. CASE k = 5
  <2>1. Powerup[5] = "napi_enable"
    BY DEF Powerup
  <2>2. Effect("napi_enable") /\ Head(todo["isr"]) = "napi_enable" /\ At("isr", Powerup, 6)'
    BY <1>1, <1>6, <2>1
  <2> QED
    BY <1>6, <2>2 DEF WakeAt, AscendsAt, Effect, Safe, Receives, Sends, Traffic
<1>7. CASE k = 6
  <2>1. Powerup[6] = "tx_start"
    BY DEF Powerup
  <2>2. Effect("tx_start") /\ Head(todo["isr"]) = "tx_start" /\ At("isr", Powerup, 7)'
    BY <1>1, <1>7, <2>1
  <2> QED
    BY <1>7, <2>2 DEF WakeAt, AscendsAt, Effect, Safe, Receives, Sends, Traffic
<1>8. CASE k = 7
  <2>1. Powerup[7] = "unlock"
    BY DEF Powerup
  <2>2. Effect("unlock") /\ Head(todo["isr"]) = "unlock" /\ At("isr", Powerup, 8)'
    BY <1>1, <1>8, <2>1
  <2> QED
    BY <1>8, <2>2 DEF WakeAt, AscendsAt, Effect, Safe, Receives, Sends, Traffic
<1> QED
  BY <1>1, <1>2, <1>3, <1>4, <1>5, <1>6, <1>7, <1>8

\* drv.c:358.
LEMMA RestartStep ==
    ASSUME todo \in [{"task", "isr"} -> Seq(Calls)], Types, Traffic, NEW k, RestartAt(k), Performs("isr")
    PROVE  k \in 1 .. 8 /\ Safe(Head(todo["isr"])) /\ RestartAt(k + 1)'
<1>1. /\ k \in 1 .. 8 /\ Effect(Restart[k]) /\ Head(todo["isr"]) = Restart[k]
      /\ At("isr", Restart, k + 1)'
  BY AtNext, ProgramsAre DEF RestartAt
<1>2. CASE k = 1
  <2>1. Restart[1] = "tx_stop"
    BY DEF Restart
  <2>2. Effect("tx_stop") /\ Head(todo["isr"]) = "tx_stop" /\ At("isr", Restart, 2)'
    BY <1>1, <1>2, <2>1
  <2> QED
    BY <1>2, <2>2 DEF RestartAt, Effect, Safe, Receives, Sends, Traffic
<1>3. CASE k = 2
  <2>1. Restart[2] = "napi_disable"
    BY DEF Restart
  <2>2. Effect("napi_disable") /\ Head(todo["isr"]) = "napi_disable" /\ At("isr", Restart, 3)'
    BY <1>1, <1>3, <2>1
  <2> QED
    BY <1>3, <2>2 DEF RestartAt, Effect, Safe, Receives, Sends, Traffic
<1>4. CASE k = 3
  <2>1. Restart[3] = "dma_stop"
    BY DEF Restart
  <2>2. Effect("dma_stop") /\ Head(todo["isr"]) = "dma_stop" /\ At("isr", Restart, 4)'
    BY <1>1, <1>4, <2>1
  <2> QED
    BY <1>4, <2>2 DEF RestartAt, Effect, Safe, Receives, Sends, Traffic
<1>5. CASE k = 4
  <2>1. Restart[4] = "skb_free"
    BY DEF Restart
  <2>2. Effect("skb_free") /\ Head(todo["isr"]) = "skb_free" /\ At("isr", Restart, 5)'
    BY <1>1, <1>5, <2>1
  <2> QED
    BY <1>5, <2>2 DEF RestartAt, Effect, Safe, Receives, Sends, Traffic
<1>6. CASE k = 5
  <2>1. Restart[5] = "desc_init"
    BY DEF Restart
  <2>2. Effect("desc_init") /\ Head(todo["isr"]) = "desc_init" /\ At("isr", Restart, 6)'
    BY <1>1, <1>6, <2>1
  <2> QED
    BY <1>6, <2>2 DEF RestartAt, Effect, Safe, Receives, Sends, Traffic
<1>7. CASE k = 6
  <2>1. Restart[6] = "napi_enable"
    BY DEF Restart
  <2>2. Effect("napi_enable") /\ Head(todo["isr"]) = "napi_enable" /\ At("isr", Restart, 7)'
    BY <1>1, <1>7, <2>1
  <2> QED
    BY <1>7, <2>2 DEF RestartAt, Effect, Safe, Receives, Sends, Traffic
<1>8. CASE k = 7
  <2>1. Restart[7] = "hw_init"
    BY DEF Restart
  <2>2. Effect("hw_init") /\ Head(todo["isr"]) = "hw_init" /\ At("isr", Restart, 8)'
    BY <1>1, <1>8, <2>1
  <2> QED
    BY <1>8, <2>2 DEF RestartAt, Effect, Safe, Receives, Sends, Traffic
<1>9. CASE k = 8
  <2>1. Restart[8] = "tx_start"
    BY DEF Restart
  <2>2. Effect("tx_start") /\ Head(todo["isr"]) = "tx_start" /\ At("isr", Restart, 9)'
    BY <1>1, <1>9, <2>1
  <2> QED
    BY <1>9, <2>2 DEF RestartAt, Effect, Safe, Receives, Sends, Traffic
<1> QED
  BY <1>1, <1>2, <1>3, <1>4, <1>5, <1>6, <1>7, <1>8, <1>9

-----------------------------------------------------------------------------
(* What goes on meanwhile: interrupts, polls, timers, packets and frames.   *)

Meanwhile ==
    \/ \E c \in {"same", "other"} : IsrRx(c) \/ IsrLpi(c) \/ IsrTx(c)
    \/ Poll \/ Timers \/ Xmit \/ FrameArrives \/ PacketSent

\* The stack sends nothing.
Busy == op \notin {"none", "open"} \/ isr # "none"

\* None of it disturbs an operation.
Calm ==
    /\ UNCHANGED <<todo, op, isr, running, suspended, power_down, irq, ring, dma, phy>>
    /\ napi' = "off" <=> napi = "off"
    /\ ri' => ri \/ (dma /\ ~Changing)
    /\ ~ri /\ rie => rie'
    /\ ~rie /\ napi # "sched" => ~rie'
    /\ Receives /\ napi # "off" => Receives'
    /\ Sends => Sends'
    /\ ~txq /\ queued = 0 => ~txq'
    /\ queued = 0 /\ (~txq \/ Busy) => queued' = 0
    /\ txq /\ Busy => txq'

LEMMA CalmReceive ==
    ASSUME Types, Traffic, NEW c \in {"same", "other"}, IsrRx(c)
    PROVE  Calm /\ Types' /\ Traffic'
<1>1. /\ ri /\ rie /\ ri' = FALSE /\ rie' = FALSE
      /\ napi' = IF napi = "idle" THEN "sched" ELSE napi
      /\ UNCHANGED <<cpu, todo, op, power, irq, polling, rxready, tx, eee, ring, dma, phy, count>>
  BY DEF IsrRx
<1>2. Calm
  BY <1>1 DEF Calm, cpu, power, tx, Receives, Sends, Types, Modes
<1>3. ri' \in BOOLEAN /\ rie' \in BOOLEAN
  BY <1>1
<1>4. Flags'
  BY <1>1, <1>3 DEF cpu, power, tx, eee, Types, Flags
<1>5. Modes' /\ Counts'
  BY <1>1 DEF cpu, tx, Types, Modes, Counts
<1>6. Traffic'
  BY <1>1 DEF Traffic, tx, Types, Modes
<1> QED
  BY <1>2, <1>4, <1>5, <1>6 DEF Types

LEMMA CalmLpi ==
    ASSUME Types, Traffic, NEW c \in {"same", "other"}, IsrLpi(c)
    PROVE  Calm /\ Types' /\ Traffic'
<1>1. UNCHANGED <<cpu, todo, op, power, rx, tx, eee_enabled, eee_armed, ring, dma, phy, count>>
  BY DEF IsrLpi
<1>2. Calm
  BY <1>1 DEF Calm, cpu, power, rx, tx, Receives, Sends
<1>3. lpi' \in BOOLEAN /\ lpien' \in BOOLEAN
  BY DEF IsrLpi, Types, Flags
<1>4. Flags'
  BY <1>1, <1>3 DEF cpu, power, rx, tx, Types, Flags
<1>5. Modes' /\ Counts'
  BY <1>1 DEF cpu, rx, tx, Types, Modes, Counts
<1>6. Traffic'
  BY <1>1 DEF Traffic, rx, tx
<1> QED
  BY <1>2, <1>4, <1>5, <1>6 DEF Types

LEMMA CalmReclaim ==
    ASSUME Types, Traffic, TxInterrupt
    PROVE  Calm /\ Types' /\ Traffic'
<1>1. /\ queued' = queued - sent /\ sent' = 0
      /\ queue_stopped' = (queue_stopped /\ queued' = RingSize)
      /\ txq' = (txq \/ (queue_stopped /\ ~queue_stopped'))
      /\ UNCHANGED <<cpu, todo, op, power, rx, eee_enabled, lpi, ring, dma, phy, count>>
  BY DEF TxInterrupt
<1>2. queued \in 0 .. RingSize /\ sent \in 0 .. queued /\ RingSize \in Nat \ {0}
  BY DeviceAssumption DEF Types, Counts
<1>3. /\ queued' \in 0 .. RingSize /\ sent' \in 0 .. queued' /\ queued' <= queued
      /\ queued = 0 => queued' = 0
  BY <1>1, <1>2
<1>4. queue_stopped' \in BOOLEAN /\ txq' \in BOOLEAN
  BY <1>1 DEF Types, Flags
<1>5. lpien' \in BOOLEAN /\ eee_armed' \in BOOLEAN
  BY DEF TxInterrupt, EnableEee, Types, Flags
<1>6. Calm
  <2>1. queued = 0 => ~queue_stopped
    BY <1>2 DEF Traffic
  <2>2. (Sends => Sends') /\ (~txq /\ queued = 0 => ~txq') /\ (txq => txq')
    BY <1>1, <2>1 DEF Sends
  <2> QED
    BY <1>1, <1>3, <2>2 DEF Calm, cpu, power, rx, Receives
<1>7. Flags'
  BY <1>1, <1>4, <1>5 DEF cpu, power, rx, Types, Flags
<1>8. Modes' /\ Counts'
  BY <1>1, <1>3 DEF cpu, rx, Types, Modes, Counts
<1>9. Traffic'
  <2>1. UNCHANGED <<polling, napi, ri, ring>>
    BY <1>1 DEF rx
  <2>2. queued' > 0 => ring = "ready"
    BY <1>2, <1>3 DEF Traffic
  <2>3. queue_stopped' => queued' = RingSize
    BY <1>1
  <2>4. txq' => queued' < RingSize
    <3>1. CASE txq
      BY <1>2, <1>3, <3>1 DEF Traffic
    <3>2. ASSUME txq', ~txq PROVE queued' # RingSize
      BY <1>1, <3>2
    <3> QED
      BY <1>2, <1>3, <3>1, <3>2
  <2> QED
    BY <2>1, <2>2, <2>3, <2>4 DEF Traffic
<1> QED
  BY <1>6, <1>7, <1>8, <1>9 DEF Types

LEMMA CalmPoll ==
    ASSUME Types, Traffic, Poll
    PROVE  Calm /\ Types' /\ Traffic'
<1>1. /\ UNCHANGED <<cpu, todo, op, power, irq, ri, tx, eee, ring, dma, phy, count>>
      /\ napi = "sched"
      /\ \/ polling' = TRUE /\ UNCHANGED <<napi, rie, rxready>>
         \/ polling' = FALSE /\ rxready' = FALSE /\ napi' = "idle" /\ rie' = TRUE
  BY DEF Poll, PollBegin, PollEnd, Traffic
<1>2. Calm
  BY <1>1 DEF Calm, cpu, power, tx, Receives, Sends
<1>3. polling' \in BOOLEAN /\ rxready' \in BOOLEAN /\ rie' \in BOOLEAN
  BY <1>1 DEF Types, Flags
<1>4. Flags'
  BY <1>1, <1>3 DEF cpu, power, tx, eee, Types, Flags
<1>5. Modes' /\ Counts'
  BY <1>1 DEF cpu, tx, Types, Modes, Counts
<1>6. Traffic'
  BY <1>1 DEF Traffic, tx
<1> QED
  BY <1>2, <1>4, <1>5, <1>6 DEF Types

LEMMA CalmEeeTimer ==
    ASSUME Types, Traffic, EeeTimer
    PROVE  Calm /\ Types' /\ Traffic'
<1>1. UNCHANGED <<cpu, todo, op, power, rx, tx, eee_enabled, eee_armed, lpi, ring, dma, phy, count>>
  BY DEF EeeTimer
<1>2. Calm
  BY <1>1 DEF Calm, cpu, power, rx, tx, Receives, Sends
<1>3. lpien' \in BOOLEAN
  BY DEF EeeTimer, EnableEee, Types, Flags
<1>4. Flags'
  BY <1>1, <1>3 DEF cpu, power, rx, tx, Types, Flags
<1>5. Modes' /\ Counts'
  BY <1>1 DEF cpu, rx, tx, Types, Modes, Counts
<1>6. Traffic'
  BY <1>1 DEF Traffic, rx, tx
<1> QED
  BY <1>2, <1>4, <1>5, <1>6 DEF Types

LEMMA CalmXmit ==
    ASSUME Careful, Types, Traffic, txq /\ running => ring = "ready", Xmit
    PROVE  Calm /\ Types' /\ Traffic'
<1>1. /\ txq /\ running /\ count.packets < NumPackets
      /\ queued' = queued + 1
      /\ queue_stopped' = (queued' = RingSize) /\ txq' = ~queue_stopped'
      /\ count' = [count EXCEPT !.packets = @ + 1]
      /\ UNCHANGED <<cpu, todo, op, power, rx, sent, eee_enabled, ring, dma, phy>>
  BY DEF Xmit
<1>2. ~Busy
  BY DEF Careful, AllRules, Xmit, Ruled, Busy
<1>3. queued \in 0 .. RingSize /\ sent \in 0 .. queued /\ RingSize \in Nat \ {0} /\ queued < RingSize
  BY <1>1, DeviceAssumption DEF Types, Counts, Traffic
<1>4. queued' \in 0 .. RingSize /\ sent' \in 0 .. queued'
  BY <1>1, <1>3
<1>5. queue_stopped' \in BOOLEAN /\ txq' \in BOOLEAN
  BY <1>1
<1>6. lpi' \in BOOLEAN /\ lpien' \in BOOLEAN /\ eee_armed' \in BOOLEAN
  BY DEF Xmit, Types, Flags
<1>7. Calm
  <2>1. Sends'
    BY <1>1, <1>5 DEF Sends
  <2> QED
    BY <1>1, <1>2, <2>1 DEF Calm, cpu, power, rx, Receives
<1>8. Flags'
  BY <1>1, <1>5, <1>6 DEF cpu, power, rx, Types, Flags
<1>9. Modes'
  BY <1>1 DEF cpu, rx, Types, Modes
<1>10. Counts'
  BY <1>1, <1>4, DeviceAssumption DEF Types, Counts
<1>11. Traffic'
  <2>1. UNCHANGED <<polling, napi, ri, ring>> /\ ring = "ready"
    BY <1>1 DEF rx
  <2>2. (queue_stopped' => queued' = RingSize) /\ (txq' => queued' # RingSize)
    BY <1>1
  <2>3. txq' => queued' < RingSize
    BY <1>3, <1>4, <2>2
  <2> QED
    BY <2>1, <2>2, <2>3 DEF Traffic
<1> QED
  BY <1>7, <1>8, <1>9, <1>10, <1>11 DEF Types

LEMMA CalmFrame ==
    ASSUME Careful, Types, Traffic, FrameArrives
    PROVE  Calm /\ Types' /\ Traffic'
<1>1. /\ dma /\ ring = "ready" /\ ri' = TRUE /\ rxready' = TRUE /\ count.frames < NumFrames
      /\ count' = [count EXCEPT !.frames = @ + 1]
      /\ UNCHANGED <<cpu, todo, op, power, irq, napi, polling, rie, tx, eee, ring, dma, phy>>
  BY DEF FrameArrives
<1>2. ~Changing
  BY DEF Careful, AllRules, FrameArrives, Ruled
<1>3. Calm
  BY <1>1, <1>2 DEF Calm, cpu, power, tx, Receives, Sends
<1>4. ri' \in BOOLEAN /\ rxready' \in BOOLEAN
  BY <1>1
<1>5. Flags'
  BY <1>1, <1>4 DEF cpu, power, tx, eee, Types, Flags
<1>6. Modes'
  BY <1>1 DEF cpu, Types, Modes
<1>7. Counts'
  BY <1>1, DeviceAssumption DEF tx, Types, Counts
<1>8. Traffic'
  BY <1>1 DEF Traffic, tx
<1> QED
  BY <1>3, <1>5, <1>6, <1>7, <1>8 DEF Types

LEMMA CalmSent ==
    ASSUME Types, Traffic, PacketSent
    PROVE  Calm /\ Types' /\ Traffic'
<1>1. /\ sent < queued /\ sent' = sent + 1
      /\ UNCHANGED <<cpu, todo, op, power, rx, txq, queue_stopped, queued, eee, ring, dma, phy, count>>
  BY DEF PacketSent
<1>2. Calm
  BY <1>1 DEF Calm, cpu, power, rx, Receives, Sends
<1>3. Flags' /\ Modes'
  BY <1>1 DEF cpu, power, rx, eee, Types, Flags, Modes
<1>4. Counts'
  BY <1>1, DeviceAssumption DEF Types, Counts
<1>5. Traffic'
  BY <1>1 DEF Traffic, rx
<1> QED
  BY <1>2, <1>3, <1>4, <1>5 DEF Types

LEMMA MeanwhileCalm ==
    ASSUME Careful, Types, Traffic, txq /\ running => ring = "ready", Meanwhile
    PROVE  Calm /\ Types' /\ Traffic'
BY CalmReceive, CalmLpi, CalmReclaim, CalmPoll, CalmEeeTimer, CalmXmit, CalmFrame, CalmSent
   DEF Meanwhile, Timers, TxTimer, IsrTx

-----------------------------------------------------------------------------
(* An operation stands where it stood while the rest goes on.               *)

LEMMA RestsCalm ==
    ASSUME Types, Traffic, Calm, Rests
    PROVE  Rests'
<1>1. CASE Works
  <2>1. Works'
    BY <1>1 DEF Works, Calm
  <2> QED
    BY <2>1 DEF Rests, Calm
<1>2. CASE Sleeps
  <2>1. Sleeps'
    BY <1>2 DEF Sleeps, Calm
  <2> QED
    BY <2>1 DEF Rests, Calm
<1>3. CASE IsDown
  <2>1. IsDown'
    BY <1>3 DEF IsDown, Calm
  <2> QED
    BY <2>1 DEF Rests, Calm
<1> QED
  BY <1>1, <1>2, <1>3 DEF Rests

LEMMA OperatesCalm ==
    ASSUME Types, Traffic, Calm, Operates
    PROVE  Operates'
<1>1. isr = "none" /\ todo["isr"] = <<>> /\ isr' = "none" /\ todo' = todo /\ op' = op
  BY DEF Operates, Calm
<1>2. PICK k \in 1 .. 12 :
        \/ op = "open" /\ (OpenAt(k) \/ OpenFailed(k))
        \/ op = "close" /\ CloseAt(k)
        \/ op = "mtu" /\ MtuAt(k)
        \/ op = "powerdown" /\ (PowerdownAt(k) \/ NothingAt(k, Sleeps /\ ~suspended))
        \/ op = "powerup" /\ (PowerupAt(k) \/ NothingAt(k, Works))
        \/ op = "suspend" /\ SuspendAt(k)
        \/ op = "resume" /\ ResumeAt(k)
  BY DEF Operates
<1>3. ASSUME NEW program, At("task", program, k) PROVE At("task", program, k)'
  BY <1>1, <1>3 DEF At
<1>4. CASE op = "open" /\ OpenAt(k)
  <2>1. OpenAt(k)'
    BY <1>3, <1>4 DEF OpenAt, Calm
  <2> QED
    BY <1>1, <1>4, <2>1 DEF Operates
<1>5. CASE op = "open" /\ OpenFailed(k)
  <2>1. OpenFailed(k)'
    BY <1>3, <1>5 DEF OpenFailed, Calm
  <2> QED
    BY <1>1, <1>5, <2>1 DEF Operates
<1>6. CASE op = "close" /\ CloseAt(k)
  <2>1. CloseAt(k)'
    BY <1>3, <1>6 DEF CloseAt, Calm, Busy
  <2> QED
    BY <1>1, <1>6, <2>1 DEF Operates
<1>7. CASE op = "mtu" /\ MtuAt(k)
  <2>1. MtuAt(k)'
    BY <1>3, <1>7 DEF MtuAt, Calm, Busy
  <2> QED
    BY <1>1, <1>7, <2>1 DEF Operates
<1>8. CASE op = "powerdown" /\ PowerdownAt(k)
  <2>1. PowerdownAt(k)'
    BY <1>3, <1>8 DEF PowerdownAt, DescendsAt, Calm, Busy, Changing
  <2> QED
    BY <1>1, <1>8, <2>1 DEF Operates
<1>9. CASE op = "powerdown" /\ NothingAt(k, Sleeps /\ ~suspended)
  <2>1. (Sleeps /\ ~suspended)'
    BY <1>9 DEF NothingAt, Sleeps, Calm
  <2>2. NothingAt(k, Sleeps /\ ~suspended)'
    BY <1>3, <1>9, <2>1 DEF NothingAt
  <2> QED
    BY <1>1, <1>9, <2>2 DEF Operates
<1>10. CASE op = "powerup" /\ PowerupAt(k)
  <2>1. PowerupAt(k)'
    BY <1>3, <1>10 DEF PowerupAt, AscendsAt, Calm, Busy, Changing
  <2> QED
    BY <1>1, <1>10, <2>1 DEF Operates
<1>11. CASE op = "powerup" /\ NothingAt(k, Works)
  <2>1. Works'
    BY <1>11 DEF NothingAt, Works, Calm
  <2>2. NothingAt(k, Works)'
    BY <1>3, <1>11, <2>1 DEF NothingAt
  <2> QED
    BY <1>1, <1>11, <2>2 DEF Operates
<1>12. CASE op = "suspend" /\ SuspendAt(k)
  <2>1. SuspendAt(k)'
    BY <1>3, <1>12 DEF SuspendAt, DescendsAt, Calm, Busy, Changing
  <2> QED
    BY <1>1, <1>12, <2>1 DEF Operates
<1>13. CASE op = "resume" /\ ResumeAt(k)
  <2>1. ResumeAt(k)'
    BY <1>3, <1>13 DEF ResumeAt, AscendsAt, Calm, Busy, Changing
  <2> QED
    BY <1>1, <1>13, <2>1 DEF Operates
<1> QED
  BY <1>2, <1>4, <1>5, <1>6, <1>7, <1>8, <1>9, <1>10, <1>11, <1>12, <1>13

LEMMA ServesCalm ==
    ASSUME Types, Traffic, Calm, Serves
    PROVE  Serves'
<1>1. op = "none" /\ todo["task"] = <<>> /\ isr # "none"
      /\ op' = op /\ todo' = todo /\ isr' = isr
  BY DEF Serves, Calm
<1>2. PICK k \in 1 .. 9 : RestartAt(k) \/ WakeAt(k)
  BY DEF Serves
<1>3. ASSUME NEW program, At("isr", program, k) PROVE At("isr", program, k)'
  BY <1>1, <1>3 DEF At
<1>4. CASE RestartAt(k)
  <2>1. RestartAt(k)'
    BY <1>1, <1>3, <1>4 DEF RestartAt, Calm, Busy, Changing
  <2> QED
    BY <1>1, <2>1 DEF Serves
<1>5. CASE WakeAt(k)
  <2>1. WakeAt(k)'
    BY <1>1, <1>3, <1>5 DEF WakeAt, AscendsAt, Calm, Busy, Changing
  <2> QED
    BY <1>1, <2>1 DEF Serves
<1> QED
  BY <1>2, <1>4, <1>5

\* Where the stack may send, the ring is ready.
LEMMA RingForXmit ==
    ASSUME DeviceInv, txq, running
    PROVE  ring = "ready"
<1>1. CASE Rests
  BY <1>1 DEF Rests, Works, Sleeps, IsDown
<1>2. CASE Operates
  BY <1>2 DEF Operates, OpenAt, OpenFailed, CloseAt, MtuAt, PowerdownAt, DescendsAt, NothingAt,
     Sleeps, Works, PowerupAt, AscendsAt, SuspendAt, ResumeAt
<1>3. CASE Serves
  BY <1>3 DEF Serves, RestartAt, WakeAt, AscendsAt
<1> QED
  BY <1>1, <1>2, <1>3 DEF DeviceInv

LEMMA InvMeanwhile ==
    ASSUME Careful, DeviceInv, Meanwhile
    PROVE  DeviceInv'
<1>1. Types /\ Traffic
  BY DEF DeviceInv
<1>2. Calm /\ Types' /\ Traffic'
  BY <1>1, MeanwhileCalm, RingForXmit
<1>3. todo' \in [{"task", "isr"} -> Seq(Calls)]
  BY <1>2 DEF DeviceInv, Calm
<1> QED
  BY <1>1, <1>2, <1>3, RestsCalm, OperatesCalm, ServesCalm DEF DeviceInv

-----------------------------------------------------------------------------
(* The next call of the process.                                           *)

LEMMA NothingSafe ==
    ASSUME todo \in [{"task", "isr"} -> Seq(Calls)], NEW k, NEW rests,
           NothingAt(k, rests), Performs("task")
    PROVE  /\ Head(todo["task"]) \in {"ioctl_lock", "ioctl_unlock"}
           /\ At("task", Ioctl(<<>>), k + 1)' /\ k \in 1 .. 2
<1>1. k \in 1 .. 2 /\ Head(todo["task"]) = Ioctl(<<>>)[k] /\ At("task", Ioctl(<<>>), k + 1)'
  BY AtNext, ProgramsAre DEF NothingAt
<1>2. Ioctl(<<>>)[1] = "ioctl_lock" /\ Ioctl(<<>>)[2] = "ioctl_unlock"
  <2>1. <<>> \in Seq(Calls) /\ Len(<<>>) = 0
    BY EmptySeq
  <2>2. Ioctl(<<>>)[1] = "ioctl_lock" /\ Ioctl(<<>>)[Len(<<>>) + 2] = "ioctl_unlock"
    BY <2>1, IoctlIs
  <2> QED
    BY <2>1, <2>2
<1> QED
  BY <1>1, <1>2

LEMMA OperatesPerforms ==
    ASSUME DeviceInv, Operates, Performs("task")
    PROVE  Safe(Head(todo["task"])) /\ Operates'
<1> DEFINE c == Head(todo["task"])
<1>1. /\ isr = "none" /\ todo["isr"] = <<>> /\ todo["task"] # <<>>
      /\ todo \in [{"task", "isr"} -> Seq(Calls)] /\ Types /\ Traffic /\ Effect(c)
  BY DEF Operates, DeviceInv, Performs
<1>2. isr' = "none" /\ todo'["isr"] = <<>> /\ op' = op
  BY <1>1 DEF Performs, Effect
<1>3. PICK k \in 1 .. 12 :
        \/ op = "open" /\ (OpenAt(k) \/ OpenFailed(k))
        \/ op = "close" /\ CloseAt(k)
        \/ op = "mtu" /\ MtuAt(k)
        \/ op = "powerdown" /\ (PowerdownAt(k) \/ NothingAt(k, Sleeps /\ ~suspended))
        \/ op = "powerup" /\ (PowerupAt(k) \/ NothingAt(k, Works))
        \/ op = "suspend" /\ SuspendAt(k)
        \/ op = "resume" /\ ResumeAt(k)
  BY DEF Operates
<1>4. CASE op = "open" /\ OpenAt(k)
  <2>1. k \in 1 .. 11 /\ Safe(c) /\ OpenAt(k + 1)'
    BY <1>1, <1>4, OpenStep
  <2>2. k + 1 \in 1 .. 12
    BY <2>1
  <2> QED
    BY <1>2, <1>4, <2>1, <2>2 DEF Operates
<1>5. CASE op = "open" /\ OpenFailed(k)
  <2>1. k \in 1 .. 1 /\ Safe(c) /\ OpenFailed(k + 1)'
    BY <1>1, <1>5, OpenFailedStep
  <2>2. k + 1 \in 1 .. 12
    BY <2>1
  <2> QED
    BY <1>2, <1>5, <2>1, <2>2 DEF Operates
<1>6. CASE op = "close" /\ CloseAt(k)
  <2>1. k \in 1 .. 7 /\ Safe(c) /\ CloseAt(k + 1)'
    BY <1>1, <1>6, CloseStep
  <2>2. k + 1 \in 1 .. 12
    BY <2>1
  <2> QED
    BY <1>2, <1>6, <2>1, <2>2 DEF Operates
<1>7. CASE op = "mtu" /\ MtuAt(k)
  <2>1. k \in 1 .. 10 /\ Safe(c) /\ MtuAt(k + 1)'
    BY <1>1, <1>7, MtuStep
  <2>2. k + 1 \in 1 .. 12
    BY <2>1
  <2> QED
    BY <1>2, <1>7, <2>1, <2>2 DEF Operates
<1>8. CASE op = "powerdown" /\ PowerdownAt(k)
  <2>1. k \in 1 .. 9 /\ Safe(c) /\ PowerdownAt(k + 1)'
    BY <1>1, <1>8, PowerdownStep
  <2>2. k + 1 \in 1 .. 12
    BY <2>1
  <2> QED
    BY <1>2, <1>8, <2>1, <2>2 DEF Operates
<1>9. CASE op = "powerup" /\ PowerupAt(k)
  <2>1. k \in 1 .. 9 /\ Safe(c) /\ PowerupAt(k + 1)'
    BY <1>1, <1>9, PowerupStep
  <2>2. k + 1 \in 1 .. 12
    BY <2>1
  <2> QED
    BY <1>2, <1>9, <2>1, <2>2 DEF Operates
<1>10. CASE op = "suspend" /\ SuspendAt(k)
  <2>1. k \in 1 .. 7 /\ Safe(c) /\ SuspendAt(k + 1)'
    BY <1>1, <1>10, SuspendStep
  <2>2. k + 1 \in 1 .. 12
    BY <2>1
  <2> QED
    BY <1>2, <1>10, <2>1, <2>2 DEF Operates
<1>11. CASE op = "resume" /\ ResumeAt(k)
  <2>1. k \in 1 .. 7 /\ Safe(c) /\ ResumeAt(k + 1)'
    BY <1>1, <1>11, ResumeStep
  <2>2. k + 1 \in 1 .. 12
    BY <2>1
  <2> QED
    BY <1>2, <1>11, <2>1, <2>2 DEF Operates
<1>12. CASE op = "powerdown" /\ NothingAt(k, Sleeps /\ ~suspended)
  <2>1. c \in {"ioctl_lock", "ioctl_unlock"} /\ At("task", Ioctl(<<>>), k + 1)' /\ k \in 1 .. 2
    BY <1>1, <1>12, NothingSafe
  <2>2. Safe(c) /\ (Sleeps /\ ~suspended)'
    BY <1>1, <1>12, <2>1 DEF NothingAt, Sleeps, Effect, Safe
  <2>3. NothingAt(k + 1, Sleeps /\ ~suspended)' /\ k + 1 \in 1 .. 12
    BY <2>1, <2>2 DEF NothingAt
  <2> QED
    BY <1>2, <1>12, <2>2, <2>3 DEF Operates
<1>13. CASE op = "powerup" /\ NothingAt(k, Works)
  <2>1. c \in {"ioctl_lock", "ioctl_unlock"} /\ At("task", Ioctl(<<>>), k + 1)' /\ k \in 1 .. 2
    BY <1>1, <1>13, NothingSafe
  <2>2. Safe(c) /\ Works'
    BY <1>1, <1>13, <2>1 DEF NothingAt, Works, Effect, Safe, Receives, Sends
  <2>3. NothingAt(k + 1, Works)' /\ k + 1 \in 1 .. 12
    BY <2>1, <2>2 DEF NothingAt
  <2> QED
    BY <1>2, <1>13, <2>2, <2>3 DEF Operates
<1> QED
  BY <1>3, <1>4, <1>5, <1>6, <1>7, <1>8, <1>9, <1>10, <1>11, <1>12, <1>13

\* The next call of the service routine.
LEMMA ServesPerforms ==
    ASSUME DeviceInv, Serves, Performs("isr")
    PROVE  Safe(Head(todo["isr"])) /\ Serves'
<1> DEFINE c == Head(todo["isr"])
<1>1. /\ isr # "none" /\ todo["task"] = <<>> /\ op = "none"
      /\ todo \in [{"task", "isr"} -> Seq(Calls)] /\ Types /\ Traffic /\ Effect(c)
  BY DEF Serves, DeviceInv, Performs
<1>2. isr' # "none" /\ todo'["task"] = <<>> /\ op' = "none"
  BY <1>1 DEF Performs, Effect
<1>3. PICK k \in 1 .. 9 : RestartAt(k) \/ WakeAt(k)
  BY DEF Serves
<1>4. CASE RestartAt(k)
  <2>1. k \in 1 .. 8 /\ Safe(c) /\ RestartAt(k + 1)'
    BY <1>1, <1>4, RestartStep
  <2>2. k + 1 \in 1 .. 9
    BY <2>1
  <2> QED
    BY <1>2, <2>1, <2>2 DEF Serves
<1>5. CASE WakeAt(k)
  <2>1. k \in 1 .. 7 /\ Safe(c) /\ WakeAt(k + 1)'
    BY <1>1, <1>5, WakeStep
  <2>2. k + 1 \in 1 .. 9
    BY <2>1
  <2> QED
    BY <1>2, <2>1, <2>2 DEF Serves
<1> QED
  BY <1>3, <1>4, <1>5

\* alloc is a call of open.
LEMMA AllocIsOpen ==
    ASSUME DeviceInv, Operates, todo["task"] # <<>>, Head(todo["task"]) = "alloc"
    PROVE  op = "open" /\ OpenAt(2)
<1>1. todo \in [{"task", "isr"} -> Seq(Calls)] /\ Types /\ Traffic
  BY DEF DeviceInv
<1>2. PICK k \in 1 .. 12 :
        \/ op = "open" /\ (OpenAt(k) \/ OpenFailed(k))
        \/ op = "close" /\ CloseAt(k)
        \/ op = "mtu" /\ MtuAt(k)
        \/ op = "powerdown" /\ (PowerdownAt(k) \/ NothingAt(k, Sleeps /\ ~suspended))
        \/ op = "powerup" /\ (PowerupAt(k) \/ NothingAt(k, Works))
        \/ op = "suspend" /\ SuspendAt(k)
        \/ op = "resume" /\ ResumeAt(k)
  BY DEF Operates
<1>3. ASSUME NEW program \in Seq(Calls), At("task", program, k)
      PROVE  k \in 1 .. Len(program) /\ program[k] = "alloc"
  BY <1>3, AtFacts
<1>4. CASE OpenAt(k) /\ op = "open"
  <2>1. k \in 1 .. 11 /\ Open[k] = "alloc"
    BY <1>3, <1>4, ProgramsAre DEF OpenAt
  <2>2. k = 2
    BY <2>1 DEF Open
  <2> QED
    BY <1>4, <2>2
<1>5. ~OpenFailed(k)
  <2>1. ASSUME OpenFailed(k) PROVE FALSE
    <3>1. k \in 1 .. 1 /\ <<"free_irq">>[k] = "alloc"
      BY <1>3, <2>1, ProgramsAre DEF OpenFailed
    <3> QED
      BY <3>1
  <2> QED
    BY <2>1
<1>6. ~CloseAt(k)
  <2>1. ASSUME CloseAt(k) PROVE FALSE
    <3>1. k \in 1 .. 7 /\ Close[k] = "alloc"
      BY <1>3, <2>1, ProgramsAre DEF CloseAt
    <3> QED
      BY <3>1 DEF Close
  <2> QED
    BY <2>1
<1>7. ~MtuAt(k)
  <2>1. ASSUME MtuAt(k) PROVE FALSE
    <3>1. k \in 1 .. 10 /\ ChangeMtu[k] = "alloc"
      BY <1>3, <2>1, ProgramsAre DEF MtuAt
    <3> QED
      BY <3>1 DEF ChangeMtu
  <2> QED
    BY <2>1
<1>8. ~SuspendAt(k)
  <2>1. ASSUME SuspendAt(k) PROVE FALSE
    <3>1. k \in 1 .. 7 /\ Powerdown("driver")[k] = "alloc"
      BY <1>3, <2>1, ProgramsAre DEF SuspendAt
    <3> QED
      BY <3>1 DEF Powerdown
  <2> QED
    BY <2>1
<1>9. ~ResumeAt(k)
  <2>1. ASSUME ResumeAt(k) PROVE FALSE
    <3>1. k \in 1 .. 7 /\ Powerup[k] = "alloc"
      BY <1>3, <2>1, ProgramsAre DEF ResumeAt
    <3> QED
      BY <3>1 DEF Powerup
  <2> QED
    BY <2>1
<1>10. ~PowerdownAt(k)
  <2>1. ASSUME PowerdownAt(k) PROVE FALSE
    <3>1. k \in 1 .. 9 /\ Ioctl(Powerdown("ioctl"))[k] = "alloc"
      BY <1>3, <2>1, ProgramsAre DEF PowerdownAt
    <3> QED
      BY <3>1, IoctlPowerdown
  <2> QED
    BY <2>1
<1>11. ~PowerupAt(k)
  <2>1. ASSUME PowerupAt(k) PROVE FALSE
    <3>1. k \in 1 .. 9 /\ Ioctl(Powerup)[k] = "alloc"
      BY <1>3, <2>1, ProgramsAre DEF PowerupAt
    <3> QED
      BY <3>1, IoctlPowerup
  <2> QED
    BY <2>1
<1>12. ASSUME NEW rests, NothingAt(k, rests) PROVE FALSE
  <2>1. k \in 1 .. 2 /\ Ioctl(<<>>)[k] = "alloc"
    BY <1>3, <1>12, ProgramsAre DEF NothingAt
  <2>2. Ioctl(<<>>)[1] = "ioctl_lock" /\ Ioctl(<<>>)[2] = "ioctl_unlock"
    <3>1. <<>> \in Seq(Calls) /\ Len(<<>>) = 0
      BY EmptySeq
    <3>2. Ioctl(<<>>)[1] = "ioctl_lock" /\ Ioctl(<<>>)[Len(<<>>) + 2] = "ioctl_unlock"
      BY <3>1, IoctlIs
    <3> QED
      BY <3>1, <3>2
  <2> QED
    BY <2>1, <2>2
<1>13. ~NothingAt(k, Sleeps /\ ~suspended) /\ ~NothingAt(k, Works)
  BY <1>12
<1> QED
  BY <1>2, <1>4, <1>5, <1>6, <1>7, <1>8, <1>9, <1>10, <1>11, <1>13

-----------------------------------------------------------------------------
(* The invariant is inductive: calls.                                      *)

LEMMA TodoAfter ==
    ASSUME todo \in [{"task", "isr"} -> Seq(Calls)], NEW t \in {"task", "isr"}, Performs(t)
    PROVE  todo' \in [{"task", "isr"} -> Seq(Calls)]
<1>1. todo[t] \in Seq(Calls) /\ todo[t] # <<>> /\ todo' = [todo EXCEPT ![t] = Tail(@)]
  BY DEF Performs
<1>2. Tail(todo[t]) \in Seq(Calls)
  BY <1>1, HeadTailProperties
<1> QED
  BY <1>1, <1>2

LEMMA InvTaskCall ==
    ASSUME DeviceInv, Call("task")
    PROVE  DeviceInv'
<1>1. Types /\ Traffic /\ todo \in [{"task", "isr"} -> Seq(Calls)]
  BY DEF DeviceInv
<1>2. (Performs("task") \/ AllocFails("task")) /\ Types'
  BY <1>1, CallPerforms, CallTypes
<1>3. todo["task"] # <<>>
  BY <1>2 DEF Performs, AllocFails, Does
<1>4. Operates
  BY <1>3 DEF DeviceInv, Rests, Serves
<1>5. CASE Performs("task")
  <2>1. Safe(Head(todo["task"])) /\ Operates'
    BY <1>4, <1>5, OperatesPerforms
  <2>2. Traffic'
    BY <1>1, <1>5, <2>1, CallTraffic DEF Performs
  <2>3. todo' \in [{"task", "isr"} -> Seq(Calls)]
    BY <1>1, <1>5, TodoAfter
  <2> QED
    BY <1>2, <2>1, <2>2, <2>3 DEF DeviceInv
<1>6. CASE AllocFails("task")
  <2>1. /\ Head(todo["task"]) = "alloc"
        /\ todo' = [todo EXCEPT !["task"] = <<"free_irq">>] /\ running' = FALSE
        /\ UNCHANGED <<op, cpu, suspended, power_down, rx, tx, ring, dma, phy>>
    BY <1>6 DEF AllocFails, Does
  <2>2. op = "open" /\ OpenAt(2)
    BY <1>3, <1>4, <2>1, AllocIsOpen
  <2>3. /\ todo' \in [{"task", "isr"} -> Seq(Calls)]
        /\ todo'["task"] = <<"free_irq">> /\ todo'["isr"] = todo["isr"]
    BY <1>1, <2>1, ProgramsAre
  <2>4. At("task", <<"free_irq">>, 1)'
    <3>1. SubSeq(<<"free_irq">>, 1, 1) = <<"free_irq">>
      BY ProgramsAre, SubSeqFull
    <3> QED
      BY <2>3, <3>1, ProgramsAre DEF At
  <2>5. OpenFailed(1)'
    BY <2>1, <2>2, <2>4 DEF OpenFailed, OpenAt, cpu, rx, tx
  <2>6. Operates'
    BY <1>4, <2>1, <2>2, <2>3, <2>5 DEF Operates, cpu
  <2>7. Traffic'
    BY <1>1, <2>1 DEF Traffic, rx, tx
  <2> QED
    BY <1>2, <2>3, <2>6, <2>7 DEF DeviceInv
<1> QED
  BY <1>2, <1>5, <1>6

\* A call of a program is a call of the service routine, which allocates nothing.
LEMMA ServesNoAlloc ==
    ASSUME DeviceInv, Serves, todo["isr"] # <<>>
    PROVE  Head(todo["isr"]) # "alloc"
<1>1. PICK k \in 1 .. 9 : RestartAt(k) \/ WakeAt(k)
  BY DEF Serves
<1>2. ASSUME NEW program \in Seq(Calls), At("isr", program, k)
      PROVE  k \in 1 .. Len(program) /\ Head(todo["isr"]) = program[k]
  BY <1>2, AtFacts
<1>3. CASE RestartAt(k)
  <2>1. k \in 1 .. 8 /\ Head(todo["isr"]) = Restart[k]
    BY <1>2, <1>3, ProgramsAre DEF RestartAt
  <2> QED
    BY <2>1 DEF Restart
<1>4. CASE WakeAt(k)
  <2>1. k \in 1 .. 7 /\ Head(todo["isr"]) = Powerup[k]
    BY <1>2, <1>4, ProgramsAre DEF WakeAt
  <2> QED
    BY <2>1 DEF Powerup
<1> QED
  BY <1>1, <1>3, <1>4

LEMMA InvIsrCall ==
    ASSUME DeviceInv, Call("isr")
    PROVE  DeviceInv'
<1>1. Types /\ Traffic /\ todo \in [{"task", "isr"} -> Seq(Calls)]
  BY DEF DeviceInv
<1>2. (Performs("isr") \/ AllocFails("isr")) /\ Types'
  BY <1>1, CallPerforms, CallTypes
<1>3. todo["isr"] # <<>>
  BY <1>2 DEF Performs, AllocFails, Does
<1>4. Serves
  BY <1>3 DEF DeviceInv, Rests, Operates
<1>5. Performs("isr")
  BY <1>2, <1>3, <1>4, ServesNoAlloc DEF AllocFails, Does
<1>6. Safe(Head(todo["isr"])) /\ Serves'
  BY <1>4, <1>5, ServesPerforms
<1>7. Traffic'
  BY <1>1, <1>5, <1>6, CallTraffic DEF Performs
<1>8. todo' \in [{"task", "isr"} -> Seq(Calls)]
  BY <1>1, <1>5, TodoAfter
<1> QED
  BY <1>2, <1>6, <1>7, <1>8 DEF DeviceInv

-----------------------------------------------------------------------------
(* The beginning and the end of an operation.                              *)

\* An operation begins at the first call of its program.
LEMMA Begun ==
    ASSUME DeviceInv, NEW name \in {"open", "close", "mtu", "powerdown", "powerup", "suspend", "resume"},
           NEW calls \in Seq(Calls), Careful, Begin(name, calls)
    PROVE  /\ Rests /\ isr' = "none" /\ todo'["isr"] = <<>> /\ op' = name
           /\ todo' \in [{"task", "isr"} -> Seq(Calls)]
           /\ At("task", calls, 1)'
           /\ UNCHANGED <<rx, tx, ring, dma, phy>> /\ Modes' /\ Counts' /\ Traffic'
           /\ UNCHANGED <<cpu, eee>>
<1>1. /\ op = "none" /\ todo["task"] = <<>> /\ isr = "none"
      /\ op' = name /\ todo' = [todo EXCEPT !["task"] = calls]
      /\ count.ops < NumOps /\ count' = [count EXCEPT !.ops = @ + 1]
      /\ UNCHANGED <<cpu, rx, tx, eee, ring, dma, phy>>
  BY DEF Begin, Idle, Ruled, Careful, AllRules
<1>2. Rests
  BY <1>1 DEF DeviceInv, Operates, Serves, Rests
<1>3. /\ todo' \in [{"task", "isr"} -> Seq(Calls)]
      /\ todo'["task"] = calls /\ todo'["isr"] = <<>>
  BY <1>1, <1>2 DEF DeviceInv, Rests
<1>4. At("task", calls, 1)'
  BY <1>3, SubSeqFull DEF At
<1>5. Modes' /\ Traffic' /\ isr' = "none"
  BY <1>1 DEF DeviceInv, Types, Modes, Traffic, cpu, rx, tx
<1>6. Counts'
  <2>1. Counts /\ UNCHANGED <<queued, sent>>
    BY <1>1 DEF DeviceInv, Types, tx
  <2>2. count'.ops \in 0 .. NumOps /\ count' \in [ops : 0 .. NumOps, frames : 0 .. NumFrames, packets : 0 .. NumPackets]
    BY <1>1, <2>1, DeviceAssumption DEF Counts
  <2> QED
    BY <2>1, <2>2 DEF Counts
<1> QED
  BY <1>1, <1>2, <1>3, <1>4, <1>5, <1>6

LEMMA InvBegin ==
    ASSUME Careful, DeviceInv, BeginSome
    PROVE  DeviceInv'
<1> USE DEF Ruled
<1>1. Types /\ Traffic
  BY DEF DeviceInv
<1>2. ASSUME NEW name \in {"open", "close", "mtu", "powerdown", "powerup", "suspend", "resume"},
             NEW calls \in Seq(Calls), Begin(name, calls), Operates',
             running' \in BOOLEAN, suspended' \in BOOLEAN, UNCHANGED <<power_down, pmt>>
      PROVE  DeviceInv'
  <2>1. Flags'
    BY <1>1, <1>2, Begun DEF Types, Flags, cpu, rx, tx, eee
  <2> QED
    BY <1>2, <2>1, Begun DEF DeviceInv, Types
<1>3. CASE BeginOpen
  <2>1. ~running /\ ~suspended /\ Begin("open", Open) /\ running' = TRUE
        /\ UNCHANGED <<suspended, power_down, pmt>>
    BY <1>3 DEF BeginOpen
  <2>2. IsDown
    BY <2>1, Begun, ProgramsAre DEF Rests, Works, Sleeps
  <2>3. OpenAt(1)'
    BY <2>1, <2>2, Begun, ProgramsAre DEF OpenAt, IsDown, rx, tx
  <2>4. Operates'
    BY <2>1, <2>3, Begun, ProgramsAre DEF Operates
  <2>5. running' \in BOOLEAN /\ suspended' \in BOOLEAN
    BY <1>1, <2>1 DEF Types, Flags
  <2> QED
    BY <1>2, <2>1, <2>4, <2>5, ProgramsAre
<1>4. CASE BeginClose
  <2>1. running /\ ~suspended /\ ~power_down /\ queued = 0 /\ Begin("close", Close)
        /\ running' = FALSE /\ UNCHANGED <<suspended, power_down, pmt>>
    BY <1>4 DEF BeginClose, Careful, AllRules, Drained
  <2>2. Works
    BY <2>1, Begun, ProgramsAre DEF Rests, IsDown, Sleeps
  <2>3. CloseAt(1)'
    <3>1. /\ At("task", Close, 1)'
          /\ UNCHANGED <<irq, napi, rie, ri, txq, queue_stopped, queued, ring, dma, phy>>
      BY <2>1, <2>2, Begun, ProgramsAre DEF rx, tx
    <3> QED
      BY <2>1, <2>2, <3>1 DEF CloseAt, Works
  <2>4. Operates'
    BY <2>1, <2>3, Begun, ProgramsAre DEF Operates
  <2>5. running' \in BOOLEAN /\ suspended' \in BOOLEAN
    BY <1>1, <2>1 DEF Types, Flags
  <2> QED
    BY <1>2, <2>1, <2>4, <2>5, ProgramsAre
<1>5. CASE BeginMtu
  <2>1. running /\ ~suspended /\ ~power_down /\ queued = 0 /\ Begin("mtu", ChangeMtu)
        /\ UNCHANGED power
    BY <1>5 DEF BeginMtu, Careful, AllRules, Drained
  <2>2. Works
    BY <2>1, Begun, ProgramsAre DEF Rests, IsDown, Sleeps
  <2>3. MtuAt(1)'
    <3>1. /\ At("task", ChangeMtu, 1)'
          /\ UNCHANGED <<irq, napi, rie, ri, txq, queue_stopped, queued, ring, dma, phy>>
      BY <2>1, <2>2, Begun, ProgramsAre DEF rx, tx
    <3> QED
      BY <2>1, <2>2, <3>1 DEF MtuAt, Works, power
  <2>4. Operates'
    BY <2>1, <2>3, Begun, ProgramsAre DEF Operates
  <2>5. running' \in BOOLEAN /\ suspended' \in BOOLEAN /\ UNCHANGED <<power_down, pmt>>
    BY <1>1, <2>1 DEF Types, Flags, power
  <2> QED
    BY <1>2, <2>1, <2>4, <2>5, ProgramsAre
<1>6. CASE BeginPowerdown
  <2> DEFINE calls == IF power_down THEN Ioctl(<<>>) ELSE Ioctl(Powerdown("ioctl"))
  <2>1. running /\ ~suspended /\ queued = 0 /\ Quiet /\ UNCHANGED power
        /\ Begin("powerdown", calls)
    BY <1>6 DEF BeginPowerdown, Careful, AllRules, Drained
  <2>2. calls \in Seq(Calls)
    BY ProgramsAre
  <2>3. Works \/ Sleeps
    BY <2>1, <2>2, Begun DEF Rests, IsDown
  <2>4. ASSUME power_down PROVE Operates'
    <3>1. Sleeps /\ Begin("powerdown", Ioctl(<<>>))
      BY <2>1, <2>3, <2>4 DEF Works
    <3>2. (Sleeps /\ ~suspended)'
      BY <2>1, <3>1, Begun, ProgramsAre DEF Sleeps, rx, tx, power
    <3>3. NothingAt(1, Sleeps /\ ~suspended)'
      BY <3>1, <3>2, Begun, ProgramsAre DEF NothingAt
    <3> QED
      BY <3>1, <3>3, Begun, ProgramsAre DEF Operates
  <2>5. ASSUME ~power_down PROVE Operates'
    <3>1. Works /\ Begin("powerdown", Ioctl(Powerdown("ioctl")))
      BY <2>1, <2>3, <2>5 DEF Sleeps
    <3>2. PowerdownAt(1)'
      <4>1. /\ At("task", Ioctl(Powerdown("ioctl")), 1)'
            /\ UNCHANGED <<irq, napi, rie, ri, txq, queue_stopped, queued, ring, dma, phy>>
        BY <2>1, <3>1, Begun, ProgramsAre DEF rx, tx
      <4> QED
        BY <2>1, <3>1, <4>1 DEF PowerdownAt, DescendsAt, Works, Receives, Quiet, power
    <3> QED
      BY <3>1, <3>2, Begun, ProgramsAre DEF Operates
  <2>6. running' \in BOOLEAN /\ suspended' \in BOOLEAN /\ UNCHANGED <<power_down, pmt>>
    BY <1>1, <2>1 DEF Types, Flags, power
  <2> QED
    BY <1>2, <2>1, <2>2, <2>4, <2>5, <2>6
<1>7. CASE BeginPowerup
  <2> DEFINE calls == IF power_down THEN Ioctl(Powerup) ELSE Ioctl(<<>>)
  <2>1. running /\ ~suspended /\ UNCHANGED power /\ Begin("powerup", calls)
    BY <1>7 DEF BeginPowerup
  <2>2. calls \in Seq(Calls)
    BY ProgramsAre
  <2>3. Works \/ Sleeps
    BY <2>1, <2>2, Begun DEF Rests, IsDown
  <2>4. ASSUME power_down PROVE Operates'
    <3>1. Sleeps /\ Begin("powerup", Ioctl(Powerup))
      BY <2>1, <2>3, <2>4 DEF Works
    <3>2. PowerupAt(1)'
      <4>1. /\ At("task", Ioctl(Powerup), 1)'
            /\ UNCHANGED <<irq, napi, rie, ri, txq, queue_stopped, queued, ring, dma, phy>>
        BY <2>1, <2>4, <3>1, Begun, ProgramsAre DEF rx, tx
      <4> QED
        BY <2>1, <2>4, <3>1, <4>1 DEF PowerupAt, AscendsAt, Sleeps, power
    <3> QED
      BY <3>1, <3>2, Begun, ProgramsAre DEF Operates
  <2>5. ASSUME ~power_down PROVE Operates'
    <3>1. Works /\ Begin("powerup", Ioctl(<<>>))
      BY <2>1, <2>3, <2>5 DEF Sleeps
    <3>2. Works'
      BY <2>1, <3>1, Begun, ProgramsAre DEF Works, Receives, Sends, rx, tx, power
    <3>3. NothingAt(1, Works)'
      BY <3>1, <3>2, Begun, ProgramsAre DEF NothingAt
    <3> QED
      BY <3>1, <3>3, Begun, ProgramsAre DEF Operates
  <2>6. running' \in BOOLEAN /\ suspended' \in BOOLEAN /\ UNCHANGED <<power_down, pmt>>
    BY <1>1, <2>1 DEF Types, Flags, power
  <2> QED
    BY <1>2, <2>1, <2>2, <2>4, <2>5, <2>6
<1>8. CASE BeginSuspend
  <2>1. running /\ ~suspended /\ ~power_down /\ queued = 0 /\ Quiet
        /\ Begin("suspend", Powerdown("driver")) /\ suspended' = TRUE
        /\ UNCHANGED <<running, power_down, pmt>>
    BY <1>8 DEF BeginSuspend, Careful, AllRules, Drained
  <2>2. Works
    BY <2>1, Begun, ProgramsAre DEF Rests, IsDown, Sleeps
  <2>3. SuspendAt(1)'
    <3>1. /\ At("task", Powerdown("driver"), 1)'
          /\ UNCHANGED <<irq, napi, rie, ri, txq, queue_stopped, queued, ring, dma, phy>>
      BY <2>1, <2>2, Begun, ProgramsAre DEF rx, tx
    <3> QED
      BY <2>1, <2>2, <3>1 DEF SuspendAt, DescendsAt, Works, Receives, Quiet
  <2>4. Operates'
    BY <2>1, <2>3, Begun, ProgramsAre DEF Operates
  <2>5. running' \in BOOLEAN /\ suspended' \in BOOLEAN
    BY <1>1, <2>1 DEF Types, Flags
  <2> QED
    BY <1>2, <2>1, <2>4, <2>5, ProgramsAre
<1>9. CASE BeginResume
  <2>1. suspended /\ Begin("resume", Powerup) /\ suspended' = FALSE
        /\ UNCHANGED <<running, power_down, pmt>>
    BY <1>9 DEF BeginResume
  <2>2. Sleeps /\ ~power_down
    BY <2>1, Begun, ProgramsAre DEF Rests, IsDown, Works, Sleeps
  <2>3. ResumeAt(1)'
    <3>1. /\ At("task", Powerup, 1)'
          /\ UNCHANGED <<irq, napi, rie, ri, txq, queue_stopped, queued, ring, dma, phy>>
      BY <2>1, <2>2, Begun, ProgramsAre DEF rx, tx
    <3> QED
      BY <2>1, <2>2, <3>1 DEF ResumeAt, AscendsAt, Sleeps
  <2>4. Operates'
    BY <2>1, <2>3, Begun, ProgramsAre DEF Operates
  <2>5. running' \in BOOLEAN /\ suspended' \in BOOLEAN
    BY <1>1, <2>1 DEF Types, Flags
  <2> QED
    BY <1>2, <2>1, <2>4, <2>5, ProgramsAre
<1> QED
  BY <1>3, <1>4, <1>5, <1>6, <1>7, <1>8, <1>9 DEF BeginSome

\* The operation returns: the device rests.
LEMMA InvEnd ==
    ASSUME DeviceInv, End
    PROVE  DeviceInv'
<1>1. /\ op # "none" /\ todo["task"] = <<>> /\ op' = "none"
      /\ UNCHANGED <<cpu, todo, power, rx, tx, eee, ring, dma, phy, count>>
  BY DEF End
<1>2. Operates
  BY <1>1 DEF DeviceInv, Rests, Serves
<1>3. PICK k \in 1 .. 12 :
        \/ op = "open" /\ (OpenAt(k) \/ OpenFailed(k))
        \/ op = "close" /\ CloseAt(k)
        \/ op = "mtu" /\ MtuAt(k)
        \/ op = "powerdown" /\ (PowerdownAt(k) \/ NothingAt(k, Sleeps /\ ~suspended))
        \/ op = "powerup" /\ (PowerupAt(k) \/ NothingAt(k, Works))
        \/ op = "suspend" /\ SuspendAt(k)
        \/ op = "resume" /\ ResumeAt(k)
  BY <1>2 DEF Operates
<1>4. ASSUME NEW program \in Seq(Calls), At("task", program, k) PROVE k = Len(program) + 1
  BY <1>1, <1>4, AtFacts
<1>5. Works \/ Sleeps \/ IsDown
  <2>1. CASE OpenAt(k)
    <3>1. k = 12
      <4>1. k = Len(Open) + 1
        BY <1>4, <2>1, ProgramsAre DEF OpenAt
      <4> QED
        BY <4>1, ProgramsAre
    <3>2. Works
      BY <2>1, <3>1 DEF OpenAt, Works
    <3> QED
      BY <3>2
  <2>2. CASE OpenFailed(k)
    <3>1. k = 2
      <4>1. k = Len(<<"free_irq">>) + 1
        BY <1>4, <2>2, ProgramsAre DEF OpenFailed
      <4> QED
        BY <4>1, ProgramsAre
    <3>2. IsDown
      BY <2>2, <3>1 DEF OpenFailed, IsDown
    <3> QED
      BY <3>2
  <2>3. CASE CloseAt(k)
    <3>1. k = 8
      <4>1. k = Len(Close) + 1
        BY <1>4, <2>3, ProgramsAre DEF CloseAt
      <4> QED
        BY <4>1, ProgramsAre
    <3>2. IsDown
      BY <2>3, <3>1 DEF CloseAt, IsDown
    <3> QED
      BY <3>2
  <2>4. CASE MtuAt(k)
    <3>1. k = 11
      <4>1. k = Len(ChangeMtu) + 1
        BY <1>4, <2>4, ProgramsAre DEF MtuAt
      <4> QED
        BY <4>1, ProgramsAre
    <3>2. Works
      BY <2>4, <3>1 DEF MtuAt, Works, Sends
    <3> QED
      BY <3>2
  <2>5. CASE PowerdownAt(k)
    <3>1. k = 10
      <4> DEFINE p == Ioctl(Powerdown("ioctl"))
      <4>1. p \in Seq(Calls) /\ Len(p) = 9
        BY ProgramsAre
      <4>2. At("task", p, k)
        BY <2>5 DEF PowerdownAt
      <4> HIDE DEF p
      <4>3. k = Len(p) + 1
        BY <1>4, <4>1, <4>2
      <4> QED
        BY <4>1, <4>3
    <3>2. Sleeps
      BY <2>5, <3>1 DEF PowerdownAt, DescendsAt, Sleeps
    <3> QED
      BY <3>2
  <2>6. CASE PowerupAt(k)
    <3>1. k = 10
      <4>1. k = Len(Ioctl(Powerup)) + 1
        BY <1>4, <2>6, ProgramsAre DEF PowerupAt
      <4> QED
        BY <4>1, ProgramsAre
    <3>2. Works
      BY <2>6, <3>1 DEF PowerupAt, AscendsAt, Works, Receives, Sends
    <3> QED
      BY <3>2
  <2>7. CASE SuspendAt(k)
    <3>1. k = 8
      <4> DEFINE p == Powerdown("driver")
      <4>1. p \in Seq(Calls) /\ Len(p) = 7
        BY ProgramsAre
      <4>2. At("task", p, k)
        BY <2>7 DEF SuspendAt
      <4> HIDE DEF p
      <4>3. k = Len(p) + 1
        BY <1>4, <4>1, <4>2
      <4> QED
        BY <4>1, <4>3
    <3>2. Sleeps
      BY <2>7, <3>1 DEF SuspendAt, DescendsAt, Sleeps
    <3> QED
      BY <3>2
  <2>8. CASE ResumeAt(k)
    <3>1. k = 8
      <4>1. k = Len(Powerup) + 1
        BY <1>4, <2>8, ProgramsAre DEF ResumeAt
      <4> QED
        BY <4>1, ProgramsAre
    <3>2. Works
      BY <2>8, <3>1 DEF ResumeAt, AscendsAt, Works, Receives, Sends
    <3> QED
      BY <3>2
  <2>9. CASE NothingAt(k, Sleeps /\ ~suspended) \/ NothingAt(k, Works)
    BY <2>9 DEF NothingAt
  <2> QED
    BY <1>3, <2>1, <2>2, <2>3, <2>4, <2>5, <2>6, <2>7, <2>8, <2>9
<1>6. Works' \/ Sleeps' \/ IsDown'
  BY <1>1, <1>5 DEF Works, Sleeps, IsDown, Receives, Sends, power, rx, tx
<1>7. Rests'
  BY <1>1, <1>2, <1>6 DEF Rests, Operates, cpu
<1>8. Types' /\ Traffic'
  <2>1. Flags'
    BY <1>1 DEF DeviceInv, Types, Flags, cpu, power, rx, tx, eee
  <2>2. Modes' /\ Counts' /\ Traffic'
    BY <1>1 DEF DeviceInv, Types, Modes, Counts, Traffic, cpu, rx, tx
  <2> QED
    BY <2>1, <2>2 DEF Types
<1> QED
  BY <1>1, <1>7, <1>8 DEF DeviceInv

\* The service routine returns.
LEMMA InvIsrReturn ==
    ASSUME DeviceInv, IsrReturn
    PROVE  DeviceInv'
<1>1. /\ isr # "none" /\ todo["isr"] = <<>> /\ isr' = "none"
      /\ UNCHANGED <<smp, lock, irqoff, todo, op, power, rx, tx, eee, ring, dma, phy, count>>
  BY DEF IsrReturn
<1>2. Serves
  BY <1>1 DEF DeviceInv, Rests, Operates
<1>3. PICK k \in 1 .. 9 : RestartAt(k) \/ WakeAt(k)
  BY <1>2 DEF Serves
<1>4. ASSUME NEW program \in Seq(Calls), At("isr", program, k) PROVE k = Len(program) + 1
  BY <1>1, <1>4, AtFacts
<1>5. Works
  <2>1. CASE RestartAt(k)
    <3>1. k = 9
      <4>1. k = Len(Restart) + 1
        BY <1>4, <2>1, ProgramsAre DEF RestartAt
      <4> QED
        BY <4>1, ProgramsAre
    <3> QED
      BY <2>1, <3>1 DEF RestartAt, Works, Receives, Sends
  <2>2. CASE WakeAt(k)
    <3>1. k = 8
      <4>1. k = Len(Powerup) + 1
        BY <1>4, <2>2, ProgramsAre DEF WakeAt
      <4> QED
        BY <4>1, ProgramsAre
    <3> QED
      BY <2>2, <3>1 DEF WakeAt, AscendsAt, Works, Receives, Sends
  <2> QED
    BY <1>3, <2>1, <2>2
<1>6. Works'
  BY <1>1, <1>5 DEF Works, Receives, Sends, power, rx, tx
<1>7. Rests'
  BY <1>1, <1>2, <1>6 DEF Rests, Serves
<1>8. Types' /\ Traffic'
  <2>1. Flags'
    BY <1>1 DEF DeviceInv, Types, Flags, power, rx, tx, eee
  <2>2. Modes' /\ Counts' /\ Traffic'
    BY <1>1 DEF DeviceInv, Types, Modes, Counts, Traffic, rx, tx
  <2> QED
    BY <2>1, <2>2 DEF Types
<1> QED
  BY <1>1, <1>7, <1>8 DEF DeviceInv

-----------------------------------------------------------------------------
(* The service routine begins an operation of its own.                     *)

\* drv.c:490: the device works and is idle, so that no frame is reported.
LEMMA InvBusError ==
    ASSUME Careful, DeviceInv, NEW c \in {"same", "other"}, IsrBusError(c)
    PROVE  DeviceInv'
<1>1. /\ Idle /\ Quiet /\ queued = 0 /\ dma /\ isr = "none"
      /\ isr' = c /\ todo' = [todo EXCEPT !["isr"] = Restart]
      /\ UNCHANGED <<smp, lock, irqoff, op, power, irq, polling, rxready, tx, eee, ring, dma, phy,
                     count>>
  BY DEF IsrBusError, CanInterrupt, Careful, AllRules, Ruled
<1>2. UNCHANGED <<ri, rie, napi>>
  BY <1>1 DEF IsrBusError, Quiet
<1>3. Works /\ op = "none" /\ todo["task"] = <<>>
  BY <1>1 DEF Idle, DeviceInv, Rests, Operates, Serves, Sleeps, IsDown
<1>4. /\ todo' \in [{"task", "isr"} -> Seq(Calls)]
      /\ todo'["isr"] = Restart /\ todo'["task"] = <<>>
  BY <1>1, <1>3, ProgramsAre DEF DeviceInv
<1>5. At("isr", Restart, 1)'
  BY <1>4, SubSeqFull, ProgramsAre DEF At
<1>6. ~ri /\ rie
  BY <1>1, <1>3 DEF Works, Receives, Quiet
<1>7. RestartAt(1)'
  <2>1. UNCHANGED <<running, suspended, power_down, txq, queued>>
    BY <1>1 DEF power, tx
  <2> QED
    BY <1>1, <1>2, <1>3, <1>5, <1>6, <2>1 DEF RestartAt, Works
<1>8. Serves'
  BY <1>1, <1>3, <1>4, <1>7 DEF Serves
<1>9. Types' /\ Traffic'
  <2>1. Flags'
    BY <1>1, <1>2 DEF DeviceInv, Types, Flags, power, tx, eee
  <2>2. Modes' /\ Counts' /\ Traffic'
    BY <1>1, <1>2 DEF DeviceInv, Types, Modes, Counts, Traffic, tx
  <2> QED
    BY <2>1, <2>2 DEF Types
<1> QED
  BY <1>4, <1>8, <1>9 DEF DeviceInv

\* drv.c:563: the device was powered down by the ioctl.
LEMMA InvWake ==
    ASSUME Careful, DeviceInv, NEW c \in {"same", "other"}, IsrPmt(c)
    PROVE  DeviceInv'
<1>1. /\ Idle /\ power_down /\ isr = "none"
      /\ isr' = c /\ todo' = [todo EXCEPT !["isr"] = Powerup]
      /\ UNCHANGED <<smp, lock, irqoff, op, power, rx, tx, eee, ring, dma, phy, count>>
  BY DEF IsrPmt, CanInterrupt, Careful, AllRules, Ruled
<1>2. Sleeps /\ op = "none" /\ todo["task"] = <<>>
  BY <1>1 DEF Idle, DeviceInv, Rests, Operates, Serves, Works, IsDown
<1>3. /\ todo' \in [{"task", "isr"} -> Seq(Calls)]
      /\ todo'["isr"] = Powerup /\ todo'["task"] = <<>>
  BY <1>1, <1>2, ProgramsAre DEF DeviceInv
<1>4. At("isr", Powerup, 1)'
  BY <1>3, SubSeqFull, ProgramsAre DEF At
<1>5. WakeAt(1)'
  BY <1>1, <1>2, <1>4 DEF WakeAt, AscendsAt, Sleeps, power, rx, tx
<1>6. Serves'
  BY <1>1, <1>2, <1>3, <1>5 DEF Serves
<1>7. Types' /\ Traffic'
  <2>1. Flags'
    BY <1>1 DEF DeviceInv, Types, Flags, power, rx, tx, eee
  <2>2. Modes' /\ Counts' /\ Traffic'
    BY <1>1 DEF DeviceInv, Types, Modes, Counts, Traffic, rx, tx
  <2> QED
    BY <2>1, <2>2 DEF Types
<1> QED
  BY <1>3, <1>6, <1>7 DEF DeviceInv

LEMMA InvStutter ==
    ASSUME DeviceInv, UNCHANGED vars
    PROVE  DeviceInv'
<1>1. UNCHANGED <<smp, isr, lock, irqoff, todo, op, running, suspended, power_down, pmt, irq, napi>>
      /\ UNCHANGED <<polling, rie, ri, rxready, txq, queue_stopped, queued, sent>>
      /\ UNCHANGED <<eee_enabled, eee_armed, lpien, lpi, ring, dma, phy, count>>
  BY DEF vars, cpu, power, rx, tx, eee
<1>2. Types /\ Traffic
  BY DEF DeviceInv
<1>3. Types' /\ Traffic'
  BY <1>1, <1>2 DEF Types, Flags, Modes, Counts, Traffic
<1>4. Calm
  BY <1>1 DEF Calm, Receives, Sends
<1> QED
  BY <1>1, <1>2, <1>3, <1>4, RestsCalm, OperatesCalm, ServesCalm DEF DeviceInv

LEMMA InvInit == ASSUME Init PROVE DeviceInv
<1>1. todo \in [{"task", "isr"} -> Seq(Calls)] /\ todo["task"] = <<>> /\ todo["isr"] = <<>>
  BY EmptySeq DEF Init
<1>2. Flags
  BY DEF Init, Flags
<1>3. Modes /\ Counts /\ Traffic
  BY DeviceAssumption DEF Init, Modes, Counts, Traffic
<1>4. Rests
  BY <1>1 DEF Init, Rests, IsDown
<1> QED
  BY <1>1, <1>2, <1>3, <1>4 DEF DeviceInv, Types

\* Every operation finds, before each of its calls, what the calls before it
\* left, whatever the interrupt, the poll, the timers and the stack did between.
LEMMA DeviceInvariant == ASSUME Careful PROVE Spec => []DeviceInv
<1>1. Init => DeviceInv
  BY InvInit
<1>2. DeviceInv /\ [Next]_vars => DeviceInv'
  <2> SUFFICES ASSUME DeviceInv, [Next]_vars PROVE DeviceInv'
    OBVIOUS
  <2>1. CASE UNCHANGED vars
    BY <2>1, InvStutter
  <2>2. CASE BeginSome
    BY <2>2, InvBegin
  <2>3. CASE Task
    BY <2>3, InvTaskCall, InvEnd DEF Task
  <2>4. CASE IsrRun
    BY <2>4, InvIsrCall, InvIsrReturn DEF IsrRun
  <2>5. CASE Interrupt
    <3>1. PICK c \in {"same", "other"} : IsrRx(c) \/ IsrBusError(c) \/ IsrPmt(c) \/ IsrLpi(c) \/ IsrTx(c)
      BY <2>5 DEF Interrupt
    <3>2. CASE IsrRx(c) \/ IsrLpi(c) \/ IsrTx(c)
      BY <3>2, InvMeanwhile DEF Meanwhile
    <3> QED
      BY <3>1, <3>2, InvBusError, InvWake
  <2>6. CASE Poll \/ Timers \/ Xmit \/ FrameArrives \/ PacketSent
    BY <2>6, InvMeanwhile DEF Meanwhile
  <2> QED
    BY <2>1, <2>2, <2>3, <2>4, <2>5, <2>6 DEF Next
<1> QED
  BY <1>1, <1>2, PTL DEF Spec

-----------------------------------------------------------------------------
(* The results.                                                            *)

\* napi_enable is the fourth call of open, the seventh of change_mtu, the fifth
\* of powerup, and in each the napi structure is off by then.
LEMMA NapiOffTask ==
    ASSUME DeviceInv, Operates, todo["task"] # <<>>, Head(todo["task"]) = "napi_enable"
    PROVE  napi = "off"
<1>1. PICK k \in 1 .. 12 :
        \/ op = "open" /\ (OpenAt(k) \/ OpenFailed(k))
        \/ op = "close" /\ CloseAt(k)
        \/ op = "mtu" /\ MtuAt(k)
        \/ op = "powerdown" /\ (PowerdownAt(k) \/ NothingAt(k, Sleeps /\ ~suspended))
        \/ op = "powerup" /\ (PowerupAt(k) \/ NothingAt(k, Works))
        \/ op = "suspend" /\ SuspendAt(k)
        \/ op = "resume" /\ ResumeAt(k)
  BY DEF Operates
<1>2. ASSUME NEW program \in Seq(Calls), At("task", program, k)
      PROVE  k \in 1 .. Len(program) /\ program[k] = "napi_enable"
  BY <1>2, AtFacts
<1>3. CASE OpenAt(k)
  <2>1. k \in 1 .. 11 /\ Open[k] = "napi_enable"
    BY <1>2, <1>3, ProgramsAre DEF OpenAt
  <2>2. k = 4
    BY <2>1 DEF Open
  <2> QED
    BY <1>3, <2>2 DEF OpenAt
<1>4. CASE MtuAt(k)
  <2>1. k \in 1 .. 10 /\ ChangeMtu[k] = "napi_enable"
    BY <1>2, <1>4, ProgramsAre DEF MtuAt
  <2>2. k = 7
    BY <2>1 DEF ChangeMtu
  <2> QED
    BY <1>4, <2>2 DEF MtuAt
<1>5. CASE ResumeAt(k)
  <2>1. k \in 1 .. 7 /\ Powerup[k] = "napi_enable"
    BY <1>2, <1>5, ProgramsAre DEF ResumeAt
  <2>2. k = 5
    BY <2>1 DEF Powerup
  <2> QED
    BY <1>5, <2>2 DEF ResumeAt, AscendsAt
<1>6. CASE PowerupAt(k)
  <2>1. k \in 1 .. 9 /\ Ioctl(Powerup)[k] = "napi_enable"
    BY <1>2, <1>6, ProgramsAre DEF PowerupAt
  <2>2. k = 6
    BY <2>1, IoctlPowerup
  <2> QED
    BY <1>6, <2>2 DEF PowerupAt, AscendsAt
<1>7. CASE OpenFailed(k)
  <2>1. k \in 1 .. 1 /\ <<"free_irq">>[k] = "napi_enable"
    BY <1>2, <1>7, ProgramsAre DEF OpenFailed
  <2> QED
    BY <2>1
<1>8. CASE CloseAt(k)
  <2>1. k \in 1 .. 7 /\ Close[k] = "napi_enable"
    BY <1>2, <1>8, ProgramsAre DEF CloseAt
  <2> QED
    BY <2>1 DEF Close
<1>9. CASE SuspendAt(k)
  <2>1. k \in 1 .. 7 /\ Powerdown("driver")[k] = "napi_enable"
    BY <1>2, <1>9, ProgramsAre DEF SuspendAt
  <2> QED
    BY <2>1 DEF Powerdown
<1>10. CASE PowerdownAt(k)
  <2>1. k \in 1 .. 9 /\ Ioctl(Powerdown("ioctl"))[k] = "napi_enable"
    BY <1>2, <1>10, ProgramsAre DEF PowerdownAt
  <2> QED
    BY <2>1, IoctlPowerdown
<1>11. ASSUME NEW rests, NothingAt(k, rests) PROVE FALSE
  <2>1. k \in 1 .. 2 /\ Ioctl(<<>>)[k] = "napi_enable"
    BY <1>2, <1>11, ProgramsAre DEF NothingAt
  <2>2. <<>> \in Seq(Calls) /\ Len(<<>>) = 0
    BY EmptySeq
  <2>3. Ioctl(<<>>)[1] = "ioctl_lock" /\ Ioctl(<<>>)[Len(<<>>) + 2] = "ioctl_unlock"
    BY <2>2, IoctlIs
  <2>4. Ioctl(<<>>)[1] = "ioctl_lock" /\ Ioctl(<<>>)[2] = "ioctl_unlock"
    BY <2>2, <2>3
  <2> QED
    BY <2>1, <2>4
<1>12. ~NothingAt(k, Sleeps /\ ~suspended) /\ ~NothingAt(k, Works)
  BY <1>11
<1> QED
  BY <1>1, <1>3, <1>4, <1>5, <1>6, <1>7, <1>8, <1>9, <1>10, <1>12

\* It is the sixth call of the restart and the fifth of powerup.
LEMMA NapiOffIsr ==
    ASSUME DeviceInv, Serves, todo["isr"] # <<>>, Head(todo["isr"]) = "napi_enable"
    PROVE  napi = "off"
<1>1. PICK k \in 1 .. 9 : RestartAt(k) \/ WakeAt(k)
  BY DEF Serves
<1>2. ASSUME NEW program \in Seq(Calls), At("isr", program, k)
      PROVE  k \in 1 .. Len(program) /\ program[k] = "napi_enable"
  BY <1>2, AtFacts
<1>3. CASE RestartAt(k)
  <2>1. k \in 1 .. 8 /\ Restart[k] = "napi_enable"
    BY <1>2, <1>3, ProgramsAre DEF RestartAt
  <2>2. k = 6
    BY <2>1 DEF Restart
  <2> QED
    BY <1>3, <2>2 DEF RestartAt
<1>4. CASE WakeAt(k)
  <2>1. k \in 1 .. 7 /\ Powerup[k] = "napi_enable"
    BY <1>2, <1>4, ProgramsAre DEF WakeAt
  <2>2. k = 5
    BY <2>1 DEF Powerup
  <2> QED
    BY <1>4, <2>2 DEF WakeAt, AscendsAt
<1> QED
  BY <1>1, <1>3, <1>4

\* No program is longer than open.
LEMMA TodoLength ==
    ASSUME DeviceInv, NEW t \in {"task", "isr"}
    PROVE  Len(todo[t]) \in 0 .. Len(Open)
<1>1. ASSUME NEW program \in Seq(Calls), NEW k, At(t, program, k), Len(program) \in 0 .. 11
      PROVE  Len(todo[t]) \in 0 .. 11
  <2>1. k \in 1 .. Len(program) + 1 /\ todo[t] = SubSeq(program, k, Len(program))
    BY <1>1 DEF At
  <2>2. CASE k = Len(program) + 1
    <3>1. todo[t] = <<>>
      BY <1>1, <2>2, AtFacts
    <3>2. Len(todo[t]) = 0
      BY <3>1, EmptySeq
    <3> QED
      BY <3>2
  <2>3. CASE k \in 1 .. Len(program)
    <3>1. Len(todo[t]) = Len(program) - k + 1
      BY <1>1, <2>1, <2>3, SubSeqProperties, ElementOfSeq
    <3>2. ASSUME NEW n \in 0 .. 11, k \in 1 .. n PROVE n - k + 1 \in 0 .. 11
      BY <3>2
    <3> QED
      BY <1>1, <2>3, <3>1, <3>2
  <2> QED
    BY <1>1, <2>1, <2>2, <2>3
<1>2. Len(<<>>) = 0 /\ Len(Open) = 11
  BY EmptySeq, ProgramsAre
<1>3. CASE todo[t] = <<>>
  <2>1. Len(todo[t]) = 0
    BY <1>2, <1>3
  <2> QED
    BY <1>2, <2>1
<1>4. CASE Operates /\ t = "task"
  <2>1. PICK k \in 1 .. 12 :
        \/ op = "open" /\ (OpenAt(k) \/ OpenFailed(k))
        \/ op = "close" /\ CloseAt(k)
        \/ op = "mtu" /\ MtuAt(k)
        \/ op = "powerdown" /\ (PowerdownAt(k) \/ NothingAt(k, Sleeps /\ ~suspended))
        \/ op = "powerup" /\ (PowerupAt(k) \/ NothingAt(k, Works))
        \/ op = "suspend" /\ SuspendAt(k)
        \/ op = "resume" /\ ResumeAt(k)
    BY <1>4 DEF Operates
  <2>2. \E program \in {Open, <<"free_irq">>, Close, ChangeMtu, Powerdown("driver"), Powerup, Ioctl(<<>>),
                        Ioctl(Powerup), Ioctl(Powerdown("ioctl"))} : At(t, program, k)
    BY <1>4, <2>1 DEF OpenAt, OpenFailed, CloseAt, MtuAt, PowerdownAt, NothingAt, PowerupAt,
       SuspendAt, ResumeAt
  <2>3. PICK program \in Seq(Calls) : At(t, program, k) /\ Len(program) \in {1, 2, 7, 9, 10, 11}
    BY <2>2, ProgramsAre
  <2> QED
    BY <1>1, <1>2, <2>3
<1>5. CASE Serves /\ t = "isr"
  <2>1. PICK k \in 1 .. 9 : RestartAt(k) \/ WakeAt(k)
    BY <1>5 DEF Serves
  <2>2. \E program \in {Restart, Powerup} : At(t, program, k)
    BY <1>5, <2>1 DEF RestartAt, WakeAt
  <2>3. PICK program \in Seq(Calls) : At(t, program, k) /\ Len(program) \in {7, 8}
    BY <2>2, ProgramsAre
  <2> QED
    BY <1>1, <1>2, <2>3
<1> QED
  BY <1>3, <1>4, <1>5 DEF DeviceInv, Rests, Operates, Serves

LEMMA InvTypes == ASSUME DeviceInv PROVE TypeOK
<1>1. \A t \in {"task", "isr"} : Len(todo[t]) \in 0 .. Len(Open)
  BY TodoLength
<1>2. \A b \in {running, suspended, power_down, pmt, irq, polling, dma, rie, ri, rxready} :
         b \in BOOLEAN
  BY DEF DeviceInv, Types, Flags
<1>3. \A b \in {txq, queue_stopped, phy, eee_enabled, eee_armed, lpien, lpi} : b \in BOOLEAN
  BY DEF DeviceInv, Types, Flags
<1>4. smp \in BOOLEAN /\ irqoff \in BOOLEAN
  BY DEF DeviceInv, Types, Flags
<1> QED
  BY <1>1, <1>2, <1>3, <1>4 DEF DeviceInv, Types, Modes, Counts, TypeOK

LEMMA InvPaired == ASSUME DeviceInv PROVE NapiPaired
<1> SUFFICES ASSUME NEW t \in {"task", "isr"}, todo[t] # <<>>, Head(todo[t]) = "napi_enable"
             PROVE  napi = "off"
  BY DEF NapiPaired, DeviceInv
<1>1. CASE t = "task"
  <2>1. Operates
    BY <1>1 DEF DeviceInv, Rests, Serves
  <2> QED
    BY <1>1, <2>1, NapiOffTask
<1>2. CASE t = "isr"
  <2>1. Serves
    BY <1>2 DEF DeviceInv, Rests, Operates
  <2> QED
    BY <1>2, <2>1, NapiOffIsr
<1> QED
  BY <1>1, <1>2

\* Between two operations the device is in one of its three states.
LEMMA SettledRests == ASSUME DeviceInv, Settled PROVE Works \/ Sleeps \/ IsDown
<1>1. CASE Rests
  BY <1>1 DEF Rests
<1>2. ~Serves
  BY DEF Settled, Serves
<1>3. ~Operates
  BY DEF Settled, Idle, Operates
<1> QED
  BY <1>1, <1>2, <1>3 DEF DeviceInv

-----------------------------------------------------------------------------
(* The theorems.                                                           *)

\* drv.c:134 and 395: every call of napi_enable, by open, change_mtu, powerup or
\* the restart of a channel, meets a structure that is off, and the counters of the transmit
\* path keep their ranges through all of them.
THEOREM DeviceCountsKept == ASSUME Careful PROVE Spec => []CountsKept
<1>1. DeviceInv => CountsKept
  BY InvTypes, InvPaired DEF CountsKept
<1> QED
  BY <1>1, DeviceInvariant, PTL

\* drv.c:2468, 1915 and 2281: the poll, start_xmit and the reclaim of packets run
\* only where the descriptor rings are allocated and initialised.
THEOREM DeviceRingsThere == ASSUME Careful PROVE Spec => []RingsThere
<1>1. DeviceInv => RingsThere
  <2> SUFFICES ASSUME DeviceInv PROVE RingsThere
    OBVIOUS
  <2>1. txq /\ running => ring = "ready"
    BY RingForXmit
  <2> QED
    BY <2>1 DEF DeviceInv, Types, Flags, Modes, Counts, Traffic, RingsThere
<1> QED
  BY <1>1, DeviceInvariant, PTL

\* Whatever sequence of operations came before, a device that is up and awake
\* has its DMA started, its receive interrupt enabled or its poll under way, and
\* the stack may send unless the ring is full.
THEOREM DeviceUpWorks == ASSUME Careful PROVE Spec => []UpWorks
<1>1. DeviceInv => UpWorks
  BY SettledRests DEF UpWorks, Awake, Works, Sleeps, IsDown, Receives, Sends
<1> QED
  BY <1>1, DeviceInvariant, PTL

\* ... and one that is down, powered down or suspended is silent; a device that
\* is down has given its memory and its interrupt back.
THEOREM DeviceDownSilent == ASSUME Careful PROVE Spec => []DownSilent
<1>1. DeviceInv => DownSilent
  BY SettledRests DEF DownSilent, Awake, Works, Sleeps, IsDown
<1> QED
  BY <1>1, DeviceInvariant, PTL

=============================================================================
