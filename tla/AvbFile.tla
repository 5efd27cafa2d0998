------------------------------ MODULE AvbFile ------------------------------
(***************************************************************************)
(* Who owns the memory of the AVB queues: the character device of the      *)
(* kernel driver (avb.c), whose ioctls allocate descriptors and buffers    *)
(* for user mode drivers, and the processes that attach through the user   *)
(* mode driver, run, detach, fail half way and die.                        *)
(*                                                                         *)
(* An ioctl is one step, but for MAP_BUF, which sleeps in                  *)
(* dma_alloc_coherent with its entry on the list already.  Memory is named *)
(* after the process, and for a buffer the purpose, it was allocated for.  *)
(***************************************************************************)
EXTENDS Integers, Sequences, SequencesExt

CONSTANTS
    Procs,          \* processes that use the device
    QUEUE_CNT,      \* DWC_ETH_QOS_MAX_AVB_Q_CNT
    None,           \* NULL
    Rules,          \* rules of use the code relies on and does not check
    MaxCrashes,     \* bound: processes that end without detaching
    MaxFails        \* bound: allocations that fail

\* one_user: one process at a time has the file open.
AllRules == {"one_user"}

Queues == 0 .. QUEUE_CNT - 1

\* The data buffer of each receive queue, and one of the application.
App == QUEUE_CNT
Purposes == Queues \cup {App}

ASSUME FileAssumption ==
    /\ QUEUE_CNT \in Nat \ {0}
    /\ None \notin Procs /\ None \notin Procs \X Purposes
    /\ Rules \subseteq AllRules
    /\ MaxCrashes \in Nat /\ MaxFails \in Nat

VARIABLES
    tx_avb_queue, rx_avb_queue,     \* the queues whose descriptors are allocated
    tx_desc, rx_desc,               \* the process they were allocated for
    ubuff,          \* pdata->ubuff: the list of data buffers, newest first
    memory,         \* the data buffers that are allocated
    pc,             \* where each process is
    has,            \* what each process believes it has
    running,        \* the process whose memory the AVB channels run with
    crashes, fails

kernel == <<tx_avb_queue, rx_avb_queue, tx_desc, rx_desc, ubuff, memory>>
vars == <<kernel, pc, has, running, crashes, fails>>

-----------------------------------------------------------------------------
At(at, q, todo) == [at |-> at, q |-> q, todo |-> todo]
Goto(p, at, q) == pc' = [pc EXCEPT ![p] = At(at, q, <<>>)]

Nothing == [tx |-> {}, rx |-> {}, bufs |-> {}]

\* DWC_ETH_QOS_free_tx_resourses and its kind: for every queue, in this order.
Free(p, todo) == pc' = [pc EXCEPT ![p] = At("free", 0, todo)]

-----------------------------------------------------------------------------
(* DWC_ETH_QOS_attach.                                                     *)

\* open and DWC_ETH_QOS_BIND.
Open(p) ==
    /\ pc[p].at = "closed"
    /\ "one_user" \in Rules => \A r \in Procs : pc[r].at = "closed"
    /\ Goto(p, "map_tx", 0)
    /\ UNCHANGED <<kernel, has, running, crashes, fails>>

\* DWC_ETH_QOS_map_tx_desc returns an error, EBUSY or ENOMEM.
Refused(busy) ==
    \/ busy /\ UNCHANGED fails
    \/ ~busy /\ fails < MaxFails /\ fails' = fails + 1

MapTxDesc(p) ==
    LET q == pc[p].q
    IN  /\ pc[p].at = "map_tx" /\ q \notin tx_avb_queue
        /\ tx_avb_queue' = tx_avb_queue \cup {q}
        /\ tx_desc' = [tx_desc EXCEPT ![q] = p]
        /\ has' = [has EXCEPT ![p].tx = @ \cup {q}]
        /\ IF q + 1 < QUEUE_CNT THEN Goto(p, "map_tx", q + 1) ELSE Goto(p, "map_rx", 0)
        /\ UNCHANGED <<rx_avb_queue, rx_desc, ubuff, memory, running, crashes, fails>>

MapTxFails(p) ==
    /\ pc[p].at = "map_tx" /\ Refused(pc[p].q \in tx_avb_queue)
    /\ Free(p, <<"tx">>)
    /\ UNCHANGED <<kernel, has, running, crashes>>

MapRxDesc(p) ==
    LET q == pc[p].q
    IN  /\ pc[p].at = "map_rx" /\ q \notin rx_avb_queue
        /\ rx_avb_queue' = rx_avb_queue \cup {q}
        /\ rx_desc' = [rx_desc EXCEPT ![q] = p]
        /\ has' = [has EXCEPT ![p].rx = @ \cup {q}]
        /\ Goto(p, "get_buffer", q)
        /\ UNCHANGED <<tx_avb_queue, tx_desc, ubuff, memory, running, crashes, fails>>

MapRxFails(p) ==
    /\ pc[p].at = "map_rx" /\ Refused(pc[p].q \in rx_avb_queue)
    /\ Free(p, <<"rx", "tx">>)
    /\ UNCHANGED <<kernel, has, running, crashes>>

-----------------------------------------------------------------------------
(* DWC_ETH_QOS_map_buf.                                                    *)

Entry(owner, mem) == [owner |-> owner, mem |-> mem]

\* delet_ubuff_entry, for a given entry and for the first one with an address.
WithoutOwner(list, owner) == RemoveFirstMatch(list, LAMBDA e : e.owner = owner)
WithoutMem(list, dma) == RemoveFirstMatch(list, LAMBDA e : e.mem = dma)

Purpose(p) == IF pc[p].at \in {"get_buffer", "map_buf"} THEN pc[p].q ELSE App

\* add_ubuff_entry: a blank entry at the head of the list.
MapBuf(p) ==
    /\ \/ pc[p].at = "get_buffer" /\ Goto(p, "map_buf", pc[p].q)
       \/ pc[p].at = "attached" /\ <<p, App>> \notin has[p].bufs /\ Goto(p, "map_app", 0)
    /\ ubuff' = <<Entry(<<p, Purpose(p)>>, None)>> \o ubuff
    /\ UNCHANGED <<tx_avb_queue, rx_avb_queue, tx_desc, rx_desc, memory, has, running,
                   crashes, fails>>

Mapping(p) == pc[p].at \in {"map_buf", "map_app"}

AfterBuffer(p) ==
    IF pc[p].at = "map_buf" /\ pc[p].q + 1 < QUEUE_CNT
    THEN Goto(p, "map_rx", pc[p].q + 1)
    ELSE Goto(p, "attached", 0)

\* Mutant: the address goes to the oldest entry of the list.
MapBufDoneLast(p) ==
    LET b == <<p, Purpose(p)>>
    IN  /\ Mapping(p) /\ ubuff # <<>>
        /\ memory' = memory \cup {b}
        /\ ubuff' = [ubuff EXCEPT ![Len(ubuff)].mem = b]
        /\ has' = [has EXCEPT ![p].bufs = @ \cup {b}]
        /\ AfterBuffer(p)
        /\ UNCHANGED <<tx_avb_queue, rx_avb_queue, tx_desc, rx_desc, running, crashes, fails>>

\* The memory is there: its address goes to the entry at the head of the list
\* (which is NULL, and the kernel oopses, if another process emptied the list).
MapBufDone(p) ==
    LET b == <<p, Purpose(p)>>
    IN  /\ Mapping(p) /\ ubuff # <<>>
        /\ memory' = memory \cup {b}
        /\ ubuff' = [ubuff EXCEPT ![1].mem = b]
        /\ has' = [has EXCEPT ![p].bufs = @ \cup {b}]
        /\ AfterBuffer(p)
        /\ UNCHANGED <<tx_avb_queue, rx_avb_queue, tx_desc, rx_desc, running, crashes, fails>>

\* It is not: the entry goes.  In attach this ends the attempt, an application
\* ends, its channels running or not, and leaves the rest to the kernel.
MapBufFails(p) ==
    /\ Mapping(p) /\ fails < MaxFails
    /\ fails' = fails + 1
    /\ ubuff' = WithoutOwner(ubuff, <<p, Purpose(p)>>)
    /\ IF pc[p].at = "map_app" THEN Goto(p, "end", 0) ELSE Free(p, <<"rx", "tx">>)
    /\ UNCHANGED <<tx_avb_queue, rx_avb_queue, tx_desc, rx_desc, memory, has, running, crashes>>

-----------------------------------------------------------------------------
(* DWC_ETH_QOS_init, exit and detach.                                      *)

\* The channels are set up with the descriptors and buffers of p, and started.
StartDma(p) ==
    /\ pc[p].at = "attached" /\ running # p
    /\ running' = p
    /\ UNCHANGED <<kernel, pc, has, crashes, fails>>

\* DWC_ETH_QOS_exit: the channels stop, whoever started them.
StopDma(p) ==
    /\ pc[p].at = "attached" /\ running # None
    /\ running' = None
    /\ UNCHANGED <<kernel, pc, has, crashes, fails>>

\* DWC_ETH_QOS_detach stops no channel itself, and the examples detach with the
\* channels running.
Detach(p) ==
    /\ pc[p].at = "attached"
    /\ Free(p, <<"tx", "rx">>)
    /\ UNCHANGED <<kernel, has, running, crashes, fails>>

\* One turn of a loop over the queues is done.
NextQueue(p) ==
    LET q    == pc[p].q
        todo == pc[p].todo
    IN  IF q + 1 < QUEUE_CNT
        THEN pc' = [pc EXCEPT ![p] = At("free", q + 1, todo)]
        ELSE IF Len(todo) > 1 THEN Free(p, Tail(todo)) ELSE Goto(p, "close", 0)

\* Mutant: only what this process allocated is unmapped.
UnmapTxDescOwn(p) ==
    LET q == pc[p].q
    IN  /\ pc[p].at = "free" /\ pc[p].todo[1] = "tx"
        /\ tx_avb_queue' = IF q \in has[p].tx THEN tx_avb_queue \ {q} ELSE tx_avb_queue
        /\ tx_desc' = IF q \in has[p].tx THEN [tx_desc EXCEPT ![q] = None] ELSE tx_desc
        /\ has' = [has EXCEPT ![p].tx = @ \ {q}]
        /\ NextQueue(p)
        /\ UNCHANGED <<rx_avb_queue, rx_desc, ubuff, memory, running, crashes, fails>>

\* DWC_ETH_QOS_UNMAP_TX_DESC, whether p has the descriptors or not: this is what
\* takes back the descriptors of a process that died.
UnmapTxDesc(p) ==
    LET q == pc[p].q
    IN  /\ pc[p].at = "free" /\ pc[p].todo[1] = "tx"
        /\ tx_avb_queue' = tx_avb_queue \ {q}
        /\ tx_desc' = [tx_desc EXCEPT ![q] = None]
        /\ has' = [has EXCEPT ![p].tx = @ \ {q}]
        /\ NextQueue(p)
        /\ UNCHANGED <<rx_avb_queue, rx_desc, ubuff, memory, running, crashes, fails>>

\* Mutant: only what this process allocated is unmapped.
UnmapRxDescOwn(p) ==
    LET q == pc[p].q
    IN  /\ pc[p].at = "free" /\ pc[p].todo[1] = "rx"
        /\ rx_avb_queue' = IF q \in has[p].rx THEN rx_avb_queue \ {q} ELSE rx_avb_queue
        /\ rx_desc' = IF q \in has[p].rx THEN [rx_desc EXCEPT ![q] = None] ELSE rx_desc
        /\ has' = [has EXCEPT ![p].rx = @ \ {q}]
        /\ pc' = [pc EXCEPT ![p].at = "free_buffer"]
        /\ UNCHANGED <<tx_avb_queue, tx_desc, ubuff, memory, running, crashes, fails>>

\* DWC_ETH_QOS_UNMAP_RX_DESC, likewise.
UnmapRxDesc(p) ==
    LET q == pc[p].q
    IN  /\ pc[p].at = "free" /\ pc[p].todo[1] = "rx"
        /\ rx_avb_queue' = rx_avb_queue \ {q}
        /\ rx_desc' = [rx_desc EXCEPT ![q] = None]
        /\ has' = [has EXCEPT ![p].rx = @ \ {q}]
        /\ pc' = [pc EXCEPT ![p].at = "free_buffer"]
        /\ UNCHANGED <<tx_avb_queue, tx_desc, ubuff, memory, running, crashes, fails>>

\* Mutant: the oldest entry of the list goes, whatever the address.
UnmapBufOldest(p, b) ==
    LET dma == IF b \in has[p].bufs /\ ubuff # <<>> THEN Last(ubuff).mem ELSE None
    IN  /\ memory' = memory \ {dma}
        /\ ubuff' = IF dma = None THEN ubuff ELSE Front(ubuff)
        /\ has' = [has EXCEPT ![p].bufs = @ \ {b}]

\* DWC_ETH_QOS_unmap_buf: the first entry with the address of b, 0 if p never
\* got b, is freed.
UnmapBuf(p, b) ==
    LET dma == IF b \in has[p].bufs THEN b ELSE None
    IN  /\ memory' = memory \ {dma}
        /\ ubuff' = WithoutMem(ubuff, dma)
        /\ has' = [has EXCEPT ![p].bufs = @ \ {b}]

\* DWC_ETH_QOS_free_buffer for the data buffer of a queue.
FreeRxBuffer(p) ==
    /\ pc[p].at = "free_buffer"
    /\ UnmapBuf(p, <<p, pc[p].q>>)
    /\ NextQueue(p)
    /\ UNCHANGED <<tx_avb_queue, rx_avb_queue, tx_desc, rx_desc, running, crashes, fails>>

\* The application returns the buffer it got, with no packet queued any more.
FreeAppBuffer(p) ==
    /\ pc[p].at = "attached" /\ <<p, App>> \in has[p].bufs
    /\ UnmapBuf(p, <<p, App>>)
    /\ UNCHANGED <<tx_avb_queue, rx_avb_queue, tx_desc, rx_desc, pc, running, crashes, fails>>

-----------------------------------------------------------------------------
(* DWC_ETH_QOS_release_file: the file is closed, by the process or for it. *)

\* The data buffers of whoever has some.  The loop over the transmit queues runs
\* from tx_avb_q_idx to tx_queue_cnt, which pci.c makes the same: it has no turn.
Release(p) ==
    /\ memory' = memory \ {ubuff[i].mem : i \in DOMAIN ubuff}
    /\ ubuff' = <<>>
    /\ has' = [has EXCEPT ![p] = Nothing]
    /\ Goto(p, "closed", 0)
    /\ UNCHANGED <<tx_avb_queue, rx_avb_queue, tx_desc, rx_desc, running>>

\* The end of detach or of a refused attach, or of a process that gives up (an
\* application buffer still mapped keeps the file until the process ends).
Close(p) ==
    /\ pc[p].at \in {"close", "end"}
    /\ Release(p)
    /\ UNCHANGED <<crashes, fails>>

\* A process dies, or returns without detaching, but not in the middle of an ioctl.
Crash(p) ==
    /\ pc[p].at # "closed" /\ ~Mapping(p)
    /\ crashes < MaxCrashes /\ crashes' = crashes + 1
    /\ Release(p)
    /\ UNCHANGED fails

-----------------------------------------------------------------------------
Init ==
    /\ tx_avb_queue = {} /\ rx_avb_queue = {}
    /\ tx_desc = [q \in Queues |-> None] /\ rx_desc = [q \in Queues |-> None]
    /\ ubuff = <<>> /\ memory = {}
    /\ pc = [p \in Procs |-> At("closed", 0, <<>>)]
    /\ has = [p \in Procs |-> Nothing]
    /\ running = None
    /\ crashes = 0 /\ fails = 0

Attach(p) ==
    \/ MapTxDesc(p) \/ MapTxFails(p) \/ MapRxDesc(p) \/ MapRxFails(p)
    \/ pc[p].at = "get_buffer" /\ MapBuf(p)
    \/ MapBufDone(p) \/ MapBufFails(p)

LetGo(p) == UnmapTxDesc(p) \/ UnmapRxDesc(p) \/ FreeRxBuffer(p) \/ Close(p)

Work(p) ==
    \/ pc[p].at = "attached" /\ MapBuf(p)
    \/ FreeAppBuffer(p) \/ StartDma(p) \/ StopDma(p) \/ Detach(p)

Next == \E p \in Procs : Open(p) \/ Attach(p) \/ Work(p) \/ LetGo(p) \/ Crash(p)

Spec == Init /\ [][Next]_vars

\* A process that wants the device opens it, and an attach and a detach that
\* have begun run to their end.
Fairness == \A p \in Procs : WF_vars(Open(p)) /\ WF_vars(Attach(p)) /\ WF_vars(LetGo(p))

FairSpec == Spec /\ Fairness

-----------------------------------------------------------------------------
(* Type invariant and safety properties.                                   *)

Buffers == Procs \X Purposes

Places == {"closed", "map_tx", "map_rx", "get_buffer", "map_buf", "attached", "map_app",
           "free", "free_buffer", "close", "end"}

Todos == {<<>>, <<"tx">>, <<"rx">>, <<"rx", "tx">>, <<"tx", "rx">>}

\* Every variable keeps its type.
TypeOK ==
    /\ tx_avb_queue \subseteq Queues /\ rx_avb_queue \subseteq Queues
    /\ tx_desc \in [Queues -> Procs \cup {None}] /\ rx_desc \in [Queues -> Procs \cup {None}]
    /\ ubuff \in Seq([owner : Buffers, mem : Buffers \cup {None}])
    /\ memory \subseteq Buffers
    /\ running \in Procs \cup {None}
    /\ pc \in [Procs -> [at : Places, q : Queues, todo : Todos]]
    /\ has \in [Procs -> [tx : SUBSET Queues, rx : SUBSET Queues, bufs : SUBSET Buffers]]

\* What a process has mapped and works with is allocated, and for this process.
HeldIsAllocated ==
    \A p \in Procs :
        /\ \A q \in has[p].tx : tx_desc[q] = p
        /\ \A q \in has[p].rx : rx_desc[q] = p
        /\ has[p].bufs \subseteq memory

\* What the processes believe and what the kernel keeps agree.
MemoryKept == TypeOK /\ HeldIsAllocated

\* No memory is forgotten: the bits tell which descriptors are allocated, every
\* buffer has one entry on the list, and no buffer outlives the last close.
NothingLost ==
    /\ tx_avb_queue = {q \in Queues : tx_desc[q] # None}
    /\ rx_avb_queue = {q \in Queues : rx_desc[q] # None}
    /\ \A b \in memory : \E i \in DOMAIN ubuff :
          /\ ubuff[i].mem = b
          /\ \A j \in DOMAIN ubuff : ubuff[j].mem = b => j = i
    /\ (\A p \in Procs : pc[p].at = "closed") => memory = {} /\ ubuff = <<>>

\* umod drv.c:885 "reverse the operation performed at attach() time": when a
\* process that detached or was refused closes its file, no queue has transmit
\* descriptors, not even those of a process that died before it, and all this
\* process can still have is the buffer of the application.
GivenBack ==
    \A p \in Procs : pc[p].at = "close" =>
        /\ tx_avb_queue = {}
        /\ has[p].rx = {} /\ memory \subseteq {<<p, App>>}

\* avb.c:627 "free descriptor memory of all used queue", when the file is
\* released: none is left when no process has it open.
DescsReleased == (\A p \in Procs : pc[p].at = "closed") => tx_avb_queue = {}

\* Running channels work with memory that is allocated: the code does not see to
\* it, nor does a comment claim it.
DmaSafe ==
    running # None =>
        \A q \in Queues : /\ q \in tx_avb_queue /\ q \in rx_avb_queue
                         /\ <<running, q>> \in memory

\* A process that keeps trying is attached in the end, whoever died before it
\* and whatever that process left behind.
AttachSucceeds == \A p \in Procs : pc[p].at = "map_tx" ~> \E r \in Procs : pc[r].at = "attached"

=============================================================================
