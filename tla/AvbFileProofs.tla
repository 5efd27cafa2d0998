--------------------------- MODULE AvbFileProofs ---------------------------
(***************************************************************************)
(* For any number of processes, queues, deaths and refused allocations, as  *)
(* long as one process at a time has the file open: what the processes     *)
(* hold is allocated for them, no buffer is forgotten, and a detach or a   *)
(* refused attach gives back what a dead process left.                     *)
(***************************************************************************)
EXTENDS AvbFile, SequenceTheorems, WellFoundedInduction, TLAPS

Entries == [owner : Buffers, mem : Buffers \cup {None}]

-----------------------------------------------------------------------------
(* The list of user buffers.                                               *)

\* The entries, at most one for each owner.
OnePerOwner(s) ==
    /\ s \in Seq(Entries)
    /\ \A i, j \in 1 .. Len(s) : s[i].owner = s[j].owner => i = j

LEMMA OnePerOwnerEmpty == OnePerOwner(<<>>)
BY DEF OnePerOwner

\* add_ubuff_entry.
LEMMA AddEntry ==
    ASSUME NEW s, OnePerOwner(s), NEW e \in Entries,
           \A i \in 1 .. Len(s) : s[i].owner # e.owner
    PROVE  /\ OnePerOwner(<<e>> \o s)
           /\ Range(<<e>> \o s) = Range(s) \cup {e}
           /\ Len(<<e>> \o s) > 0
           /\ (<<e>> \o s)[1] = e
<1> DEFINE t == <<e>> \o s
<1>1. /\ s \in Seq(Entries) /\ <<e>> \in Seq(Entries) /\ Len(<<e>>) = 1 /\ <<e>>[1] = e
      /\ Len(s) \in Nat /\ DOMAIN s = 1 .. Len(s)
  BY DEF OnePerOwner
<1>2. /\ t \in Seq(Entries)
      /\ Len(t) = 1 + Len(s)
      /\ \A i \in 1 .. 1 + Len(s) : t[i] = IF i <= 1 THEN e ELSE s[i - 1]
  <2>1. \A i \in 1 .. 1 + Len(s) : t[i] = IF i <= 1 THEN <<e>>[i] ELSE s[i - 1]
    BY <1>1, ConcatProperties
  <2> QED
    BY <1>1, <2>1, ConcatProperties
<1> HIDE DEF t
<1>3. OnePerOwner(t)
  <2> SUFFICES ASSUME NEW i \in 1 .. Len(t), NEW j \in 1 .. Len(t), t[i].owner = t[j].owner
               PROVE  i = j
    BY <1>2 DEF OnePerOwner
  <2>1. CASE i = 1 /\ j = 1
    BY <2>1
  <2>2. CASE i = 1 /\ j > 1
    BY <1>1, <1>2, <2>2
  <2>3. CASE i > 1 /\ j = 1
    BY <1>1, <1>2, <2>3
  <2>4. CASE i > 1 /\ j > 1
    <3>1. i - 1 \in 1 .. Len(s) /\ j - 1 \in 1 .. Len(s) /\ t[i] = s[i - 1] /\ t[j] = s[j - 1]
      BY <1>1, <1>2, <2>4
    <3> QED
      BY <1>1, <3>1 DEF OnePerOwner
  <2> QED
    BY <1>1, <1>2, <2>1, <2>2, <2>3, <2>4
<1>4. Range(t) = Range(s) \cup {e}
  <2>1. DOMAIN t = 1 .. Len(t)
    BY <1>2
  <2>2. ASSUME NEW x \in Range(t)
        PROVE  x \in Range(s) \cup {e}
    BY <1>1, <1>2, <2>1 DEF Range
  <2>3. ASSUME NEW i \in 1 .. Len(s)
        PROVE  s[i] \in Range(t)
    <3>1. i + 1 \in DOMAIN t /\ t[i + 1] = s[i]
      BY <1>1, <1>2, <2>1
    <3> QED
      BY <3>1 DEF Range
  <2>4. e \in Range(t)
    <3>1. 1 \in DOMAIN t /\ t[1] = e
      BY <1>1, <1>2, <2>1
    <3> QED
      BY <3>1 DEF Range
  <2> QED
    BY <1>1, <2>2, <2>3, <2>4 DEF Range
<1>5. Len(t) > 0 /\ t[1] = e
  BY <1>1, <1>2
<1> QED
  BY <1>3, <1>4, <1>5 DEF t

\* delet_ubuff_entry for entry k of the list.
LEMMA DeleteAt ==
    ASSUME NEW s, OnePerOwner(s), NEW k \in 1 .. Len(s)
    PROVE  /\ OnePerOwner(RemoveAt(s, k))
           /\ Range(RemoveAt(s, k)) = Range(s) \ {s[k]}
<1> DEFINE a == SubSeq(s, 1, k - 1)
           b == SubSeq(s, k + 1, Len(s))
           t == a \o b
<1>1. s \in Seq(Entries) /\ Len(s) \in Nat /\ DOMAIN s = 1 .. Len(s)
  BY DEF OnePerOwner
<1>0. k \in Nat /\ 1 <= k /\ k <= Len(s) /\ Len(s) \in Nat
  BY <1>1
<1>2. /\ a \in Seq(Entries) /\ Len(a) = k - 1
      /\ \A i \in 1 .. k - 1 : a[i] = s[i]
  <2>1. \A i \in 1 .. k - 1 : s[i] \in Entries
    BY <1>0, <1>1
  <2>2. /\ a \in Seq(Entries)
        /\ Len(a) = IF 1 <= k - 1 THEN k - 1 - 1 + 1 ELSE 0
        /\ \A i \in 1 .. k - 1 - 1 + 1 : a[i] = s[1 + i - 1]
    BY <1>0, <2>1, SubSeqProperties
  <2>3. \A i \in 1 .. k - 1 : i \in 1 .. k - 1 - 1 + 1 /\ 1 + i - 1 = i
    BY <1>0
  <2>4. (IF 1 <= k - 1 THEN k - 1 - 1 + 1 ELSE 0) = k - 1
    BY <1>0
  <2> QED
    BY <2>2, <2>3, <2>4
<1>3. /\ b \in Seq(Entries) /\ Len(b) = Len(s) - k
      /\ \A i \in 1 .. Len(s) - k : b[i] = s[k + i]
  <2>1. \A i \in k + 1 .. Len(s) : s[i] \in Entries
    BY <1>0, <1>1
  <2>2. /\ b \in Seq(Entries)
        /\ Len(b) = IF k + 1 <= Len(s) THEN Len(s) - (k + 1) + 1 ELSE 0
        /\ \A i \in 1 .. Len(s) - (k + 1) + 1 : b[i] = s[k + 1 + i - 1]
    <3>1. k + 1 \in Int /\ Len(s) \in Int
      BY <1>0
    <3> QED
      BY <2>1, <3>1, SubSeqProperties
  <2>3. \A i \in 1 .. Len(s) - k : i \in 1 .. Len(s) - (k + 1) + 1 /\ k + 1 + i - 1 = k + i
    BY <1>0
  <2>4. (IF k + 1 <= Len(s) THEN Len(s) - (k + 1) + 1 ELSE 0) = Len(s) - k
    BY <1>0
  <2> HIDE DEF b
  <2> QED
    BY <2>2, <2>3, <2>4
<1>4. /\ t \in Seq(Entries) /\ Len(t) = Len(s) - 1
      /\ \A i \in 1 .. Len(s) - 1 : t[i] = IF i < k THEN s[i] ELSE s[i + 1]
  <2> HIDE DEF a, b
  <2>1. /\ t \in Seq(Entries) /\ Len(t) = Len(a) + Len(b)
        /\ \A i \in 1 .. Len(a) + Len(b) : t[i] = IF i <= Len(a) THEN a[i] ELSE b[i - Len(a)]
    BY <1>2, <1>3, ConcatProperties
  <2> HIDE DEF t
  <2>2. Len(a) + Len(b) = Len(s) - 1
    BY <1>0, <1>2, <1>3
  <2>3. ASSUME NEW i \in 1 .. Len(s) - 1
        PROVE  t[i] = IF i < k THEN s[i] ELSE s[i + 1]
    <3>1. t[i] = IF i <= k - 1 THEN a[i] ELSE b[i - (k - 1)]
      BY <1>2, <2>1, <2>2
    <3>2. CASE i < k
      <4>1. i \in 1 .. k - 1 /\ i <= k - 1
        BY <1>0, <3>2
      <4> QED
        BY <1>2, <3>1, <3>2, <4>1
    <3>3. CASE ~(i < k)
      <4>1. i - (k - 1) \in 1 .. Len(s) - k /\ ~(i <= k - 1) /\ k + (i - (k - 1)) = i + 1
        BY <1>0, <3>3
      <4>2. b[i - (k - 1)] = s[k + (i - (k - 1))]
        BY <1>3, <4>1
      <4> QED
        BY <3>1, <3>3, <4>1, <4>2
    <3> QED
      BY <3>2, <3>3
  <2> QED
    BY <2>1, <2>2, <2>3
<1> HIDE DEF a, b, t
<1>5. OnePerOwner(t)
  <2> SUFFICES ASSUME NEW i \in 1 .. Len(t), NEW j \in 1 .. Len(t), t[i].owner = t[j].owner
               PROVE  i = j
    BY <1>4 DEF OnePerOwner
  <2> DEFINE old(x) == IF x < k THEN x ELSE x + 1
  <2>1. /\ old(i) \in 1 .. Len(s) /\ old(j) \in 1 .. Len(s)
        /\ t[i] = s[old(i)] /\ t[j] = s[old(j)]
    BY <1>0, <1>1, <1>4
  <2>2. old(i) = old(j)
    BY <2>1 DEF OnePerOwner
  <2> QED
    BY <1>0, <1>1, <1>4, <2>2
<1>6. Range(t) = Range(s) \ {s[k]}
  <2>1. DOMAIN t = 1 .. Len(t)
    BY <1>4
  <2>2. ASSUME NEW i \in 1 .. Len(t)
        PROVE  t[i] \in Range(s) \ {s[k]}
    <3> DEFINE o == IF i < k THEN i ELSE i + 1
    <3>1. o \in 1 .. Len(s) /\ o # k /\ t[i] = s[o]
      BY <1>0, <1>1, <1>4
    <3>2. s[o] # s[k]
      BY <3>1 DEF OnePerOwner
    <3> QED
      BY <1>1, <3>1, <3>2 DEF Range
  <2>3. ASSUME NEW i \in 1 .. Len(s), s[i] # s[k]
        PROVE  s[i] \in Range(t)
    <3> DEFINE n == IF i < k THEN i ELSE i - 1
    <3>1. n \in 1 .. Len(t) /\ t[n] = s[i]
      <4>1. i # k
        BY <2>3
      <4>2. CASE i < k
        BY <1>0, <1>1, <1>4, <4>2
      <4>3. CASE i > k
        BY <1>0, <1>1, <1>4, <4>3
      <4> QED
        BY <1>1, <4>1, <4>2, <4>3
    <3> QED
      BY <2>1, <3>1 DEF Range
  <2> QED
    BY <1>1, <2>1, <2>2, <2>3 DEF Range
<1> QED
  BY <1>5, <1>6 DEF RemoveAt, a, b, t

LEMMA LeastIndex ==
    ASSUME NEW n \in Nat, NEW I \in SUBSET (1 .. n), I # {}
    PROVE  Min(I) \in I
<1> DEFINE Less == OpToRel(<, Nat)
<1>1. I \subseteq Nat
  OBVIOUS
<1>2. PICK m \in I : \A y \in I : ~(<<y, m>> \in Less)
  BY <1>1, NatLessThanWellFounded, WFMin
<1>3. \A y \in I : m <= y
  <2>1. \A x, y \in Nat : x < y => <<x, y>> \in Less
    BY DEF OpToRel
  <2> HIDE DEF Less
  <2> SUFFICES ASSUME NEW y \in I
               PROVE  m <= y
    OBVIOUS
  <2>2. ~(y < m)
    BY <1>1, <1>2, <2>1
  <2> QED
    BY <1>1, <2>2
<1> QED
  BY <1>2, <1>3 DEF Min

\* delet_ubuff_entry finds the entry by its owner, unmap_buf by its address.
LEMMA DeleteOwner ==
    ASSUME NEW s, OnePerOwner(s), NEW x, NEW n \in 1 .. Len(s), s[n].owner = x
    PROVE  LET t == WithoutOwner(s, x)
           IN  OnePerOwner(t) /\ Range(t) = Range(s) \ {s[n]}
<1> DEFINE I == {i \in 1 .. Len(s) : s[i].owner = x}
<1>1. Len(s) \in Nat
  BY DEF OnePerOwner
<1>2. Min(I) \in I
  BY <1>1, LeastIndex
<1>3. Min(I) = n
  BY <1>2 DEF OnePerOwner
<1>4. WithoutOwner(s, x) = RemoveAt(s, n)
  BY <1>3 DEF WithoutOwner, RemoveFirstMatch, SelectInSeq
<1> QED
  BY <1>4, DeleteAt

LEMMA DeleteMem ==
    ASSUME NEW s, OnePerOwner(s), NEW x, NEW n \in 1 .. Len(s), s[n].mem = x,
           \A i \in 1 .. Len(s) : s[i].mem = x => i = n
    PROVE  LET t == WithoutMem(s, x)
           IN  OnePerOwner(t) /\ Range(t) = Range(s) \ {s[n]}
<1> DEFINE I == {i \in 1 .. Len(s) : s[i].mem = x}
<1>1. Len(s) \in Nat
  BY DEF OnePerOwner
<1>2. Min(I) \in I
  BY <1>1, LeastIndex
<1>3. Min(I) = n
  BY <1>2
<1>4. WithoutMem(s, x) = RemoveAt(s, n)
  BY <1>3 DEF WithoutMem, RemoveFirstMatch, SelectInSeq
<1> QED
  BY <1>4, DeleteAt

LEMMA DeleteNothing ==
    ASSUME NEW s, NEW x, \A i \in 1 .. Len(s) : s[i].mem # x
    PROVE  WithoutMem(s, x) = s
BY DEF WithoutMem, RemoveFirstMatch

LEMMA RemoveAtType ==
    ASSUME NEW s \in Seq(Entries), NEW k \in 1 .. Len(s)
    PROVE  RemoveAt(s, k) \in Seq(Entries)
<1>1. k - 1 \in Int /\ k + 1 \in Int /\ Len(s) \in Int /\ 1 \in Int
  OBVIOUS
<1>2. SubSeq(s, 1, k - 1) \in Seq(Entries)
  <2>1. \A i \in 1 .. k - 1 : s[i] \in Entries
    BY <1>1
  <2> QED
    BY <1>1, <2>1, SubSeqProperties
<1>3. SubSeq(s, k + 1, Len(s)) \in Seq(Entries)
  <2>1. \A i \in k + 1 .. Len(s) : s[i] \in Entries
    BY <1>1
  <2> QED
    BY <1>1, <2>1, SubSeqProperties
<1> QED
  BY <1>2, <1>3, ConcatProperties DEF RemoveAt

LEMMA RemoveType ==
    ASSUME NEW s \in Seq(Entries), NEW x
    PROVE  WithoutOwner(s, x) \in Seq(Entries)
<1> DEFINE I == {i \in 1 .. Len(s) : s[i].owner = x}
<1>1. CASE I = {}
  BY <1>1 DEF WithoutOwner, RemoveFirstMatch
<1>2. CASE I # {}
  <2>1. Min(I) \in 1 .. Len(s)
    <3>1. Len(s) \in Nat /\ I \in SUBSET (1 .. Len(s))
      OBVIOUS
    <3> HIDE DEF I
    <3>2. Min(I) \in I
      BY <1>2, <3>1, LeastIndex
    <3> QED
      BY <3>1, <3>2
  <2>2. WithoutOwner(s, x) = RemoveAt(s, Min(I))
    BY <1>2 DEF WithoutOwner, RemoveFirstMatch, SelectInSeq
  <2> QED
    BY <2>1, <2>2, RemoveAtType
<1> QED
  BY <1>1, <1>2

LEMMA RemoveMemType ==
    ASSUME NEW s \in Seq(Entries), NEW x
    PROVE  WithoutMem(s, x) \in Seq(Entries)
<1> DEFINE I == {i \in 1 .. Len(s) : s[i].mem = x}
<1>1. CASE I = {}
  BY <1>1 DEF WithoutMem, RemoveFirstMatch
<1>2. CASE I # {}
  <2>1. Min(I) \in 1 .. Len(s)
    <3>1. Len(s) \in Nat /\ I \in SUBSET (1 .. Len(s))
      OBVIOUS
    <3> HIDE DEF I
    <3>2. Min(I) \in I
      BY <1>2, <3>1, LeastIndex
    <3> QED
      BY <3>1, <3>2
  <2>2. WithoutMem(s, x) = RemoveAt(s, Min(I))
    BY <1>2 DEF WithoutMem, RemoveFirstMatch, SelectInSeq
  <2> QED
    BY <2>1, <2>2, RemoveAtType
<1> QED
  BY <1>1, <1>2

\* map_buf fills in the entry at the head.
LEMMA FillHead ==
    ASSUME NEW s, OnePerOwner(s), s # <<>>, NEW b \in Buffers
    PROVE  /\ OnePerOwner([s EXCEPT ![1].mem = b])
           /\ Range([s EXCEPT ![1].mem = b])
                = (Range(s) \ {s[1]}) \cup {[owner |-> s[1].owner, mem |-> b]}
<1> DEFINE t == [s EXCEPT ![1].mem = b]
           e == [owner |-> s[1].owner, mem |-> b]
<1>1. s \in Seq(Entries) /\ Len(s) \in Nat /\ 1 \in 1 .. Len(s) /\ DOMAIN s = 1 .. Len(s)
  BY DEF OnePerOwner
<1>2. s[1] \in Entries /\ e \in Entries
  <2>1. s[1] \in Entries
    BY <1>1
  <2> QED
    BY <2>1 DEF Entries
<1>3. t = [s EXCEPT ![1] = e]
  <2>1. [s[1] EXCEPT !.mem = b] = e
    BY <1>2 DEF Entries
  <2>2. t = [s EXCEPT ![1] = [s[1] EXCEPT !.mem = b]]
    OBVIOUS
  <2> QED
    BY <2>1, <2>2
<1>4. t \in Seq(Entries) /\ Len(t) = Len(s) /\ \A i \in 1 .. Len(s) : t[i] = IF i = 1 THEN e ELSE s[i]
  BY <1>1, <1>2, <1>3, ExceptSeq
<1> HIDE DEF t
<1>5. \A i \in 1 .. Len(s) : t[i].owner = s[i].owner
  BY <1>1, <1>4
<1>6. OnePerOwner(t)
  BY <1>1, <1>4, <1>5 DEF OnePerOwner
<1>7. Range(t) = (Range(s) \ {s[1]}) \cup {e}
  <2>1. DOMAIN t = 1 .. Len(s)
    BY <1>4
  <2>2. \A i \in 1 .. Len(s) : i # 1 => s[i] # s[1]
    BY <1>1 DEF OnePerOwner
  <2> QED
    BY <1>1, <1>4, <2>1, <2>2 DEF Range
<1> QED
  BY <1>6, <1>7 DEF t

-----------------------------------------------------------------------------
(* One process acts at a time; the others keep their place and what they    *)
(* have.                                                                    *)

Active(p) == pc[p].at # "closed"

Step(p) == Open(p) \/ Attach(p) \/ Work(p) \/ LetGo(p) \/ Crash(p)

LEMMA NextStep == Next <=> \E p \in Procs : Step(p)
BY DEF Next, Step

LEMMA TypeInit == Init => TypeOK
<1> SUFFICES ASSUME Init PROVE TypeOK
  OBVIOUS
<1>1. 0 \in Queues
  BY FileAssumption DEF Queues
<1> QED
  BY <1>1 DEF Init, TypeOK, At, Nothing, Places, Todos

\* What an ioctl leaves on the list has the right type.
LEMMA ListType ==
    ASSUME TypeOK, NEW p \in Procs
    PROVE  ubuff \in Seq(Entries) /\ <<p, Purpose(p)>> \in Buffers
BY FileAssumption DEF TypeOK, Entries, Purpose, Buffers, Purposes, App, Queues

LEMMA TodoTail ==
    ASSUME NEW todo \in Todos, Len(todo) > 1
    PROVE  Tail(todo) \in Todos
<1>1. todo = <<"rx", "tx">> \/ todo = <<"tx", "rx">>
  <2>1. todo # <<>>
    OBVIOUS
  <2>2. todo # <<"tx">> /\ todo # <<"rx">>
    OBVIOUS
  <2> QED
    BY <2>1, <2>2 DEF Todos
<1>2. Tail(<<"rx", "tx">>) = <<"tx">> /\ Tail(<<"tx", "rx">>) = <<"rx">>
  OBVIOUS
<1> QED
  BY <1>1, <1>2 DEF Todos

LEMMA GotoType ==
    ASSUME TypeOK, NEW p \in Procs, NEW at \in Places, NEW q \in Queues, NEW todo \in Todos,
           pc' = [pc EXCEPT ![p] = At(at, q, todo)]
    PROVE  pc' \in [Procs -> [at : Places, q : Queues, todo : Todos]]
BY DEF TypeOK, At

LEMMA TypeStep ==
    ASSUME TypeOK, NEW p \in Procs, Step(p)
    PROVE  TypeOK'
<1> USE DEF TypeOK
<1>0. 0 \in Queues /\ \A q \in Queues : q + 1 < QUEUE_CNT => q + 1 \in Queues
  BY FileAssumption DEF Queues
<1>1. pc[p].q \in Queues /\ pc[p].todo \in Todos /\ pc[p].at \in Places
  OBVIOUS
<1>2. <<>> \in Todos /\ <<"tx">> \in Todos /\ <<"rx", "tx">> \in Todos /\ <<"tx", "rx">> \in Todos
  BY DEF Todos
<1>3. \A at \in Places, q \in Queues : Goto(p, at, q) =>
          pc' \in [Procs -> [at : Places, q : Queues, todo : Todos]]
  BY <1>2, GotoType DEF Goto
<1>4. \A todo \in Todos : Free(p, todo) =>
          pc' \in [Procs -> [at : Places, q : Queues, todo : Todos]]
  BY <1>0, GotoType DEF Free, Places
<1>5. NextQueue(p) => pc' \in [Procs -> [at : Places, q : Queues, todo : Todos]]
  <2>1. CASE pc[p].q + 1 < QUEUE_CNT
    <3>1. NextQueue(p) => pc' = [pc EXCEPT ![p] = At("free", pc[p].q + 1, pc[p].todo)]
      BY <2>1 DEF NextQueue
    <3>2. "free" \in Places /\ pc[p].q + 1 \in Queues
      BY <1>0, <1>1, <2>1 DEF Places
    <3> QED
      BY <1>1, <3>1, <3>2, GotoType
  <2>2. CASE ~(pc[p].q + 1 < QUEUE_CNT) /\ Len(pc[p].todo) > 1
    <3>1. Tail(pc[p].todo) \in Todos
      BY <1>1, <2>2, TodoTail
    <3>2. NextQueue(p) => Free(p, Tail(pc[p].todo))
      BY <2>2 DEF NextQueue
    <3> QED
      BY <1>4, <3>1, <3>2
  <2>3. CASE ~(pc[p].q + 1 < QUEUE_CNT) /\ ~(Len(pc[p].todo) > 1)
    BY <1>0, <1>3, <2>3 DEF NextQueue, Places
  <2> QED
    BY <2>1, <2>2, <2>3
<1>6. AfterBuffer(p) => pc' \in [Procs -> [at : Places, q : Queues, todo : Todos]]
  BY <1>0, <1>1, <1>3 DEF AfterBuffer, Places
<1>7. Places = {"closed", "map_tx", "map_rx", "get_buffer", "map_buf", "attached", "map_app",
                "free", "free_buffer", "close", "end"}
  BY DEF Places
<1>8. ubuff \in Seq(Entries) /\ <<p, Purpose(p)>> \in Buffers
  BY ListType
<1>9. 1 \in Nat /\ \A q \in Queues : q \in Nat
  BY DEF Queues
<1>10. CASE Open(p)
  BY <1>0, <1>3, <1>7, <1>10 DEF Open, kernel
<1>11. CASE MapTxDesc(p)
  <2>1. pc' \in [Procs -> [at : Places, q : Queues, todo : Todos]]
    BY <1>0, <1>1, <1>3, <1>7, <1>11 DEF MapTxDesc
  <2>2. /\ tx_desc' \in [Queues -> Procs \cup {None}] /\ tx_avb_queue' \subseteq Queues
        /\ UNCHANGED <<rx_desc, rx_avb_queue, ubuff, memory, running>>
    BY <1>1, <1>11 DEF MapTxDesc
  <2>3. has' \in [Procs -> [tx : SUBSET Queues, rx : SUBSET Queues, bufs : SUBSET Buffers]]
    BY <1>1, <1>11 DEF MapTxDesc
  <2> QED
    BY <2>1, <2>2, <2>3
<1>12. CASE MapTxFails(p) \/ MapRxFails(p)
  BY <1>2, <1>4, <1>12 DEF MapTxFails, MapRxFails, kernel
<1>13. CASE MapRxDesc(p)
  <2>1. pc' \in [Procs -> [at : Places, q : Queues, todo : Todos]]
    BY <1>0, <1>1, <1>3, <1>7, <1>13 DEF MapRxDesc
  <2>2. /\ rx_desc' \in [Queues -> Procs \cup {None}] /\ rx_avb_queue' \subseteq Queues
        /\ UNCHANGED <<tx_desc, tx_avb_queue, ubuff, memory, running>>
    BY <1>1, <1>13 DEF MapRxDesc
  <2>3. has' \in [Procs -> [tx : SUBSET Queues, rx : SUBSET Queues, bufs : SUBSET Buffers]]
    BY <1>1, <1>13 DEF MapRxDesc
  <2> QED
    BY <2>1, <2>2, <2>3
<1>14. CASE MapBuf(p)
  <2>1. Entry(<<p, Purpose(p)>>, None) \in Entries
    BY <1>8 DEF Entry, Entries
  <2>2. ubuff' \in Seq(Entries)
    BY <1>8, <1>14, <2>1, ConcatProperties DEF MapBuf
  <2> QED
    BY <1>0, <1>1, <1>3, <1>7, <1>14, <2>2 DEF MapBuf, Entries
<1>15. CASE MapBufDone(p)
  <2>1. ubuff' \in Seq(Entries)
    <3>1. ubuff # <<>> /\ 1 \in 1 .. Len(ubuff) /\ ubuff[1] \in Entries
      BY <1>8, <1>15 DEF MapBufDone
    <3>2. [ubuff[1] EXCEPT !.mem = <<p, Purpose(p)>>] \in Entries
      BY <1>8, <3>1 DEF Entries
    <3>3. ubuff' = [ubuff EXCEPT ![1] = [ubuff[1] EXCEPT !.mem = <<p, Purpose(p)>>]]
      BY <1>15 DEF MapBufDone
    <3> QED
      BY <1>8, <3>1, <3>2, <3>3, ExceptSeq
  <2> QED
    BY <1>6, <1>8, <1>15, <2>1 DEF MapBufDone, Entries
<1>16. CASE MapBufFails(p)
  <2>1. ubuff' \in Seq(Entries)
    BY <1>8, <1>16, RemoveType DEF MapBufFails
  <2> QED
    BY <1>0, <1>2, <1>3, <1>4, <1>7, <1>16, <2>1 DEF MapBufFails, Entries
<1>17. CASE StartDma(p) \/ StopDma(p)
  BY <1>17 DEF StartDma, StopDma, kernel
<1>18. CASE Detach(p)
  BY <1>2, <1>4, <1>18 DEF Detach, kernel
<1>19. CASE UnmapTxDesc(p)
  <2>1. pc' \in [Procs -> [at : Places, q : Queues, todo : Todos]]
    BY <1>1, <1>5, <1>19 DEF UnmapTxDesc
  <2>2. /\ tx_desc' \in [Queues -> Procs \cup {None}] /\ tx_avb_queue' \subseteq Queues
        /\ UNCHANGED <<rx_desc, rx_avb_queue, ubuff, memory, running>>
    BY <1>1, <1>19 DEF UnmapTxDesc
  <2>3. has' \in [Procs -> [tx : SUBSET Queues, rx : SUBSET Queues, bufs : SUBSET Buffers]]
    <3>1. has' = [has EXCEPT ![p] = [has[p] EXCEPT !.tx = has[p].tx \ {pc[p].q}]]
      BY <1>19 DEF UnmapTxDesc
    <3>2. [has[p] EXCEPT !.tx = has[p].tx \ {pc[p].q}] \in
              [tx : SUBSET Queues, rx : SUBSET Queues, bufs : SUBSET Buffers]
      <4>1. has[p] \in [tx : SUBSET Queues, rx : SUBSET Queues, bufs : SUBSET Buffers]
        OBVIOUS
      <4> QED
        BY <4>1
    <3> QED
      BY <3>1, <3>2
  <2> QED
    BY <2>1, <2>2, <2>3
<1>20. CASE UnmapRxDesc(p)
  <2>1. pc' \in [Procs -> [at : Places, q : Queues, todo : Todos]]
    BY <1>1, <1>7, <1>20 DEF UnmapRxDesc
  <2>2. /\ tx_desc' \in [Queues -> Procs \cup {None}]
        /\ rx_desc' \in [Queues -> Procs \cup {None}]
        /\ tx_avb_queue' \subseteq Queues /\ rx_avb_queue' \subseteq Queues
    BY <1>1, <1>20 DEF UnmapRxDesc
  <2>3. has' \in [Procs -> [tx : SUBSET Queues, rx : SUBSET Queues, bufs : SUBSET Buffers]]
    BY <1>1, <1>20, SMTT(30) DEF UnmapRxDesc
  <2>4. UNCHANGED <<ubuff, memory, running>>
    BY <1>20 DEF UnmapRxDesc
  <2> QED
    BY <2>1, <2>2, <2>3, <2>4
<1>21. ASSUME NEW b \in Buffers, UnmapBuf(p, b)
       PROVE  /\ memory' \subseteq Buffers
              /\ ubuff' \in Seq(Entries)
              /\ has' \in [Procs -> [tx : SUBSET Queues, rx : SUBSET Queues, bufs : SUBSET Buffers]]
  <2>1. ubuff' \in Seq(Entries)
    BY <1>8, <1>21, RemoveMemType DEF UnmapBuf
  <2> QED
    BY <1>21, <2>1 DEF UnmapBuf
<1>22. CASE FreeRxBuffer(p)
  <2>1. <<p, pc[p].q>> \in Buffers
    BY DEF Buffers, Purposes
  <2> QED
    BY <1>5, <1>21, <1>22, <2>1 DEF FreeRxBuffer, Entries
<1>24. CASE FreeAppBuffer(p)
  <2>1. <<p, App>> \in Buffers
    BY DEF Buffers, Purposes
  <2> QED
    BY <1>21, <1>24, <2>1 DEF FreeAppBuffer, Entries
<1>23. CASE Release(p)
  BY <1>0, <1>3, <1>7, <1>23, EmptySeq DEF Release, Nothing, Entries
<1> QED
  BY <1>10, <1>11, <1>12, <1>13, <1>14, <1>15, <1>16, <1>17, <1>18, <1>19, <1>20, <1>21, <1>22, <1>23, <1>24
  DEF Step, Attach, Work, LetGo, Close, Crash

\* What a step leaves alone, and where it can start.
LEMMA OnlyActor ==
    ASSUME TypeOK, NEW p \in Procs, Step(p)
    PROVE  /\ \A r \in Procs \ {p} : pc'[r] = pc[r] /\ has'[r] = has[r]
           /\ Open(p) \/ Active(p)
<1> USE DEF TypeOK, Active
<1>1. CASE Open(p)
  BY <1>1 DEF Open, Goto
<1>2. CASE Attach(p)
  BY <1>2 DEF Attach, MapTxDesc, MapTxFails, MapRxDesc, MapRxFails, MapBuf, MapBufDone, MapBufFails,
     Mapping, AfterBuffer, Goto, Free
<1>3. CASE Work(p)
  BY <1>3 DEF Work, MapBuf, FreeAppBuffer, UnmapBuf, StartDma, StopDma, Detach, Goto, Free
<1>4. CASE LetGo(p)
  <2>1. CASE UnmapTxDesc(p)
    BY <2>1 DEF UnmapTxDesc, NextQueue, Goto, Free
  <2>2. CASE UnmapRxDesc(p)
    BY <2>2 DEF UnmapRxDesc
  <2>3. CASE FreeRxBuffer(p)
    BY <2>3 DEF FreeRxBuffer, UnmapBuf, NextQueue, Goto, Free
  <2>4. CASE Close(p)
    BY <2>4 DEF Close, Release, Goto
  <2> QED
    BY <1>4, <2>1, <2>2, <2>3, <2>4 DEF LetGo
<1>5. CASE Crash(p)
  BY <1>5 DEF Crash, Release, Goto
<1> QED
  BY <1>1, <1>2, <1>3, <1>4, <1>5 DEF Step

-----------------------------------------------------------------------------
(* Rule one_user: one process at a time is between open and close.          *)

OneUser == \A p, r \in Procs : Active(p) /\ Active(r) => p = r

LEMMA OneUserStep ==
    ASSUME "one_user" \in Rules, TypeOK, OneUser, NEW p \in Procs, Step(p)
    PROVE  OneUser' /\ \A r \in Procs \ {p} : ~Active(r) /\ ~Active(r)'
<1>1. \A r \in Procs \ {p} : pc'[r] = pc[r]
  BY OnlyActor
<1>2. \A r \in Procs \ {p} : ~Active(r)
  <2>1. CASE Open(p)
    BY <2>1 DEF Open, Active
  <2>2. CASE Active(p)
    BY <2>2 DEF OneUser
  <2> QED
    BY <2>1, <2>2, OnlyActor
<1>3. \A r \in Procs \ {p} : ~Active(r)'
  BY <1>1, <1>2 DEF Active
<1> QED
  BY <1>2, <1>3 DEF OneUser

-----------------------------------------------------------------------------
(* Descriptor memory: bits, pointers and what the processes believe.        *)

DescsAgree ==
    /\ tx_avb_queue = {q \in Queues : tx_desc[q] # None}
    /\ rx_avb_queue = {q \in Queues : rx_desc[q] # None}
    /\ \A p \in Procs : ~Active(p) => has[p] = Nothing
    /\ \A p \in Procs : /\ \A q \in has[p].tx : tx_desc[q] = p
                        /\ \A q \in has[p].rx : rx_desc[q] = p

\* Steps that neither map nor unmap descriptors.
LEMMA DescsStay ==
    ASSUME "one_user" \in Rules, TypeOK, OneUser, DescsAgree, NEW p \in Procs, Step(p),
           UNCHANGED <<tx_avb_queue, rx_avb_queue, tx_desc, rx_desc>>,
           has'[p].tx = has[p].tx, has'[p].rx = has[p].rx,
           Active(p)'
    PROVE  DescsAgree'
<1>1. /\ \A r \in Procs \ {p} : pc'[r] = pc[r] /\ has'[r] = has[r]
      /\ \A r \in Procs \ {p} : ~Active(r) /\ ~Active(r)'
  BY OnlyActor, OneUserStep
<1> QED
  BY <1>1 DEF DescsAgree

\* The invariant from what it says of the process that acts.
LEMMA DescsOfActor ==
    ASSUME TypeOK, NEW p \in Procs,
           \A r \in Procs \ {p} : ~Active(r)' /\ has'[r] = Nothing,
           tx_avb_queue' = {q \in Queues : tx_desc'[q] # None},
           rx_avb_queue' = {q \in Queues : rx_desc'[q] # None},
           ~Active(p)' => has'[p] = Nothing,
           \A q \in has'[p].tx : tx_desc'[q] = p,
           \A q \in has'[p].rx : rx_desc'[q] = p
    PROVE  DescsAgree'
<1>1. Nothing.tx = {} /\ Nothing.rx = {}
  BY DEF Nothing
<1> QED
  BY <1>1 DEF DescsAgree

LEMMA DescsStep ==
    ASSUME "one_user" \in Rules, TypeOK, OneUser, DescsAgree, NEW p \in Procs, Step(p)
    PROVE  DescsAgree'
<1>1. /\ \A r \in Procs \ {p} : pc'[r] = pc[r] /\ has'[r] = has[r]
      /\ \A r \in Procs \ {p} : ~Active(r) /\ ~Active(r)' /\ has[r] = Nothing
      /\ Open(p) \/ Active(p)
  BY OnlyActor, OneUserStep DEF DescsAgree
<1>3. p # None /\ pc[p].q \in Queues
  BY FileAssumption DEF TypeOK
<1>4. Nothing.tx = {} /\ Nothing.rx = {}
  BY DEF Nothing
<1>5. CASE Open(p)
  BY <1>5, DescsStay DEF Open, Goto, At, Active, kernel, TypeOK
<1>6. CASE MapTxDesc(p)
  <2>1. Active(p)'
    BY <1>6 DEF MapTxDesc, Goto, At, Active, TypeOK
  <2>2. /\ tx_avb_queue' = tx_avb_queue \cup {pc[p].q}
        /\ tx_desc' = [tx_desc EXCEPT ![pc[p].q] = p]
        /\ has'[p].tx = has[p].tx \cup {pc[p].q} /\ has'[p].rx = has[p].rx
        /\ UNCHANGED <<rx_avb_queue, rx_desc>>
    BY <1>6 DEF MapTxDesc, TypeOK
  <2>3. tx_avb_queue' = {q \in Queues : tx_desc'[q] # None}
    BY <1>3, <2>2 DEF DescsAgree, TypeOK
  <2>4. rx_avb_queue' = {q \in Queues : rx_desc'[q] # None}
    BY <1>3, <2>2 DEF DescsAgree, TypeOK
  <2>6. /\ \A q \in has'[p].tx : tx_desc'[q] = p
        /\ \A q \in has'[p].rx : rx_desc'[q] = p
    BY <1>3, <2>2 DEF DescsAgree, TypeOK
  <2> QED
    BY <1>1, <2>1, <2>3, <2>4, <2>6, DescsOfActor
<1>7. CASE MapRxDesc(p)
  <2>1. Active(p)'
    BY <1>7 DEF MapRxDesc, Goto, At, Active, TypeOK
  <2>2. /\ rx_avb_queue' = rx_avb_queue \cup {pc[p].q}
        /\ rx_desc' = [rx_desc EXCEPT ![pc[p].q] = p]
        /\ has'[p].rx = has[p].rx \cup {pc[p].q} /\ has'[p].tx = has[p].tx
        /\ UNCHANGED <<tx_avb_queue, tx_desc>>
    BY <1>7 DEF MapRxDesc, TypeOK
  <2>3. tx_avb_queue' = {q \in Queues : tx_desc'[q] # None}
    BY <1>3, <2>2 DEF DescsAgree, TypeOK
  <2>4. rx_avb_queue' = {q \in Queues : rx_desc'[q] # None}
    BY <1>3, <2>2 DEF DescsAgree, TypeOK
  <2>6. /\ \A q \in has'[p].tx : tx_desc'[q] = p
        /\ \A q \in has'[p].rx : rx_desc'[q] = p
    BY <1>3, <2>2 DEF DescsAgree, TypeOK
  <2> QED
    BY <1>1, <2>1, <2>3, <2>4, <2>6, DescsOfActor
<1>8. CASE UnmapTxDesc(p)
  <2>1. Active(p)'
    BY <1>8 DEF UnmapTxDesc, NextQueue, Goto, Free, At, Active, TypeOK
  <2>2. /\ tx_avb_queue' = tx_avb_queue \ {pc[p].q}
        /\ tx_desc' = [tx_desc EXCEPT ![pc[p].q] = None]
        /\ has'[p].tx = has[p].tx \ {pc[p].q} /\ has'[p].rx = has[p].rx
        /\ UNCHANGED <<rx_avb_queue, rx_desc>>
    BY <1>8 DEF UnmapTxDesc, TypeOK
  <2>3. tx_avb_queue' = {q \in Queues : tx_desc'[q] # None}
    BY <1>3, <2>2 DEF DescsAgree, TypeOK
  <2>4. rx_avb_queue' = {q \in Queues : rx_desc'[q] # None}
    BY <1>3, <2>2 DEF DescsAgree, TypeOK
  <2>6. /\ \A q \in has'[p].tx : tx_desc'[q] = p
        /\ \A q \in has'[p].rx : rx_desc'[q] = p
    BY <1>3, <2>2 DEF DescsAgree, TypeOK
  <2> QED
    BY <1>1, <2>1, <2>3, <2>4, <2>6, DescsOfActor
<1>9. CASE UnmapRxDesc(p)
  <2>1. Active(p)'
    BY <1>9 DEF UnmapRxDesc, Active, TypeOK
  <2>2. /\ rx_avb_queue' = rx_avb_queue \ {pc[p].q}
        /\ rx_desc' = [rx_desc EXCEPT ![pc[p].q] = None]
        /\ has'[p].rx = has[p].rx \ {pc[p].q} /\ has'[p].tx = has[p].tx
        /\ UNCHANGED <<tx_avb_queue, tx_desc>>
    BY <1>9 DEF UnmapRxDesc, TypeOK
  <2>3. tx_avb_queue' = {q \in Queues : tx_desc'[q] # None}
    BY <1>3, <2>2 DEF DescsAgree, TypeOK
  <2>4. rx_avb_queue' = {q \in Queues : rx_desc'[q] # None}
    BY <1>3, <2>2 DEF DescsAgree, TypeOK
  <2>6. /\ \A q \in has'[p].tx : tx_desc'[q] = p
        /\ \A q \in has'[p].rx : rx_desc'[q] = p
    BY <1>3, <2>2 DEF DescsAgree, TypeOK
  <2> QED
    BY <1>1, <2>1, <2>3, <2>4, <2>6, DescsOfActor
<1>10. CASE Release(p)
  <2>1. has'[p] = Nothing /\ UNCHANGED <<tx_avb_queue, tx_desc, rx_avb_queue, rx_desc>>
    BY <1>10 DEF Release, TypeOK
  <2>2. /\ tx_avb_queue' = {q \in Queues : tx_desc'[q] # None}
        /\ rx_avb_queue' = {q \in Queues : rx_desc'[q] # None}
    BY <2>1 DEF DescsAgree
  <2> QED
    BY <1>1, <1>4, <2>1, <2>2, DescsOfActor
<1>11. CASE MapTxFails(p) \/ MapRxFails(p)
  BY <1>11, DescsStay DEF MapTxFails, MapRxFails, Free, At, Active, kernel, TypeOK
<1>12. CASE MapBuf(p)
  BY <1>12, DescsStay DEF MapBuf, Goto, At, Active, TypeOK
<1>13. CASE MapBufDone(p)
  BY <1>13, DescsStay DEF MapBufDone, AfterBuffer, Goto, At, Active, TypeOK
<1>14. CASE MapBufFails(p)
  BY <1>14, DescsStay DEF MapBufFails, Goto, Free, At, Active, TypeOK
<1>15. CASE StartDma(p) \/ StopDma(p)
  BY <1>15, DescsStay DEF StartDma, StopDma, Active, kernel
<1>16. CASE Detach(p)
  BY <1>16, DescsStay DEF Detach, Free, At, Active, kernel, TypeOK
<1>17. CASE FreeRxBuffer(p)
  <2>1. Active(p)'
    BY <1>17 DEF FreeRxBuffer, NextQueue, Goto, Free, At, Active, TypeOK
  <2>2. has'[p].tx = has[p].tx /\ has'[p].rx = has[p].rx
    BY <1>17 DEF FreeRxBuffer, UnmapBuf, TypeOK
  <2> QED
    BY <1>17, <2>1, <2>2, DescsStay DEF FreeRxBuffer
<1>18. CASE FreeAppBuffer(p)
  BY <1>18, DescsStay DEF FreeAppBuffer, UnmapBuf, Active, TypeOK
<1> QED
  BY <1>5, <1>6, <1>7, <1>8, <1>9, <1>10, <1>11, <1>12, <1>13, <1>14, <1>15, <1>16, <1>17, <1>18
  DEF Step, Attach, Work, LetGo, Close, Crash

-----------------------------------------------------------------------------
(* Buffers: the list, the memory and what the processes believe.            *)

\* The entry whose memory is being allocated.
Pending == {x \in Entries : x.mem = None}

BufsAgree ==
    /\ OnePerOwner(ubuff)
    /\ \A e \in Range(ubuff) : Active(e.owner[1]) /\ (e.mem = None \/ e.mem = e.owner)
    /\ \A p \in Procs : Mapping(p) =>
          ubuff # <<>> /\ ubuff[1] = Entry(<<p, Purpose(p)>>, None)
    /\ \A e \in Range(ubuff) : e.mem = None =>
          \E p \in Procs : Mapping(p) /\ e.owner = <<p, Purpose(p)>>
    /\ memory = {e.mem : e \in Range(ubuff)} \ {None}
    /\ \A p \in Procs : has[p].bufs = {b \in memory : b[1] = p}

\* With one process at work, everything on the list is its own.
LEMMA OwnList ==
    ASSUME "one_user" \in Rules, TypeOK, OneUser, DescsAgree, BufsAgree, NEW p \in Procs, Step(p)
    PROVE  /\ \A e \in Range(ubuff) : e \in Entries /\ e.owner[1] = p
           /\ has[p].bufs = memory
           /\ \A b \in memory : b \in Buffers /\ b # None /\ b[1] = p
           /\ \A e \in Range(ubuff) : e.mem = None =>
                 Mapping(p) /\ e = Entry(<<p, Purpose(p)>>, None)
           /\ \A r \in Procs \ {p} : ~Mapping(r) /\ ~Mapping(r)' /\ has[r].bufs = {} /\ has'[r].bufs = {}
<1>1. /\ \A r \in Procs \ {p} : pc'[r] = pc[r] /\ has'[r] = has[r]
      /\ \A r \in Procs \ {p} : ~Active(r) /\ ~Active(r)' /\ has[r] = Nothing
  BY OnlyActor, OneUserStep DEF DescsAgree
<1>2. \A e \in Range(ubuff) : e \in Entries
  BY DEF BufsAgree, OnePerOwner, Range
<1>3. \A e \in Range(ubuff) : e.owner[1] \in Procs
  BY <1>2 DEF Entries, Buffers
<1>4. \A e \in Range(ubuff) : e.owner[1] = p
  BY <1>1, <1>3 DEF BufsAgree
<1>5. None \notin Buffers
  BY FileAssumption DEF Buffers
<1>6. \A b \in memory : b \in Buffers /\ b # None /\ b[1] = p
  BY <1>2, <1>4, <1>5 DEF BufsAgree, Entries
<1>7. \A r \in Procs \ {p} : ~Mapping(r) /\ ~Mapping(r)' /\ has[r].bufs = {} /\ has'[r].bufs = {}
  BY <1>1 DEF Mapping, Active, Nothing
<1>8. ASSUME NEW e \in Range(ubuff), e.mem = None
      PROVE  Mapping(p) /\ e = Entry(<<p, Purpose(p)>>, None)
  <2>1. Mapping(p) /\ e.owner = <<p, Purpose(p)>>
    BY <1>7, <1>8 DEF BufsAgree
  <2> QED
    BY <1>2, <1>8, <2>1 DEF Entries, Entry
<1>9. has[p].bufs = memory
  BY <1>6 DEF BufsAgree
<1> QED
  BY <1>2, <1>4, <1>6, <1>7, <1>8, <1>9

\* The invariant from what it says of the process that acts.
LEMMA BufsOfActor ==
    ASSUME TypeOK, NEW p \in Procs,
           OnePerOwner(ubuff'),
           \A e \in Range(ubuff') :
              e.owner[1] = p /\ (e.mem = None \/ e.mem = e.owner),
           \A e \in Range(ubuff') : e.mem = None => Mapping(p)' /\ e.owner = <<p, Purpose(p)'>>,
           \/ Active(p)'
           \/ Range(ubuff') = {},
           Mapping(p)' => ubuff' # <<>> /\ ubuff'[1] = Entry(<<p, Purpose(p)'>>, None),
           memory' = {e.mem : e \in Range(ubuff')} \ {None},
           has'[p].bufs = memory',
           \A r \in Procs \ {p} : ~Mapping(r)' /\ has'[r].bufs = {}
    PROVE  BufsAgree'
<1>1. \A b \in memory' : b[1] = p
  OBVIOUS
<1>2. \A r \in Procs : has'[r].bufs = {b \in memory' : b[1] = r}
  BY <1>1
<1> QED
  BY <1>2 DEF BufsAgree, Entry

-----------------------------------------------------------------------------
(* How far attach has come.                                                 *)

Progress ==
    \A p \in Procs :
        LET at == pc[p].at
            q  == pc[p].q
            h  == has[p]
        IN  /\ at = "map_tx" => h.rx = {} /\ h.bufs = {} /\ \A x \in Queues : x < q => x \in h.tx
            /\ at \in {"map_rx", "get_buffer", "map_buf"} =>
                  /\ h.tx = Queues
                  /\ \A x \in Queues : x < q => x \in h.rx /\ <<p, x>> \in h.bufs
                  /\ \A b \in h.bufs : b[2] \in Queues /\ b[2] < q
            /\ at \in {"get_buffer", "map_buf"} => q \in h.rx
            /\ at \in {"attached", "map_app"} =>
                  /\ h.tx = Queues /\ h.rx = Queues
                  /\ \A x \in Queues : <<p, x>> \in h.bufs

\* Places where nothing is said.
LEMMA ProgressElsewhere ==
    ASSUME TypeOK, Progress, NEW p \in Procs, Step(p),
           pc'[p].at \in {"closed", "free", "free_buffer", "close", "end"}
    PROVE  Progress'
<1>1. \A r \in Procs \ {p} : pc'[r] = pc[r] /\ has'[r] = has[r]
  BY OnlyActor
<1> QED
  BY <1>1 DEF Progress

LEMMA ProgressStep ==
    ASSUME TypeOK, DescsAgree, Progress, NEW p \in Procs, Step(p)
    PROVE  Progress'
<1>1. \A r \in Procs \ {p} : pc'[r] = pc[r] /\ has'[r] = has[r]
  BY OnlyActor
<1>2. QUEUE_CNT \in Nat /\ Queues = 0 .. QUEUE_CNT - 1 /\ pc[p].q \in Queues /\ App \notin Queues
  BY FileAssumption DEF Queues, App, TypeOK
<1>3. CASE Open(p)
  <2>1. has[p].rx = {} /\ has[p].bufs = {}
    BY <1>3 DEF Open, DescsAgree, Active, Nothing
  <2>2. pc'[p].at = "map_tx" /\ pc'[p].q = 0 /\ has'[p] = has[p]
    BY <1>3 DEF Open, Goto, At, TypeOK
  <2> QED
    BY <1>1, <1>2, <2>1, <2>2 DEF Progress
<1>4. CASE MapTxDesc(p)
  <2>1. has'[p].tx = has[p].tx \cup {pc[p].q} /\ has'[p].bufs = has[p].bufs /\ has'[p].rx = has[p].rx
    BY <1>4 DEF MapTxDesc, TypeOK
  <2>2. has[p].rx = {} /\ has[p].bufs = {} /\ \A x \in Queues : x < pc[p].q => x \in has[p].tx
    BY <1>4 DEF MapTxDesc, Progress
  <2>3. \A x \in Queues : x < pc[p].q + 1 => x \in has'[p].tx
    BY <1>2, <2>1, <2>2
  <2>4. has'[p].tx \subseteq Queues
    BY <1>2, <2>1 DEF TypeOK
  <2>5. CASE pc[p].q + 1 < QUEUE_CNT
    <3>1. pc'[p].at = "map_tx" /\ pc'[p].q = pc[p].q + 1
      BY <1>4, <2>5 DEF MapTxDesc, Goto, At, TypeOK
    <3> QED
      BY <1>1, <2>1, <2>2, <2>3, <3>1 DEF Progress
  <2>6. CASE ~(pc[p].q + 1 < QUEUE_CNT)
    <3>1. pc'[p].at = "map_rx" /\ pc'[p].q = 0
      BY <1>4, <2>6 DEF MapTxDesc, Goto, At, TypeOK
    <3>2. has'[p].tx = Queues
      <4>1. \A x \in Queues : x < pc[p].q + 1
        BY <1>2, <2>6
      <4> QED
        BY <2>3, <2>4, <4>1
    <3> QED
      BY <1>1, <1>2, <2>1, <2>2, <3>1, <3>2 DEF Progress
  <2> QED
    BY <2>5, <2>6
<1>5. CASE MapRxDesc(p)
  <2>1. /\ has'[p].rx = has[p].rx \cup {pc[p].q}
        /\ has'[p].bufs = has[p].bufs /\ has'[p].tx = has[p].tx
        /\ pc'[p].at = "get_buffer" /\ pc'[p].q = pc[p].q /\ pc[p].at = "map_rx"
    BY <1>5 DEF MapRxDesc, Goto, At, TypeOK
  <2> QED
    BY <1>1, <2>1 DEF Progress
<1>6. CASE MapBuf(p)
  <2>1. CASE pc[p].at = "get_buffer"
    <3>1. pc'[p].at = "map_buf" /\ pc'[p].q = pc[p].q /\ has'[p] = has[p]
      BY <1>6, <2>1 DEF MapBuf, Goto, At, TypeOK
    <3> QED
      BY <1>1, <2>1, <3>1 DEF Progress
  <2>2. CASE pc[p].at = "attached"
    <3>1. pc'[p].at = "map_app" /\ has'[p] = has[p]
      BY <1>6, <2>2 DEF MapBuf, Goto, At, TypeOK
    <3> QED
      BY <1>1, <2>2, <3>1 DEF Progress
  <2> QED
    BY <1>6, <2>1, <2>2 DEF MapBuf
<1>7. CASE MapBufDone(p)
  <2>1. /\ has'[p].bufs = has[p].bufs \cup {<<p, Purpose(p)>>}
        /\ has'[p].tx = has[p].tx /\ has'[p].rx = has[p].rx
    BY <1>7 DEF MapBufDone, TypeOK
  <2>2. CASE pc[p].at = "map_app"
    <3>1. pc'[p].at = "attached"
      BY <1>7, <2>2 DEF MapBufDone, AfterBuffer, Goto, At, TypeOK
    <3> QED
      BY <1>1, <2>1, <2>2, <3>1 DEF Progress
  <2>3. CASE pc[p].at = "map_buf"
    <3>1. Purpose(p) = pc[p].q
      BY <2>3 DEF Purpose
    <3>2. /\ has[p].tx = Queues /\ pc[p].q \in has[p].rx
          /\ \A x \in Queues : x < pc[p].q => x \in has[p].rx /\ <<p, x>> \in has[p].bufs
          /\ \A b \in has[p].bufs : b[2] \in Queues /\ b[2] < pc[p].q
      BY <2>3 DEF Progress
    <3>3. /\ \A x \in Queues : x < pc[p].q + 1 => x \in has'[p].rx /\ <<p, x>> \in has'[p].bufs
          /\ \A b \in has'[p].bufs : b[2] \in Queues /\ b[2] < pc[p].q + 1
      BY <1>2, <2>1, <3>1, <3>2
    <3>4. CASE pc[p].q + 1 < QUEUE_CNT
      <4>1. pc'[p].at = "map_rx" /\ pc'[p].q = pc[p].q + 1
        BY <1>7, <2>3, <3>4 DEF MapBufDone, AfterBuffer, Goto, At, TypeOK
      <4> QED
        BY <1>1, <2>1, <3>2, <3>3, <4>1 DEF Progress
    <3>5. CASE ~(pc[p].q + 1 < QUEUE_CNT)
      <4>1. pc'[p].at = "attached"
        BY <1>7, <2>3, <3>5 DEF MapBufDone, AfterBuffer, Goto, At, TypeOK
      <4>2. \A x \in Queues : x \in has'[p].rx /\ <<p, x>> \in has'[p].bufs
        BY <1>2, <3>3, <3>5
      <4>3. has'[p].rx = Queues
        BY <2>1, <4>2 DEF TypeOK
      <4> QED
        BY <1>1, <2>1, <3>2, <4>1, <4>2, <4>3 DEF Progress
    <3> QED
      BY <3>4, <3>5
  <2> QED
    BY <1>7, <2>2, <2>3 DEF MapBufDone, Mapping
<1>8. CASE FreeAppBuffer(p)
  <2>1. /\ has'[p].bufs = has[p].bufs \ {<<p, App>>}
        /\ has'[p].tx = has[p].tx /\ has'[p].rx = has[p].rx
        /\ pc' = pc /\ pc[p].at = "attached"
    BY <1>8 DEF FreeAppBuffer, UnmapBuf, TypeOK
  <2>2. \A x \in Queues : <<p, x>> # <<p, App>>
    BY <1>2
  <2> QED
    BY <1>1, <2>1, <2>2 DEF Progress
<1>9. CASE StartDma(p) \/ StopDma(p)
  BY <1>1, <1>9 DEF StartDma, StopDma, Progress
<1>10. CASE MapTxFails(p) \/ MapRxFails(p)
  BY <1>10, ProgressElsewhere DEF MapTxFails, MapRxFails, Free, At, TypeOK
<1>11. CASE MapBufFails(p)
  BY <1>11, ProgressElsewhere DEF MapBufFails, Goto, Free, At, TypeOK
<1>12. CASE Detach(p)
  BY <1>12, ProgressElsewhere DEF Detach, Free, At, TypeOK
<1>13. CASE UnmapTxDesc(p)
  <2>1. pc'[p].at \in {"free", "close"}
    BY <1>13 DEF UnmapTxDesc, NextQueue, Free, Goto, At, TypeOK
  <2> QED
    BY <2>1, ProgressElsewhere
<1>14. CASE UnmapRxDesc(p)
  BY <1>14, ProgressElsewhere DEF UnmapRxDesc, TypeOK
<1>15. CASE FreeRxBuffer(p)
  <2>1. pc'[p].at \in {"free", "close"}
    BY <1>15 DEF FreeRxBuffer, NextQueue, Free, Goto, At, TypeOK
  <2> QED
    BY <2>1, ProgressElsewhere
<1>16. CASE Release(p)
  BY <1>16, ProgressElsewhere DEF Release, Goto, At, TypeOK
<1> QED
  BY <1>3, <1>4, <1>5, <1>6, <1>7, <1>8, <1>9, <1>10, <1>11, <1>12, <1>13, <1>14, <1>15, <1>16
  DEF Step, Attach, Work, LetGo, Close, Crash

\* Steps that leave list and memory alone.
LEMMA BufsStay ==
    ASSUME "one_user" \in Rules, TypeOK, OneUser, DescsAgree, BufsAgree, NEW p \in Procs, Step(p),
           UNCHANGED <<ubuff, memory>>, has'[p].bufs = has[p].bufs,
           ~Mapping(p), ~Mapping(p)', Active(p)'
    PROVE  BufsAgree'
<1>1. OnePerOwner(ubuff') /\ memory' = {e.mem : e \in Range(ubuff')} \ {None}
  BY DEF BufsAgree
<1>2. \A e \in Range(ubuff') : e.owner[1] = p /\ (e.mem = None \/ e.mem = e.owner) /\ e.mem # None
  BY OwnList DEF BufsAgree
<1>3. has'[p].bufs = memory' /\ \A r \in Procs \ {p} : ~Mapping(r)' /\ has'[r].bufs = {}
  BY OwnList
<1> HIDE DEF BufsAgree, OnePerOwner, Mapping
<1> QED
  BY <1>1, <1>2, <1>3, BufsOfActor

\* unmap_buf leaves list and memory in agreement.
LEMMA UnmapAgrees ==
    ASSUME "one_user" \in Rules, TypeOK, OneUser, DescsAgree, BufsAgree, NEW p \in Procs, Step(p),
           NEW b \in Buffers, UnmapBuf(p, b), ~Mapping(p)
    PROVE  /\ OnePerOwner(ubuff')
           /\ Range(ubuff') \subseteq Range(ubuff)
           /\ memory' = {e.mem : e \in Range(ubuff')} \ {None}
           /\ has'[p].bufs = memory'
<1>1. /\ \A e \in Range(ubuff) : e \in Entries /\ e.mem # None /\ e.mem = e.owner
      /\ has[p].bufs = memory
      /\ memory = {e.mem : e \in Range(ubuff)} \ {None}
      /\ OnePerOwner(ubuff) /\ ubuff \in Seq(Entries)
  BY OwnList DEF BufsAgree, OnePerOwner
<1>2. has'[p].bufs = has[p].bufs \ {b}
  BY DEF UnmapBuf, TypeOK
<1>3. CASE b \in memory
  <2>1. memory' = memory \ {b} /\ ubuff' = WithoutMem(ubuff, b)
    BY <1>1, <1>3 DEF UnmapBuf
  <2>2. PICK n \in 1 .. Len(ubuff) : ubuff[n].mem = b
    <3>1. DOMAIN ubuff = 1 .. Len(ubuff)
      BY <1>1
    <3> QED
      BY <1>1, <1>3, <3>1 DEF Range
  <2>3. \A i \in 1 .. Len(ubuff) : ubuff[i] \in Range(ubuff)
    <3>1. DOMAIN ubuff = 1 .. Len(ubuff)
      BY <1>1
    <3> QED
      BY <3>1 DEF Range
  <2>4. \A i \in 1 .. Len(ubuff) : ubuff[i].mem = b => i = n
    BY <1>1, <2>2, <2>3 DEF OnePerOwner
  <2>5. OnePerOwner(ubuff') /\ Range(ubuff') = Range(ubuff) \ {ubuff[n]}
    BY <1>1, <2>1, <2>2, <2>4, DeleteMem
  <2>6. \A e \in Range(ubuff) : e.mem = b => e = ubuff[n]
    <3>1. DOMAIN ubuff = 1 .. Len(ubuff)
      BY <1>1
    <3> QED
      BY <2>4, <3>1 DEF Range
  <2>7. memory' = {e.mem : e \in Range(ubuff')} \ {None}
    BY <1>1, <2>1, <2>2, <2>5, <2>6
  <2> QED
    BY <1>1, <1>2, <2>1, <2>5, <2>7
<1>4. CASE b \notin memory
  <2>1. memory' = memory \ {None} /\ ubuff' = WithoutMem(ubuff, None)
    BY <1>1, <1>4 DEF UnmapBuf
  <2>2. \A i \in 1 .. Len(ubuff) : ubuff[i].mem # None
    <3>1. DOMAIN ubuff = 1 .. Len(ubuff)
      BY <1>1
    <3> QED
      BY <1>1, <3>1 DEF Range
  <2>3. ubuff' = ubuff
    BY <2>1, <2>2, DeleteNothing
  <2> QED
    BY <1>1, <1>2, <1>4, <2>1, <2>3
<1> QED
  BY <1>3, <1>4

LEMMA BufsStep ==
    ASSUME "one_user" \in Rules, TypeOK, OneUser, DescsAgree, BufsAgree, Progress,
           NEW p \in Procs, Step(p)
    PROVE  BufsAgree'
<1>1. /\ \A e \in Range(ubuff) : e \in Entries /\ e.owner[1] = p
      /\ \A e \in Range(ubuff) : e.mem = None => Mapping(p) /\ e = Entry(<<p, Purpose(p)>>, None)
      /\ \A r \in Procs \ {p} : ~Mapping(r)' /\ has'[r].bufs = {}
      /\ has[p].bufs = memory
  BY OwnList
<1>2. /\ \A e \in Range(ubuff) : e.mem = None \/ e.mem = e.owner
      /\ memory = {e.mem : e \in Range(ubuff)} \ {None}
      /\ OnePerOwner(ubuff) /\ ubuff \in Seq(Entries) /\ DOMAIN ubuff = 1 .. Len(ubuff)
  BY DEF BufsAgree, OnePerOwner
<1>3. None \notin Buffers /\ <<p, Purpose(p)>> \in Buffers
  BY ListType, FileAssumption DEF Buffers
<1>4. \A e \in Entries : e = Entry(e.owner, e.mem)
  BY DEF Entries, Entry
<1>5. CASE MapBuf(p)
  <2>1. Purpose(p)' = Purpose(p) /\ Mapping(p)' /\ ~Mapping(p) /\ Active(p)' /\ has' = has
    BY <1>5 DEF MapBuf, Purpose, Mapping, Active, Goto, At, TypeOK
  <2> DEFINE e0 == Entry(<<p, Purpose(p)>>, None)
  <2>2. e0 \in Entries /\ e0.owner = <<p, Purpose(p)>> /\ e0.mem = None
    BY <1>3 DEF Entry, Entries
  <2>3. <<p, Purpose(p)>> \notin memory
    <3>1. CASE pc[p].at = "get_buffer"
      <4>1. Purpose(p) = pc[p].q /\ pc[p].q \in Nat
        BY <3>1, FileAssumption DEF Purpose, Queues, TypeOK
      <4>2. \A x \in memory : x[2] \in Queues /\ x[2] < pc[p].q
        BY <1>1, <3>1 DEF Progress
      <4>3. <<p, Purpose(p)>>[2] = pc[p].q /\ ~(pc[p].q < pc[p].q)
        BY <4>1
      <4> QED
        BY <4>2, <4>3
    <3>2. CASE pc[p].at = "attached"
      BY <1>1, <1>5, <3>2 DEF MapBuf, Purpose
    <3> QED
      BY <1>5, <3>1, <3>2 DEF MapBuf
  <2>4. \A i \in 1 .. Len(ubuff) : ubuff[i].owner # e0.owner
    BY <1>1, <1>2, <2>1, <2>2, <2>3, SMTT(30) DEF Range
  <2>5. ubuff' = <<e0>> \o ubuff /\ memory' = memory
    BY <1>5 DEF MapBuf
  <2> HIDE DEF e0
  <2>6. /\ OnePerOwner(ubuff') /\ Range(ubuff') = Range(ubuff) \cup {e0}
        /\ Len(ubuff') > 0 /\ ubuff'[1] = e0
    BY <1>2, <2>2, <2>4, <2>5, AddEntry
  <2>7. memory' = {e.mem : e \in Range(ubuff')} \ {None}
    BY <1>2, <2>2, <2>5, <2>6
  <2>8. ubuff' # <<>>
    BY <2>6
  <2>9. \A e \in Range(ubuff') : /\ e.owner[1] = p /\ (e.mem = None \/ e.mem = e.owner)
                                 /\ e.mem = None => e.owner = <<p, Purpose(p)>>
    BY <1>1, <1>2, <2>1, <2>2, <2>6
  <2>10. ubuff'[1] = Entry(<<p, Purpose(p)'>>, None)
    BY <2>1, <2>6 DEF e0
  <2> QED
    BY <1>1, <2>1, <2>5, <2>6, <2>7, <2>8, <2>9, <2>10, BufsOfActor
<1>6. CASE MapBufDone(p)
  <2> DEFINE b == <<p, Purpose(p)>>
  <2>1. ~Mapping(p)' /\ Active(p)'
    BY <1>6 DEF MapBufDone, AfterBuffer, Mapping, Active, Goto, At, TypeOK
  <2>2. Mapping(p) /\ ubuff # <<>> /\ ubuff[1] = Entry(b, None)
    BY <1>6 DEF MapBufDone, BufsAgree
  <2>3. /\ memory' = memory \cup {b} /\ ubuff' = [ubuff EXCEPT ![1].mem = b]
        /\ has'[p].bufs = has[p].bufs \cup {b}
    BY <1>6 DEF MapBufDone, TypeOK
  <2>4. b \in Buffers /\ b # None /\ b[1] = p
    BY <1>3
  <2> HIDE DEF b
  <2>5. Entry(b, None).owner = b /\ Entry(b, None).mem = None
    BY DEF Entry
  <2>6. /\ OnePerOwner(ubuff')
        /\ Range(ubuff') = (Range(ubuff) \ {ubuff[1]}) \cup {[owner |-> b, mem |-> b]}
    <3>1. /\ OnePerOwner(ubuff')
          /\ Range(ubuff') = (Range(ubuff) \ {ubuff[1]}) \cup {[owner |-> ubuff[1].owner, mem |-> b]}
      BY <1>2, <2>2, <2>3, <2>4, FillHead
    <3>2. ubuff[1].owner = b
      BY <2>2, <2>5
    <3> QED
      BY <3>1, <3>2
  <2>7. \A e \in Range(ubuff') : e.owner[1] = p /\ e.mem = e.owner /\ e.mem # None
    BY <1>1, <1>2, <2>2, <2>4, <2>6 DEF b
  <2>8. memory' = {e.mem : e \in Range(ubuff')} \ {None}
    <3>1. ubuff[1].mem = None
      BY <2>2, <2>5
    <3>2. memory = {e.mem : e \in Range(ubuff) \ {ubuff[1]}} \ {None}
      BY <1>2, <3>1
    <3>3. {e.mem : e \in Range(ubuff')} = {e.mem : e \in Range(ubuff) \ {ubuff[1]}} \cup {b}
      <4> DEFINE new == [owner |-> b, mem |-> b]
                 old == Range(ubuff) \ {ubuff[1]}
      <4>1. new.mem = b /\ Range(ubuff') = old \cup {new}
        BY <2>6
      <4> HIDE DEF new, old
      <4>2. {e.mem : e \in Range(ubuff')} = {e.mem : e \in old} \cup {b}
        BY <4>1
      <4> QED
        BY <4>2 DEF old
    <3> QED
      BY <2>3, <2>4, <3>2, <3>3
  <2> QED
    BY <1>1, <2>1, <2>3, <2>6, <2>7, <2>8, BufsOfActor
<1>7. CASE MapBufFails(p)
  <2> DEFINE b == <<p, Purpose(p)>>
  <2>1. ~Mapping(p)' /\ Active(p)'
    BY <1>7 DEF MapBufFails, Mapping, Active, Goto, Free, At, TypeOK
  <2>2. Mapping(p) /\ ubuff # <<>> /\ ubuff[1] = Entry(b, None)
    BY <1>7 DEF MapBufFails, BufsAgree
  <2>3. memory' = memory /\ ubuff' = WithoutOwner(ubuff, b) /\ has' = has
    BY <1>7 DEF MapBufFails
  <2>4. Entry(b, None).owner = b /\ Entry(b, None).mem = None
    BY DEF Entry
  <2>5. 1 \in 1 .. Len(ubuff)
    BY <1>2, <2>2
  <2> HIDE DEF b
  <2>6. OnePerOwner(ubuff') /\ Range(ubuff') = Range(ubuff) \ {ubuff[1]}
    BY <1>2, <2>2, <2>3, <2>4, <2>5, DeleteOwner
  <2>7. \A e \in Range(ubuff') : e.owner[1] = p /\ e.mem = e.owner /\ e.mem # None
    BY <1>1, <1>2, <2>2, <2>6 DEF b
  <2>8. memory' = {e.mem : e \in Range(ubuff')} \ {None}
    BY <1>2, <2>2, <2>3, <2>4, <2>6
  <2> QED
    BY <1>1, <2>1, <2>3, <2>6, <2>7, <2>8, BufsOfActor
<1>8. ASSUME NEW b \in Buffers, UnmapBuf(p, b), ~Mapping(p), ~Mapping(p)', Active(p)'
      PROVE  BufsAgree'
  <2>1. /\ OnePerOwner(ubuff')
        /\ Range(ubuff') \subseteq Range(ubuff)
        /\ memory' = {e.mem : e \in Range(ubuff')} \ {None}
        /\ has'[p].bufs = memory'
    BY <1>8, UnmapAgrees
  <2> QED
    BY <1>1, <1>2, <1>8, <2>1, BufsOfActor
<1>9. CASE FreeRxBuffer(p)
  <2>1. ~Mapping(p) /\ ~Mapping(p)' /\ Active(p)'
    BY <1>9 DEF FreeRxBuffer, NextQueue, Mapping, Active, Goto, Free, At, TypeOK
  <2>2. <<p, pc[p].q>> \in Buffers
    BY DEF Buffers, Purposes, TypeOK
  <2> QED
    BY <1>8, <1>9, <2>1, <2>2 DEF FreeRxBuffer
<1>10. CASE FreeAppBuffer(p)
  <2>1. ~Mapping(p) /\ ~Mapping(p)' /\ Active(p)'
    BY <1>10 DEF FreeAppBuffer, Mapping, Active, TypeOK
  <2>2. <<p, App>> \in Buffers
    BY DEF Buffers, Purposes
  <2> QED
    BY <1>8, <1>10, <2>1, <2>2 DEF FreeAppBuffer
<1>11. CASE Release(p)
  <2>1. ubuff' = <<>> /\ has'[p].bufs = {} /\ ~Mapping(p)'
    BY <1>11 DEF Release, Nothing, Goto, At, Mapping, TypeOK
  <2>2. Range(ubuff') = {} /\ OnePerOwner(ubuff')
    BY <2>1, OnePerOwnerEmpty DEF Range
  <2>3. memory' = {}
    <3>1. memory' = memory \ {ubuff[i].mem : i \in DOMAIN ubuff}
      BY <1>11 DEF Release
    <3> QED
      BY <1>2, <3>1 DEF Range
  <2> QED
    BY <1>1, <2>1, <2>2, <2>3, BufsOfActor
<1>12. CASE Open(p)
  BY <1>12, BufsStay DEF Open, Goto, At, Mapping, Active, kernel, TypeOK
<1>13. CASE MapTxDesc(p)
  BY <1>13, BufsStay DEF MapTxDesc, Goto, At, Mapping, Active, TypeOK
<1>14. CASE MapRxDesc(p)
  BY <1>14, BufsStay DEF MapRxDesc, Goto, At, Mapping, Active, TypeOK
<1>15. CASE MapTxFails(p) \/ MapRxFails(p)
  BY <1>15, BufsStay, SMTT(30) DEF MapTxFails, MapRxFails, Free, At, Mapping, Active, kernel, TypeOK
<1>16. CASE StartDma(p) \/ StopDma(p)
  BY <1>16, BufsStay DEF StartDma, StopDma, Mapping, Active, kernel
<1>17. CASE Detach(p)
  BY <1>17, BufsStay DEF Detach, Free, At, Mapping, Active, kernel, TypeOK
<1>18. CASE UnmapTxDesc(p)
  <2>1. ~Mapping(p) /\ ~Mapping(p)' /\ Active(p)'
    BY <1>18 DEF UnmapTxDesc, NextQueue, Mapping, Active, Goto, Free, At, TypeOK
  <2>2. has'[p].bufs = has[p].bufs /\ UNCHANGED <<ubuff, memory>>
    BY <1>18 DEF UnmapTxDesc, TypeOK
  <2> QED
    BY <2>1, <2>2, BufsStay
<1>19. CASE UnmapRxDesc(p)
  <2>1. ~Mapping(p) /\ ~Mapping(p)' /\ Active(p)'
    BY <1>19 DEF UnmapRxDesc, Mapping, Active, TypeOK
  <2>2. has'[p].bufs = has[p].bufs /\ UNCHANGED <<ubuff, memory>>
    BY <1>19 DEF UnmapRxDesc, TypeOK
  <2> QED
    BY <2>1, <2>2, BufsStay
<1> QED
  BY <1>5, <1>6, <1>7, <1>9, <1>10, <1>11, <1>12, <1>13, <1>14, <1>15, <1>16, <1>17, <1>18, <1>19
  DEF Step, Attach, Work, LetGo, Close, Crash

-----------------------------------------------------------------------------
(* How far detach, or the undoing of an attach, has come.                   *)

TxGiven(n) == \A x \in Queues : x < n => x \notin tx_avb_queue
RxGiven(p, n) == \A x \in Queues : x < n => x \notin has[p].rx /\ <<p, x>> \notin has[p].bufs

Giving ==
    \A p \in Procs :
        LET at   == pc[p].at
            q    == pc[p].q
            todo == pc[p].todo
        IN  /\ at = "free_buffer" => todo[1] = "rx" /\ q \notin has[p].rx
            /\ at \in {"free", "free_buffer"} =>
                  /\ todo \in Todos \ {<<>>}
                  /\ todo[1] = "tx" => TxGiven(q)
                  /\ todo[1] = "rx" => RxGiven(p, q)
                  /\ todo = <<"tx">> => RxGiven(p, QUEUE_CNT)
                  /\ todo = <<"rx">> => TxGiven(QUEUE_CNT)
            /\ at = "close" => TxGiven(QUEUE_CNT) /\ RxGiven(p, QUEUE_CNT)

GivingPlaces == {"free", "free_buffer", "close"}

LEMMA TodoCases ==
    /\ \A todo \in Todos \ {<<>>} :
          todo[1] \in {"tx", "rx"}
    /\ \A todo \in Todos \ {<<>>} : Len(todo) > 1 =>
          (todo[1] = "tx" /\ Tail(todo) = <<"rx">>) \/ (todo[1] = "rx" /\ Tail(todo) = <<"tx">>)
    /\ \A todo \in Todos \ {<<>>} : ~(Len(todo) > 1) =>
          todo = <<"tx">> \/ todo = <<"rx">>
    /\ <<"tx">>[1] = "tx" /\ <<"rx">>[1] = "rx" /\ "tx" # "rx"
    /\ <<"tx", "rx">>[1] = "tx" /\ <<"rx", "tx">>[1] = "rx"
    /\ <<"tx", "rx">> # <<"tx">> /\ <<"tx", "rx">> # <<"rx">>
    /\ <<"rx", "tx">> # <<"tx">> /\ <<"rx", "tx">> # <<"rx">> /\ <<"tx">> # <<"rx">>
<1>1. /\ <<"tx">>[1] = "tx" /\ <<"rx">>[1] = "rx" /\ "tx" # "rx"
      /\ <<"tx", "rx">>[1] = "tx" /\ <<"rx", "tx">>[1] = "rx"
  OBVIOUS
<1>2. /\ Len(<<"tx">>) = 1 /\ Len(<<"rx">>) = 1
      /\ Len(<<"tx", "rx">>) = 2 /\ Len(<<"rx", "tx">>) = 2
      /\ Tail(<<"rx", "tx">>) = <<"tx">> /\ Tail(<<"tx", "rx">>) = <<"rx">>
  OBVIOUS
<1>3. /\ <<"tx", "rx">> # <<"tx">> /\ <<"tx", "rx">> # <<"rx">>
      /\ <<"rx", "tx">> # <<"tx">> /\ <<"rx", "tx">> # <<"rx">>
  OBVIOUS
<1>4. \A todo \in Todos \ {<<>>} :
         todo = <<"tx">> \/ todo = <<"rx">> \/ todo = <<"rx", "tx">> \/ todo = <<"tx", "rx">>
  BY DEF Todos
<1>5. <<"tx">> # <<"rx">>
  OBVIOUS
<1>6. \A todo \in Todos \ {<<>>} : todo[1] \in {"tx", "rx"}
  BY <1>1, <1>4
<1>7. ASSUME NEW todo \in Todos \ {<<>>}, Len(todo) > 1
      PROVE  (todo[1] = "tx" /\ Tail(todo) = <<"rx">>) \/ (todo[1] = "rx" /\ Tail(todo) = <<"tx">>)
  <2>1. todo = <<"rx", "tx">> \/ todo = <<"tx", "rx">>
    <3>1. ~(1 > 1)
      OBVIOUS
    <3>2. ~(Len(<<"tx">>) > 1) /\ ~(Len(<<"rx">>) > 1)
      BY <1>2, <3>1, Zenon
    <3>3. todo # <<"tx">> /\ todo # <<"rx">>
      BY <1>7, <3>2, Zenon
    <3> QED
      BY <1>4, <1>7, <3>3, Zenon
  <2> QED
    BY <1>1, <1>2, <2>1
<1>8. ASSUME NEW todo \in Todos \ {<<>>}, ~(Len(todo) > 1)
      PROVE  todo = <<"tx">> \/ todo = <<"rx">>
  BY <1>2, <1>4, <1>8
<1> QED
  BY <1>1, <1>3, <1>5, <1>6, <1>7, <1>8

\* A turn of the loop that empties queue q, and what follows it.
LEMMA GivingTurn ==
    ASSUME TypeOK, Giving, NEW p \in Procs, pc[p].at \in {"free", "free_buffer"},
           NEW q \in Queues, q = pc[p].q, NextQueue(p),
           \A r \in Procs \ {p} : pc'[r] = pc[r] /\ pc'[r].at \notin GivingPlaces,
           tx_avb_queue' \subseteq tx_avb_queue,
           has'[p].rx \subseteq has[p].rx, has'[p].bufs \subseteq has[p].bufs,
           pc[p].todo[1] = "tx" => q \notin tx_avb_queue',
           pc[p].todo[1] = "rx" => q \notin has'[p].rx /\ <<p, q>> \notin has'[p].bufs
    PROVE  Giving'
<1> DEFINE todo == pc[p].todo
<1>1. /\ QUEUE_CNT \in Nat /\ 0 < QUEUE_CNT
      /\ \A x \in Queues : x \in Nat /\ x < QUEUE_CNT /\ ~(x < 0)
  BY FileAssumption DEF Queues
<1>2. /\ todo \in Todos \ {<<>>}
      /\ todo[1] = "tx" => TxGiven(q)
      /\ todo[1] = "rx" => RxGiven(p, q)
      /\ todo = <<"tx">> => RxGiven(p, QUEUE_CNT)
      /\ todo = <<"rx">> => TxGiven(QUEUE_CNT)
  BY DEF Giving
<1>3. /\ todo[1] = "tx" => TxGiven(q + 1)'
      /\ todo[1] = "rx" => RxGiven(p, q + 1)'
  <2>1. \A x \in Queues : x < q + 1 => x < q \/ x = q
    BY <1>1
  <2> QED
    BY <1>2, <2>1 DEF TxGiven, RxGiven
<1>4. /\ todo = <<"tx">> => RxGiven(p, QUEUE_CNT)'
      /\ todo = <<"rx">> => TxGiven(QUEUE_CNT)'
  BY <1>2 DEF TxGiven, RxGiven
<1>5. CASE q + 1 < QUEUE_CNT
  <2>1. pc'[p] = At("free", q + 1, todo)
    BY <1>5 DEF NextQueue, TypeOK
  <2>2. pc'[p].at = "free" /\ pc'[p].q = q + 1 /\ pc'[p].todo = todo
    BY <2>1 DEF At
  <2> HIDE DEF todo
  <2> QED
    BY <1>2, <1>3, <1>4, <2>2 DEF Giving, GivingPlaces
<1>6. CASE ~(q + 1 < QUEUE_CNT)
  <2>1. /\ todo[1] = "tx" => TxGiven(QUEUE_CNT)'
        /\ todo[1] = "rx" => RxGiven(p, QUEUE_CNT)'
    <3>1. \A x \in Queues : x < q + 1
      BY <1>1, <1>6 DEF Queues
    <3> QED
      BY <1>3, <3>1 DEF TxGiven, RxGiven
  <2>2. CASE Len(todo) > 1
    <3>1. pc'[p] = At("free", 0, Tail(todo))
      BY <1>6, <2>2 DEF NextQueue, Free, TypeOK
    <3>2. pc'[p].at = "free" /\ pc'[p].q = 0 /\ pc'[p].todo = Tail(todo)
      BY <3>1 DEF At
    <3>3. TxGiven(0)' /\ RxGiven(p, 0)'
      BY <1>1 DEF TxGiven, RxGiven
    <3>4. \/ todo[1] = "tx" /\ Tail(todo) = <<"rx">>
          \/ todo[1] = "rx" /\ Tail(todo) = <<"tx">>
      BY <1>2, <2>2, TodoCases
    <3>5. Tail(todo) \in Todos \ {<<>>}
      BY <3>4, SMTT(30) DEF Todos
    <3> HIDE DEF todo
    <3>6. CASE todo[1] = "tx" /\ Tail(todo) = <<"rx">>
      <4>1. /\ pc'[p].todo = <<"rx">> /\ pc'[p].todo # <<"tx">>
            /\ pc'[p].todo[1] = "rx" /\ pc'[p].todo[1] # "tx"
        BY <3>2, <3>6, TodoCases
      <4>2. TxGiven(QUEUE_CNT)'
        BY <2>1, <3>6
      <4> QED
        BY <3>2, <3>3, <3>5, <4>1, <4>2 DEF Giving, GivingPlaces
    <3>7. CASE todo[1] = "rx" /\ Tail(todo) = <<"tx">>
      <4>1. /\ pc'[p].todo = <<"tx">> /\ pc'[p].todo # <<"rx">>
            /\ pc'[p].todo[1] = "tx" /\ pc'[p].todo[1] # "rx"
        BY <3>2, <3>7, TodoCases
      <4>2. RxGiven(p, QUEUE_CNT)'
        BY <2>1, <3>7
      <4> QED
        BY <3>2, <3>3, <3>5, <4>1, <4>2 DEF Giving, GivingPlaces
    <3> QED
      BY <3>4, <3>6, <3>7
  <2>3. CASE ~(Len(todo) > 1)
    <3>1. pc'[p].at = "close"
      BY <1>6, <2>3 DEF NextQueue, Goto, At, TypeOK
    <3>2. TxGiven(QUEUE_CNT)' /\ RxGiven(p, QUEUE_CNT)'
      BY <1>2, <1>4, <2>1, <2>3, TodoCases
    <3> QED
      BY <3>1, <3>2 DEF Giving, GivingPlaces
  <2> QED
    BY <2>2, <2>3
<1> QED
  BY <1>5, <1>6

LEMMA GivingStep ==
    ASSUME "one_user" \in Rules, TypeOK, OneUser, DescsAgree, BufsAgree, Progress, Giving,
           NEW p \in Procs, Step(p)
    PROVE  Giving'
<1>1. \A r \in Procs \ {p} : pc'[r] = pc[r] /\ pc'[r].at \notin GivingPlaces
  BY OnlyActor, OneUserStep DEF Active, GivingPlaces
<1>2. /\ pc[p].q \in Queues /\ pc[p].todo \in Todos
      /\ QUEUE_CNT \in Nat /\ \A x \in Queues : x \in Nat /\ ~(x < 0)
  BY FileAssumption DEF TypeOK, Queues
<1>3. TxGiven(0)' /\ RxGiven(p, 0)'
  BY <1>2 DEF TxGiven, RxGiven
<1>4. ASSUME pc'[p].at \notin GivingPlaces
      PROVE  Giving'
  BY <1>1, <1>4 DEF Giving, GivingPlaces
<1>5. CASE Open(p) \/ MapTxDesc(p) \/ MapRxDesc(p) \/ MapBuf(p) \/ MapBufDone(p) \/ Release(p)
  <2>1. pc'[p].at \notin GivingPlaces
    BY <1>5 DEF Open, MapTxDesc, MapRxDesc, MapBuf, MapBufDone, AfterBuffer, Release, Goto, At,
       Mapping, GivingPlaces, TypeOK
  <2> QED
    BY <1>4, <2>1
<1>6. CASE StartDma(p) \/ StopDma(p) \/ FreeAppBuffer(p)
  <2>1. pc'[p].at \notin GivingPlaces
    BY <1>6 DEF StartDma, StopDma, FreeAppBuffer, GivingPlaces
  <2> QED
    BY <1>4, <2>1
<1>7. CASE MapTxFails(p)
  <2>1. pc'[p].at = "free" /\ pc'[p].q = 0 /\ pc'[p].todo = <<"tx">>
    BY <1>7 DEF MapTxFails, Free, At, TypeOK
  <2>2. RxGiven(p, QUEUE_CNT)'
    <3>1. has' = has /\ has[p].rx = {} /\ has[p].bufs = {}
      BY <1>7 DEF MapTxFails, Progress
    <3> QED
      BY <3>1 DEF RxGiven
  <2>3. <<"tx">> \in Todos \ {<<>>} /\ <<"tx">> # <<"rx">>
    BY DEF Todos
  <2> QED
    BY <1>1, <1>3, <2>1, <2>2, <2>3, TodoCases DEF Giving, GivingPlaces
<1>8. CASE MapRxFails(p) \/ MapBufFails(p) \/ Detach(p)
  <2>1. CASE pc'[p].at = "end"
    BY <1>4, <2>1 DEF GivingPlaces
  <2>2. CASE pc'[p].at # "end"
    <3>1. /\ pc'[p].at = "free" /\ pc'[p].q = 0
          /\ pc'[p].todo = <<"rx", "tx">> \/ pc'[p].todo = <<"tx", "rx">>
      BY <1>8, <2>2 DEF MapRxFails, MapBufFails, Detach, Goto, Free, At, TypeOK
    <3>2. <<"rx", "tx">> \in Todos \ {<<>>} /\ <<"tx", "rx">> \in Todos \ {<<>>}
      BY DEF Todos
    <3> QED
      BY <1>1, <1>3, <3>1, <3>2, TodoCases DEF Giving, GivingPlaces
  <2> QED
    BY <2>1, <2>2
<1>9. CASE UnmapTxDesc(p)
  <2>1. /\ pc[p].at = "free" /\ pc[p].todo[1] = "tx" /\ NextQueue(p)
        /\ tx_avb_queue' = tx_avb_queue \ {pc[p].q}
        /\ has'[p].rx = has[p].rx /\ has'[p].bufs = has[p].bufs
    BY <1>9 DEF UnmapTxDesc, TypeOK
  <2>2. "tx" # "rx"
    BY TodoCases
  <2> QED
    BY <1>1, <1>2, <2>1, <2>2, GivingTurn
<1>10. CASE UnmapRxDesc(p)
  <2>1. /\ pc[p].at = "free" /\ pc[p].todo[1] = "rx"
        /\ pc'[p].at = "free_buffer" /\ pc'[p].q = pc[p].q /\ pc'[p].todo = pc[p].todo
        /\ tx_avb_queue' = tx_avb_queue
        /\ has'[p].rx = has[p].rx \ {pc[p].q} /\ has'[p].bufs = has[p].bufs
    BY <1>10 DEF UnmapRxDesc, TypeOK
  <2>2. /\ pc[p].todo \in Todos \ {<<>>} /\ RxGiven(p, pc[p].q)
        /\ pc[p].todo # <<"tx">>
        /\ pc[p].todo = <<"rx">> => TxGiven(QUEUE_CNT)
    BY <2>1, TodoCases DEF Giving
  <2>3. RxGiven(p, pc[p].q)' /\ (pc[p].todo = <<"rx">> => TxGiven(QUEUE_CNT)')
    BY <2>1, <2>2 DEF RxGiven, TxGiven
  <2> QED
    BY <1>1, <2>1, <2>2, <2>3, TodoCases DEF Giving, GivingPlaces
<1>11. CASE FreeRxBuffer(p)
  <2>1. /\ pc[p].at = "free_buffer" /\ NextQueue(p)
        /\ tx_avb_queue' = tx_avb_queue
        /\ has'[p].rx = has[p].rx /\ has'[p].bufs = has[p].bufs \ {<<p, pc[p].q>>}
    BY <1>11 DEF FreeRxBuffer, UnmapBuf, TypeOK
  <2>2. pc[p].todo[1] = "rx" /\ pc[p].q \notin has[p].rx /\ "tx" # "rx"
    BY <2>1, TodoCases DEF Giving
  <2> QED
    BY <1>1, <1>2, <2>1, <2>2, GivingTurn
<1> QED
  BY <1>5, <1>6, <1>7, <1>8, <1>9, <1>10, <1>11 DEF Step, Attach, Work, LetGo, Close, Crash

-----------------------------------------------------------------------------
(* The theorems.                                                            *)

FileInv == TypeOK /\ OneUser /\ DescsAgree /\ BufsAgree /\ Progress /\ Giving

LEMMA FileInvInit == Init => FileInv
<1> SUFFICES ASSUME Init PROVE FileInv
  OBVIOUS
<1>1. \A p \in Procs : pc[p].at = "closed" /\ has[p] = Nothing
  BY DEF Init, At
<1>2. OneUser /\ Progress /\ Giving
  BY <1>1 DEF OneUser, Progress, Giving, Active
<1>3. DescsAgree
  BY <1>1 DEF Init, DescsAgree, Active, Nothing
<1>4. Range(ubuff) = {} /\ OnePerOwner(ubuff) /\ memory = {}
  BY OnePerOwnerEmpty DEF Init, Range
<1>5. BufsAgree
  BY <1>1, <1>4 DEF BufsAgree, Mapping, Nothing
<1> QED
  BY <1>2, <1>3, <1>5, TypeInit DEF FileInv

LEMMA FileInvStep ==
    ASSUME "one_user" \in Rules, FileInv, [Next]_vars
    PROVE  FileInv'
<1>1. CASE Next
  <2>1. PICK p \in Procs : Step(p)
    BY <1>1, NextStep
  <2> QED
    BY <2>1, TypeStep, OneUserStep, DescsStep, BufsStep, ProgressStep, GivingStep
    DEF FileInv
<1>2. CASE UNCHANGED vars
  <2>1. Giving'
    BY <1>2 DEF vars, kernel, FileInv, Giving, TxGiven, RxGiven
  <2> QED
    BY <1>2, <2>1 DEF vars, kernel, FileInv, TypeOK, OneUser, DescsAgree, BufsAgree, Progress,
       Active, Mapping, Purpose
<1> QED
  BY <1>1, <1>2

THEOREM FileInvariant ==
    ASSUME "one_user" \in Rules
    PROVE  Spec => []FileInv
<1>1. Init => FileInv
  BY FileInvInit
<1>2. FileInv /\ [Next]_vars => FileInv'
  BY FileInvStep
<1> QED
  BY <1>1, <1>2, PTL DEF Spec

\* What a process has mapped and works with is allocated, and for it, however
\* many queues there are, whoever died and whatever was refused: avb.c maps and
\* unmaps without asking who owns a queue, so this rests on rule one_user.
THEOREM FileMemoryKept ==
    ASSUME "one_user" \in Rules
    PROVE  Spec => []MemoryKept
<1>1. FileInv => MemoryKept
  <2> SUFFICES ASSUME FileInv PROVE HeldIsAllocated
    BY DEF FileInv, MemoryKept
  <2>1. \A p \in Procs : has[p].bufs \subseteq memory
    BY DEF FileInv, BufsAgree
  <2> QED
    BY <2>1 DEF FileInv, DescsAgree, HeldIsAllocated
<1> QED
  BY <1>1, FileInvariant, PTL

\* The bit sets tell which descriptors are allocated, each buffer has one entry
\* on the list, and no buffer outlives the last close (DWC_ETH_QOS_release_file).
THEOREM FileNothingLost ==
    ASSUME "one_user" \in Rules
    PROVE  Spec => []NothingLost
<1>1. FileInv => NothingLost
  <2> SUFFICES ASSUME FileInv PROVE NothingLost
    OBVIOUS
  <2>1. /\ OnePerOwner(ubuff) /\ ubuff \in Seq(Entries) /\ DOMAIN ubuff = 1 .. Len(ubuff)
        /\ \A e \in Range(ubuff) : Active(e.owner[1]) /\ (e.mem = None \/ e.mem = e.owner)
        /\ memory = {e.mem : e \in Range(ubuff)} \ {None}
    BY DEF FileInv, BufsAgree, OnePerOwner
  <2>2. \A i \in DOMAIN ubuff : ubuff[i] \in Range(ubuff) /\ ubuff[i] \in Entries
    BY <2>1 DEF Range
  <2>3. ASSUME NEW b \in memory
        PROVE  \E i \in DOMAIN ubuff : /\ ubuff[i].mem = b
                                       /\ \A j \in DOMAIN ubuff : ubuff[j].mem = b => j = i
    <3>1. PICK i \in DOMAIN ubuff : ubuff[i].mem = b
      BY <2>1, <2>3 DEF Range
    <3>2. b # None
      BY <2>1, <2>3
    <3>3. \A j \in DOMAIN ubuff : ubuff[j].mem = b => ubuff[j].owner = b
      BY <2>1, <2>2, <3>2
    <3>4. \A j \in DOMAIN ubuff : ubuff[j].mem = b => j = i
      BY <2>1, <3>1, <3>3 DEF OnePerOwner
    <3> QED
      BY <3>1, <3>4
  <2>4. ASSUME \A p \in Procs : pc[p].at = "closed"
        PROVE  memory = {} /\ ubuff = <<>>
    <3>3. \A i \in DOMAIN ubuff : FALSE
      <4>1. \A i \in DOMAIN ubuff : ubuff[i].owner[1] \in Procs
        BY <2>2 DEF Entries, Buffers
      <4> QED
        BY <2>1, <2>2, <2>4, <4>1 DEF Active
    <3>4. Len(ubuff) = 0
      <4>1. 1 \notin 1 .. Len(ubuff) /\ Len(ubuff) \in Nat
        BY <2>1, <3>3
      <4> QED
        BY <4>1
    <3>5. Range(ubuff) = {}
      BY <3>3 DEF Range
    <3> QED
      BY <2>1, <3>4, <3>5
  <2> QED
    BY <2>3, <2>4 DEF FileInv, DescsAgree, NothingLost
<1> QED
  BY <1>1, FileInvariant, PTL

\* Whoever died and whatever was refused: when a process that detached or was
\* refused closes its file, no transmit descriptors are left, and of its own
\* nothing but the buffer of the application (umod drv.c:889, 259, 325).
THEOREM FileGivenBack ==
    ASSUME "one_user" \in Rules
    PROVE  Spec => []GivenBack
<1>1. FileInv => GivenBack
  <2> SUFFICES ASSUME FileInv, NEW p \in Procs, pc[p].at = "close"
               PROVE  tx_avb_queue = {} /\ has[p].rx = {} /\ memory \subseteq {<<p, App>>}
    BY DEF GivenBack
  <2>1. /\ TxGiven(QUEUE_CNT) /\ RxGiven(p, QUEUE_CNT)
        /\ QUEUE_CNT \in Nat /\ \A x \in Queues : x < QUEUE_CNT
    BY FileAssumption DEF FileInv, Giving, Queues
  <2>2. tx_avb_queue = {} /\ has[p].rx = {}
    BY <2>1 DEF FileInv, TypeOK, TxGiven, RxGiven
  <2>3. \A r \in Procs : Active(r) => r = p
    BY DEF FileInv, OneUser, Active
  <2>4. \A b \in memory : b \in Buffers /\ b[1] = p
    <3> SUFFICES ASSUME NEW b \in memory
                 PROVE  b \in Buffers /\ b[1] = p
      OBVIOUS
    <3>1. b # None /\ b \in Buffers /\ \E e \in Range(ubuff) : e.mem = b
      BY DEF FileInv, BufsAgree, TypeOK
    <3>2. Active(b[1])
      BY <3>1 DEF FileInv, BufsAgree
    <3> QED
      BY <2>3, <3>1, <3>2 DEF Buffers
  <2>5. \A b \in memory : b = <<p, App>>
    <3> SUFFICES ASSUME NEW b \in memory
                 PROVE  b = <<p, App>>
      OBVIOUS
    <3>1. b \in has[p].bufs
      BY <2>4 DEF FileInv, BufsAgree
    <3>2. PICK x \in Purposes : b = <<p, x>>
      BY <2>4 DEF Buffers
    <3>3. x \notin Queues
      BY <2>1, <3>1, <3>2 DEF RxGiven
    <3> QED
      BY <3>2, <3>3 DEF Purposes
  <2> QED
    BY <2>2, <2>5
<1> QED
  BY <1>1, FileInvariant, PTL

=============================================================================
