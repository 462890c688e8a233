-------------------------- MODULE CircleQueueProofs --------------------------
(***************************************************************************)
(* Proofs about CircleQueue, for every number of pool threads, every ring  *)
(* size and chunk size the assumption admits, and every traffic.  What is  *)
(* said of the slots needs at most two producers, which is what a worker   *)
(* has: WorkerProcess::start sets two I/O threads.                         *)
(***************************************************************************)
EXTENDS CircleQueue, TLAPS

(* The inductive invariant, in named parts. *)

WholeChunks == \E m \in Nat : writeId = m * TrySize

\* Each producer owns at most one chunk, below writeId; the chunks are disjoint.
ChunkInv ==
  /\ writeId % 2 = 0
  /\ WholeChunks
  /\ \A p \in Producers :
       /\ ~Active(p) => chunkStart[p] = 0 /\ curWriteId[p] = 0
       /\ Active(p) => /\ writableId[p] = chunkStart[p] + TrySize
                       /\ chunkStart[p] <= curWriteId[p]
                       /\ curWriteId[p] <= writableId[p]
                       /\ writableId[p] <= writeId
       /\ pcP[p] = "store" => Filling(p)
  /\ \A p, q \in Producers : p # q /\ Active(p) /\ Active(q) =>
       writableId[p] <= chunkStart[q] \/ writableId[q] <= chunkStart[p]

\* The first lap is handed out to somebody, the rest only to producers that had
\* nothing yet; with two producers the ring never wraps.
LapInv ==
  /\ writeId <= Size
  /\ writeId # 0 => \E p \in Producers : Active(p)
  /\ writeId = Size => \E p, q \in Producers : p # q /\ Active(p) /\ Active(q)

\* What is published, or held by a pool thread, is whole, lies below writeId, and
\* nobody is still filling it.
PublishedInv ==
  /\ \A ch \in readable_queue :
       /\ ch[2] = ch[1] + TrySize /\ ch[2] <= writeId
       /\ \A p \in Producers : Active(p) =>
            \/ ch[2] <= chunkStart[p]
            \/ writableId[p] <= ch[1]
            \/ ch = <<chunkStart[p], writableId[p]>> /\ ~Filling(p)
       /\ \A d \in readable_queue : ch # d => ch[2] <= d[1] \/ d[2] <= ch[1]
  /\ \A c \in Consumers : pcC[c] \in {"notify", "read"} =>
       /\ readId[c] < readableId[c] /\ readableId[c] <= writeId
       /\ \A p \in Producers : Filling(p) =>
            readableId[c] <= chunkStart[p] \/ writableId[p] <= readId[c]

\* Every index below writeId has its task in its slot, or is still to be stored.
SlotInv ==
  \A i \in 0..(writeId - 1) :
    circle_array[i] = i \/ \E p \in Producers : curWriteId[p] <= i /\ i < writableId[p]

StuckIndex(i) == \E p \in Producers : InChunk(i, p) /\ Stuck(p)
IsPublished(i) == \E ch \in readable_queue : ch[1] <= i /\ i < ch[2]
IsHeld(i) == \E c \in Consumers : Holds(c, i)

\* Outside the chunks of refused producers, an index is in one place only: its
\* producer's chunk, the published set, one thread's hands, or done.
OnceInv ==
  /\ executed \subseteq 0..(writeId - 1)
  /\ \A p \in Producers : \A i \in Nat : InChunk(i, p) /\ ~Stuck(p) =>
       i \notin executed /\ ~IsPublished(i) /\ ~IsHeld(i)
  /\ \A i \in Nat : IsPublished(i) /\ ~StuckIndex(i) => i \notin executed /\ ~IsHeld(i)
  /\ \A c \in Consumers : \A i \in Nat : Holds(c, i) /\ ~StuckIndex(i) =>
       i \notin executed /\ \A d \in Consumers \ {c} : ~Holds(d, i)

IInv ==
  /\ TypeOK /\ ChunkInv /\ LapInv /\ PublishedInv /\ SlotInv
  /\ OnceInv /\ EveryTaskAccounted /\ OnlyStuckChunkRepeats

-----------------------------------------------------------------------------
(* Arithmetic of the ring. *)

LEMMA TimesMonotone ==
  ASSUME NEW a \in Nat, NEW b \in Nat, NEW t \in Nat, a <= b
  PROVE  a * t <= b * t
<1> DEFINE d == b - a
<1>1. d \in Nat /\ b = a + d
  OBVIOUS
<1>2. d * t \in Nat /\ a * t \in Nat /\ b * t = a * t + d * t
  BY <1>1
<1> QED BY <1>2

\* Reservations are whole chunks: one that starts below Size ends at Size at most.
LEMMA Aligned ==
  ASSUME NEW m \in Nat, NEW k \in Nat, NEW t \in Nat, m * t < k * t
  PROVE  m * t + t <= k * t
<1>0. m * t \in Nat /\ k * t \in Nat
  OBVIOUS
<1>1. ~(k <= m)
  BY <1>0, TimesMonotone
<1>2. (m + 1) * t <= k * t
  BY <1>1, TimesMonotone
<1>3. (m + 1) * t = m * t + t
  OBVIOUS
<1> QED BY <1>2, <1>3

LEMMA SlotIdentity == ASSUME NEW i \in Nat, i < Size PROVE Slot(i) = i
  BY QueueAssumption DEF Slot

-----------------------------------------------------------------------------
(* Type correctness and wake-ups: any number of producers. *)

LEMMA Parameters == Size \in Nat /\ TrySize \in Nat /\ 0 < TrySize /\ TrySize < Size
  BY QueueAssumption

\* Where notify_one leaves the pool threads: only sleepers move, and they wake up.
LEMMA NotifyOneType ==
  ASSUME NEW pcs \in [Consumers -> {"take", "wait", "notify", "read"}], NotifyOne(pcs)
  PROVE  /\ pcC' \in [Consumers -> {"take", "wait", "notify", "read"}]
         /\ \A c \in Consumers : pcs[c] # "wait" => pcC'[c] = pcs[c]
         /\ \A c \in Consumers : pcs[c] = "wait" => pcC'[c] \in {"wait", "take"}
         /\ \E c \in Consumers : pcC'[c] # "wait"
  BY QueueAssumption DEF NotifyOne

LEMMA PublishedType ==
  ASSUME TypeOK, NEW p \in Producers
  PROVE  Published(p) \subseteq Nat \X Nat
  BY DEF TypeOK, Published

LEMMA SlotType == ASSUME NEW i \in Nat PROVE Slot(i) \in 0..(Size - 1)
  BY QueueAssumption DEF Slot

\* A producer that is granted [s, e) moves to it; one that is refused stays.
LEMMA AdoptGranted ==
  ASSUME NEW p \in Producers, NEW s \in Nat, NEW e \in Nat, Adopt(p, <<s, e>>)
  PROVE  /\ chunkStart' = [chunkStart EXCEPT ![p] = s]
         /\ curWriteId' = [curWriteId EXCEPT ![p] = s]
         /\ writableId' = [writableId EXCEPT ![p] = e]
<1>1. <<s, e>>[1] = s /\ <<s, e>>[2] = e /\ s # -1
  OBVIOUS
<1> QED BY <1>1 DEF Adopt, AdoptUnchecked

LEMMA AdoptRefused ==
  ASSUME NEW p \in Producers, Adopt(p, <<-1, -1>>)
  PROVE  UNCHANGED <<chunkStart, curWriteId, writableId>>
  BY DEF Adopt

\* Every step of the queue keeps its state well typed.
LEMMA TypeStep == TypeOK /\ [Next]_vars => TypeOK'
<1> SUFFICES ASSUME TypeOK, [Next]_vars PROVE TypeOK'
  OBVIOUS
<1>1. ASSUME NEW p \in Producers, WriteInChunk(p) PROVE TypeOK'
  <2>1. curWriteId[p] \in Nat /\ Slot(curWriteId[p]) \in 0..(Size - 1)
    BY SlotType DEF TypeOK
  <2>2. circle_array' \in [0..(Size - 1) -> Nat \cup {NoTask}]
    BY <1>1, <2>1 DEF TypeOK, WriteInChunk, Put
  <2>3. tasks' \in [Producers -> 0..MaxTasks]
    BY <1>1, QueueAssumption DEF TypeOK, WriteInChunk
  <2>4. curWriteId' \in [Producers -> Nat]
    BY <1>1, <2>1 DEF TypeOK, WriteInChunk, Put
  <2>5. UNCHANGED <<readable_queue, writeId, chunkStart, writableId, pcP, readId, readableId,
                    pcC, hung, executed, repeated>>
    BY <1>1 DEF WriteInChunk, consVars
  <2> QED BY <2>2, <2>3, <2>4, <2>5 DEF TypeOK
<1>2. ASSUME NEW p \in Producers, TryWriteSpace(p) PROVE TypeOK'
  <2>1. readable_queue' \subseteq Nat \X Nat
    BY <1>2, PublishedType DEF TryWriteSpace
  <2>2. tasks' \in [Producers -> 0..MaxTasks]
    BY <1>2, QueueAssumption DEF TypeOK, TryWriteSpace
  <2>3. /\ writeId' \in Nat
        /\ chunkStart' \in [Producers -> Nat]
        /\ curWriteId' \in [Producers -> Nat]
        /\ writableId' \in [Producers -> Nat]
    <3>1. CASE HasRoom(Published(p), writeId + TrySize)
      <4>1. writeId \in Nat /\ writeId + TrySize \in Nat
        BY Parameters DEF TypeOK
      <4>2. writeId' = writeId + TrySize /\ Adopt(p, <<writeId, writeId + TrySize>>)
        BY <1>2, <3>1 DEF TryWriteSpace
      <4>3. /\ chunkStart' = [chunkStart EXCEPT ![p] = writeId]
            /\ curWriteId' = [curWriteId EXCEPT ![p] = writeId]
            /\ writableId' = [writableId EXCEPT ![p] = writeId + TrySize]
        BY <4>1, <4>2, AdoptGranted
      <4> QED BY <4>1, <4>2, <4>3 DEF TypeOK
    <3>2. CASE ~HasRoom(Published(p), writeId + TrySize)
      BY <1>2, <3>2, AdoptRefused DEF TypeOK, TryWriteSpace
    <3> QED BY <3>1, <3>2
  <2> QED BY <1>2, <2>1, <2>2, <2>3 DEF TypeOK, TryWriteSpace, consVars
<1>3. ASSUME NEW p \in Producers, NotifyReader(p) PROVE TypeOK'
  BY <1>3, NotifyOneType DEF TypeOK, NotifyReader
<1>4. ASSUME NEW p \in Producers, Store(p) PROVE TypeOK'
  <2>1. curWriteId[p] \in Nat /\ Slot(curWriteId[p]) \in 0..(Size - 1)
    BY SlotType DEF TypeOK
  <2>2. circle_array' \in [0..(Size - 1) -> Nat \cup {NoTask}]
    BY <1>4, <2>1 DEF TypeOK, Store, Put
  <2> QED BY <1>4, <2>1, <2>2 DEF TypeOK, Store, Put, consVars
<1>5. ASSUME NEW c \in Consumers, TakeChunk(c) PROVE TypeOK'
  BY <1>5 DEF TypeOK, TakeChunk, prodVars
<1>6. ASSUME NEW c \in Consumers, NotifyPeer(c) PROVE TypeOK'
  <2>1. [pcC EXCEPT ![c] = "read"] \in [Consumers -> {"take", "wait", "notify", "read"}]
    BY DEF TypeOK
  <2> QED BY <1>6, <2>1, NotifyOneType DEF TypeOK, NotifyPeer, prodVars
<1>7. ASSUME NEW c \in Consumers, SpuriousWakeup(c) PROVE TypeOK'
  BY <1>7 DEF TypeOK, SpuriousWakeup, prodVars
<1>8. ASSUME NEW c \in Consumers, RunTask(c) PROVE TypeOK'
  <2>1. circle_array[Slot(readId[c])] \in Nat \cup {NoTask}
    BY SlotType DEF TypeOK
  <2>2. readId' \in [Consumers -> Nat]
    BY <1>8 DEF TypeOK, RunTask
  <2>3. pcC' \in [Consumers -> {"take", "wait", "notify", "read"}]
    BY <1>8 DEF TypeOK, RunTask
  <2>4. executed' \subseteq Nat \cup {NoTask} /\ repeated' \subseteq executed'
    BY <1>8, <2>1 DEF TypeOK, RunTask
  <2>5. hung' \subseteq Consumers
    BY <1>8 DEF TypeOK, RunTask
  <2> QED BY <1>8, <2>2, <2>3, <2>4, <2>5 DEF TypeOK, RunTask, prodVars
<1>9. CASE UNCHANGED vars
  BY <1>9 DEF TypeOK, vars, prodVars, consVars
<1> QED BY <1>1, <1>2, <1>3, <1>4, <1>5, <1>6, <1>7, <1>8, <1>9
        DEF Next, ProducerStep, ConsumerStep

\* The queue, its producers and its consumers stay well typed whatever the number of
\* threads, the ring and the traffic: in particular no producer ever adopts the
\* refusal (-1, -1) of tryWriteSpace as its chunk.
THEOREM TypeCorrect == Spec => []TypeOK
<1>1. Init => TypeOK
  BY QueueAssumption DEF Init, TypeOK, NoTask
<1> QED BY <1>1, TypeStep, PTL DEF Spec

\* A thread whose task never returns is between two reads, never asleep.
HungAwake == \A c \in hung : pcC[c] \in {"take", "read"}

\* A notify_one leaves nobody asleep, or the thread it wakes is on its way.
LEMMA NotifyOneWakes ==
  ASSUME NEW pcs \in [Consumers -> {"take", "wait", "notify", "read"}], NotifyOne(pcs)
  PROVE  \/ \A c \in Consumers : pcC'[c] # "wait"
         \/ \E c \in Consumers : pcs[c] = "wait" /\ pcC'[c] = "take"
  BY DEF NotifyOne

\* No step puts a thread to sleep whose task never returns.
LEMMA HungStep == TypeOK /\ HungAwake /\ [Next]_vars => HungAwake'
<1> SUFFICES ASSUME TypeOK, HungAwake, [Next]_vars PROVE HungAwake'
  OBVIOUS
<1>1. ASSUME NEW p \in Producers, NotifyReader(p) PROVE HungAwake'
  BY <1>1, NotifyOneType DEF HungAwake, NotifyReader, TypeOK
<1>2. ASSUME NEW p \in Producers, WriteInChunk(p) \/ TryWriteSpace(p) \/ Store(p)
      PROVE  HungAwake'
  BY <1>2 DEF HungAwake, WriteInChunk, TryWriteSpace, Store, consVars
<1>3. ASSUME NEW c \in Consumers, TakeChunk(c) PROVE HungAwake'
  BY <1>3 DEF HungAwake, TakeChunk, TypeOK
<1>4. ASSUME NEW c \in Consumers, NotifyPeer(c) PROVE HungAwake'
  <2>1. [pcC EXCEPT ![c] = "read"] \in [Consumers -> {"take", "wait", "notify", "read"}]
    BY DEF TypeOK
  <2>2. \A d \in hung : [pcC EXCEPT ![c] = "read"][d] \in {"take", "read"}
    BY DEF HungAwake, TypeOK
  <2> QED BY <1>4, <2>1, <2>2, NotifyOneType DEF HungAwake, NotifyPeer, TypeOK
<1>5. ASSUME NEW c \in Consumers, SpuriousWakeup(c) PROVE HungAwake'
  BY <1>5 DEF HungAwake, SpuriousWakeup, TypeOK
<1>6. ASSUME NEW c \in Consumers, RunTask(c) PROVE HungAwake'
  BY <1>6 DEF HungAwake, RunTask, TypeOK
<1>7. CASE UNCHANGED vars
  BY <1>7 DEF HungAwake, vars, consVars
<1> QED BY <1>1, <1>2, <1>3, <1>4, <1>5, <1>6, <1>7 DEF Next, ProducerStep, ConsumerStep

\* No notify_one of CircleQueue is lost, for any number of threads and whichever tasks
\* never return: while a chunk is published no pool thread sleeps, or another is on its
\* way to the chunk, or a notification is on its way.
THEOREM WakeupsKept == Spec => []NoLostWakeup
<1>1. Init => NoLostWakeup /\ HungAwake
  BY DEF Init, NoLostWakeup, HungAwake
<1>2. TypeOK /\ HungAwake /\ NoLostWakeup /\ [Next]_vars => NoLostWakeup'
  <2> SUFFICES ASSUME TypeOK, HungAwake, NoLostWakeup, [Next]_vars PROVE NoLostWakeup'
    OBVIOUS
  <2>1. ASSUME NEW p \in Producers, WriteInChunk(p) PROVE NoLostWakeup'
    BY <2>1 DEF NoLostWakeup, WriteInChunk, consVars
  <2>2. ASSUME NEW p \in Producers, TryWriteSpace(p) PROVE NoLostWakeup'
    BY <2>2 DEF NoLostWakeup, TryWriteSpace, TypeOK
  <2>3. ASSUME NEW p \in Producers, NotifyReader(p) PROVE NoLostWakeup'
    <3>1. \A c \in Consumers : pcC[c] = "wait" => c \notin hung'
      BY <2>3 DEF HungAwake, NotifyReader
    <3>2. pcC \in [Consumers -> {"take", "wait", "notify", "read"}] /\ NotifyOne(pcC)
      BY <2>3 DEF NotifyReader, TypeOK
    <3> QED BY <3>1, <3>2, NotifyOneWakes DEF NoLostWakeup
  <2>4. ASSUME NEW p \in Producers, Store(p) PROVE NoLostWakeup'
    BY <2>4 DEF NoLostWakeup, Store, consVars, TypeOK
  <2>5. ASSUME NEW c \in Consumers, TakeChunk(c) PROVE NoLostWakeup'
    BY <2>5 DEF NoLostWakeup, TakeChunk, prodVars, TypeOK
  <2>6. ASSUME NEW c \in Consumers, NotifyPeer(c) PROVE NoLostWakeup'
    <3>1. [pcC EXCEPT ![c] = "read"] \in [Consumers -> {"take", "wait", "notify", "read"}]
      BY DEF TypeOK
    <3>2. \A d \in Consumers : [pcC EXCEPT ![c] = "read"][d] = "wait" => d \notin hung'
      BY <2>6 DEF HungAwake, NotifyPeer, TypeOK
    <3>3. NotifyOne([pcC EXCEPT ![c] = "read"])
      BY <2>6 DEF NotifyPeer
    <3> QED BY <3>1, <3>2, <3>3, NotifyOneWakes DEF NoLostWakeup
  <2>7. ASSUME NEW c \in Consumers, SpuriousWakeup(c) PROVE NoLostWakeup'
    <3>1. c \in Consumers \ hung' /\ pcC'[c] = "take"
      BY <2>7 DEF HungAwake, SpuriousWakeup, TypeOK
    <3> QED BY <3>1 DEF NoLostWakeup
  <2>8. ASSUME NEW c \in Consumers, RunTask(c) PROVE NoLostWakeup'
    <3>1. /\ UNCHANGED <<readable_queue, pcP>> /\ pcC'[c] \in {"take", "read"}
          /\ \A d \in Consumers \ {c} : pcC'[d] = pcC[d] /\ (d \in hung' <=> d \in hung)
          /\ pcC[c] = "read"
      BY <2>8 DEF RunTask, TypeOK, prodVars
    <3>2. CASE \A d \in Consumers : pcC[d] # "wait"
      <4>1. \A d \in Consumers : pcC'[d] # "wait"
        BY <3>1, <3>2
      <4> QED BY <4>1 DEF NoLostWakeup
    <3>3. ASSUME NEW d \in Consumers \ hung, pcC[d] \in {"take", "notify"}
          PROVE  NoLostWakeup'
      <4>1. d # c /\ d \in Consumers \ hung' /\ pcC'[d] \in {"take", "notify"}
        BY <3>1, <3>3
      <4> QED BY <4>1 DEF NoLostWakeup
    <3> QED BY <3>1, <3>2, <3>3 DEF NoLostWakeup
  <2>9. CASE UNCHANGED vars
    BY <2>9 DEF NoLostWakeup, vars, prodVars, consVars
  <2> QED BY <2>1, <2>2, <2>3, <2>4, <2>5, <2>6, <2>7, <2>8, <2>9
          DEF Next, ProducerStep, ConsumerStep
<1> QED BY <1>1, <1>2, HungStep, TypeCorrect, PTL DEF Spec

-----------------------------------------------------------------------------
(* The slots: at most two producers. *)

\* The steps that only move threads between program counters.
LEMMA PcStepKeeps ==
  ASSUME IInv, TypeOK',
         UNCHANGED <<readable_queue, writeId, circle_array, chunkStart, curWriteId,
                     writableId, readId, readableId, executed, repeated>>,
         \A p \in Producers : pcP'[p] = "store" => Filling(p),
         \A c \in Consumers : pcC'[c] \in {"notify", "read"} <=> pcC[c] \in {"notify", "read"}
  PROVE  IInv'
<1>1. \A i : /\ IsHeld(i)' <=> IsHeld(i)
             /\ IsPublished(i)' <=> IsPublished(i)
             /\ StuckIndex(i)' <=> StuckIndex(i)
             /\ \A c \in Consumers : Holds(c, i)' <=> Holds(c, i)
             /\ \A p \in Producers : InChunk(i, p)' <=> InChunk(i, p)
  BY DEF IsHeld, IsPublished, StuckIndex, Holds, InChunk, Stuck, Active, Filling, Exhausted
<1>2. Stored' = Stored /\ \A p \in Producers : Stuck(p)' <=> Stuck(p)
  BY DEF Stored, Stuck, Active, Filling, Exhausted
<1>3. ChunkInv' /\ LapInv' /\ SlotInv'
  BY DEF IInv, ChunkInv, WholeChunks, LapInv, SlotInv, Active, Filling
<1>4. PublishedInv'
  BY DEF IInv, PublishedInv, Active, Filling
<1>5. OnceInv'
  BY <1>1, <1>2 DEF IInv, OnceInv
<1>6. OnlyStuckChunkRepeats'
  BY <1>1, <1>2 DEF IInv, OnlyStuckChunkRepeats
<1>7. EveryTaskAccounted'
  BY <1>1, <1>2 DEF IInv, EveryTaskAccounted
<1> QED BY <1>3, <1>4, <1>5, <1>6, <1>7 DEF IInv

\* A store: the next index of a producer's own chunk, which nobody else can touch.
LEMMA PutKeeps ==
  ASSUME IInv, TypeOK', NEW p \in Producers, Filling(p), Put(p),
         UNCHANGED <<readable_queue, writeId, chunkStart, writableId, readId, readableId,
                     pcC, executed, repeated>>,
         \A q \in Producers : pcP'[q] = "store" => q # p /\ pcP[q] = "store"
  PROVE  IInv'
<1> DEFINE w == curWriteId[p]
<1>types. /\ TypeOK /\ ChunkInv /\ LapInv /\ writeId \in Nat
          /\ curWriteId \in [Producers -> Nat] /\ writableId \in [Producers -> Nat]
          /\ chunkStart \in [Producers -> Nat]
  BY DEF IInv, TypeOK
<1>0. /\ TypeOK /\ ChunkInv /\ LapInv
      /\ w \in Nat /\ Active(p) /\ w < writableId[p] /\ w < writeId /\ w < Size
  <2>1. w \in Nat /\ w < writableId[p] /\ Active(p)
    BY <1>types DEF Filling, Active
  <2>2. writableId[p] <= writeId /\ writeId <= Size
    BY <1>types, <2>1 DEF ChunkInv, LapInv
  <2> QED BY <1>types, <2>1, <2>2, Parameters
<1>1. /\ curWriteId'[p] = w + 1
      /\ \A q \in Producers \ {p} : curWriteId'[q] = curWriteId[q]
      /\ \A i \in 0..(Size - 1) : circle_array'[i] = IF i = w THEN w ELSE circle_array[i]
  BY <1>0, SlotIdentity DEF Put, TypeOK
<1>2. \A q \in Producers : /\ Active(q)' <=> Active(q)
                           /\ Filling(q)' => Filling(q)
                           /\ q # p => (Filling(q)' <=> Filling(q))
                           /\ Stuck(q) => Stuck(q)'
  BY <1>0, <1>1 DEF Active, Filling, Stuck, Exhausted, TypeOK
<1>3. \A i : /\ IsHeld(i)' <=> IsHeld(i)
             /\ IsPublished(i)' <=> IsPublished(i)
             /\ StuckIndex(i) => StuckIndex(i)'
             /\ \A c \in Consumers : Holds(c, i)' <=> Holds(c, i)
             /\ \A q \in Producers : InChunk(i, q)' <=> InChunk(i, q)
  BY <1>2 DEF IsHeld, IsPublished, StuckIndex, Holds, InChunk
<1>4. ChunkInv'
  <2>1. \A q \in Producers : pcP'[q] = "store" => Filling(q)'
    BY <1>0, <1>2 DEF ChunkInv
  <2>2. \A q \in Producers : Active(q) =>
          chunkStart[q] <= curWriteId'[q] /\ curWriteId'[q] <= writableId[q]
    BY <1>0, <1>1, <1>types DEF ChunkInv
  <2>3. \A q \in Producers : ~Active(q) => curWriteId'[q] = 0
    BY <1>0, <1>1 DEF ChunkInv
  <2>4. WholeChunks'
    BY <1>0 DEF ChunkInv, WholeChunks
  <2> QED BY <1>0, <1>2, <2>1, <2>2, <2>3, <2>4 DEF ChunkInv
<1>5. LapInv'
  BY <1>0, <1>2 DEF LapInv
<1>6. PublishedInv'
  BY <1>0, <1>2 DEF IInv, PublishedInv
<1>7. SlotInv'
  <2> SUFFICES ASSUME NEW i \in 0..(writeId - 1), circle_array'[i] # i
               PROVE  \E q \in Producers : curWriteId'[q] <= i /\ i < writableId[q]
    BY DEF SlotInv
  <2>1. i \in 0..(Size - 1) /\ i # w /\ circle_array[i] # i
    BY <1>0, <1>1, Parameters DEF LapInv, TypeOK
  <2>2. PICK q \in Producers : curWriteId[q] <= i /\ i < writableId[q]
    BY <2>1 DEF IInv, SlotInv
  <2>3. curWriteId'[q] <= i
    BY <1>types, <1>1, <2>1, <2>2
  <2> QED BY <2>2, <2>3
<1>8. OnceInv'
  BY <1>2, <1>3 DEF IInv, OnceInv
<1>9. OnlyStuckChunkRepeats'
  BY <1>3 DEF IInv, OnlyStuckChunkRepeats, StuckIndex
<1>10. EveryTaskAccounted'
  <2> SUFFICES ASSUME NEW i \in Stored', i \notin executed, ~IsPublished(i), ~IsHeld(i)
               PROVE  \E q \in Producers : InChunk(i, q)
    BY <1>3 DEF EveryTaskAccounted, IsPublished, IsHeld
  <2>1. CASE i = w
    BY <1>0, <2>1 DEF InChunk, ChunkInv
  <2>2. CASE i # w
    <3>1. i \in Stored
      <4>1. ASSUME NEW q \in Producers, curWriteId[q] <= i, i < writableId[q], i \in Nat
            PROVE  curWriteId'[q] <= i
        BY <1>types, <1>1, <2>2, <4>1
      <4> QED BY <4>1, <1>types DEF Stored
    <3> QED BY <3>1 DEF IInv, EveryTaskAccounted, IsPublished, IsHeld
  <2> QED BY <2>1, <2>2
<1> QED BY <1>4, <1>5, <1>6, <1>7, <1>8, <1>9, <1>10 DEF IInv

\* Why the ring does not wrap.  The third operand of the test in tryWriteSpace is
\* never true, because reservations start at even indices; so once the first lap is
\* used up only a producer with nothing to publish can be granted a chunk, and with
\* two producers that happens at most once more.
LEMMA RoomOnFirstLap ==
  ASSUME AtMostTwoProducers, IInv, NEW p \in Producers,
         HasRoom(Published(p), writeId + TrySize)
  PROVE  /\ writeId + TrySize <= Size
         /\ Active(p) => ~Exhausted
         /\ writeId + TrySize = Size => \E q \in Producers \ {p} : Active(q)
<1>1. /\ writeId \in Nat /\ writeId % 2 = 0 /\ TrySize % 2 = 0 /\ writeId <= Size
      /\ ChunkInv /\ LapInv
  BY QueueAssumption DEF IInv, TypeOK, ChunkInv, LapInv
<1>2. (writeId + TrySize) % 2 # 1
  BY <1>1, Parameters
<1>3. Published(p) = {} \/ writeId + TrySize < Size
  BY <1>2 DEF HasRoom
<1>4. CASE writeId + TrySize < Size
  BY <1>1, <1>4, Parameters DEF Exhausted
<1>5. CASE Published(p) = {} /\ ~(writeId + TrySize < Size)
  <2>1. ~Active(p)
    BY <1>5 DEF Published, Active
  <2>2. writeId # Size
    <3> SUFFICES ASSUME writeId = Size PROVE FALSE
      OBVIOUS
    <3>1. PICK q, r \in Producers : q # r /\ Active(q) /\ Active(r)
      BY <1>1 DEF LapInv
    <3>2. q # p /\ r # p
      BY <2>1, <3>1
    <3> QED BY <3>1, <3>2 DEF AtMostTwoProducers
  <2>3. writeId + TrySize <= Size
    <3>1. PICK m \in Nat : writeId = m * TrySize
      BY <1>1 DEF ChunkInv, WholeChunks
    <3>2. PICK k \in Nat : Size = k * TrySize
      BY QueueAssumption
    <3>3. m * TrySize < k * TrySize
      BY <1>1, <2>2, <3>1, <3>2, Parameters
    <3> QED BY <3>1, <3>2, <3>3, Aligned, Parameters
  <2>4. PICK q \in Producers : Active(q)
    BY <1>1, <1>5, Parameters DEF LapInv
  <2>5. q # p
    BY <2>1, <2>4
  <2> QED BY <2>1, <2>3, <2>4, <2>5
<1> QED BY <1>3, <1>4, <1>5

\* What a full producer inserts into readable_queue: its own chunk, which overlaps
\* nothing else that is published and nobody else's chunk.
LEMMA InsertKeepsPublished ==
  ASSUME IInv, NEW p \in Producers, Full(p), NEW ch \in Published(p)
  PROVE  /\ ch \in Nat \X Nat
         /\ ch[2] = ch[1] + TrySize /\ ch[2] <= writeId
         /\ \A q \in Producers : Active(q) =>
              \/ ch[2] <= chunkStart[q]
              \/ writableId[q] <= ch[1]
              \/ ch = <<chunkStart[q], writableId[q]>> /\ ~Filling(q)
         /\ \A d \in Published(p) : ch # d => ch[2] <= d[1] \/ d[2] <= ch[1]
<1> DEFINE own == <<chunkStart[p], writableId[p]>>
<1>1. /\ readable_queue \subseteq Nat \X Nat /\ ChunkInv /\ PublishedInv
      /\ chunkStart \in [Producers -> Nat] /\ writableId \in [Producers -> Nat]
      /\ curWriteId \in [Producers -> Nat]
  BY DEF IInv, TypeOK
<1>2. own[1] = chunkStart[p] /\ own[2] = writableId[p] /\ own \in Nat \X Nat
  BY <1>1
<1>3. ~Filling(p)
  BY <1>1 DEF Full, Filling
<1>4. ch \in readable_queue \/ (Active(p) /\ ch = own)
  BY DEF Published, Active
<1>5. \A d \in Published(p) : d \in readable_queue \/ (Active(p) /\ d = own)
  BY DEF Published, Active
<1>6. \A d \in readable_queue : Active(p) /\ d # own => d[2] <= own[1] \/ own[2] <= d[1]
  BY <1>1, <1>2 DEF PublishedInv
<1>7. CASE ch \in readable_queue
  <2>1. \A d \in Published(p) : ch # d => ch[2] <= d[1] \/ d[2] <= ch[1]
    BY <1>1, <1>5, <1>6, <1>7 DEF PublishedInv
  <2> QED BY <1>1, <1>7, <2>1 DEF PublishedInv
<1>8. CASE Active(p) /\ ch = own
  <2>1. \A d \in Published(p) : ch # d => ch[2] <= d[1] \/ d[2] <= ch[1]
    BY <1>5, <1>6, <1>8
  <2>2. own[2] = own[1] + TrySize /\ own[2] <= writeId
    BY <1>1, <1>2, <1>8 DEF ChunkInv
  <2>3. \A q \in Producers \ {p} : Active(q) =>
          own[2] <= chunkStart[q] \/ writableId[q] <= own[1]
    BY <1>1, <1>2, <1>8 DEF ChunkInv
  <2> QED BY <1>2, <1>3, <1>8, <2>1, <2>2, <2>3
<1> QED BY <1>4, <1>7, <1>8

\* An index is published after the insertion iff it was before or is in p's chunk.
LEMMA InsertedIndices ==
  ASSUME TypeOK, NEW p \in Producers, readable_queue' = Published(p), NEW i
  PROVE  IsPublished(i)' <=> IsPublished(i) \/ (Active(p) /\ InChunk(i, p))
<1> DEFINE own == <<chunkStart[p], writableId[p]>>
<1>1. own[1] = chunkStart[p] /\ own[2] = writableId[p]
  OBVIOUS
<1> QED BY <1>1 DEF IsPublished, Published, Active, InChunk

\* A refused call of tryWriteSpace has published the caller's last chunk (again).
LEMMA RefusedKeeps ==
  ASSUME IInv, TypeOK', NEW p \in Producers, Full(p),
         ~HasRoom(Published(p), writeId + TrySize), readable_queue' = Published(p),
         UNCHANGED <<writeId, circle_array, chunkStart, curWriteId, writableId,
                     readId, readableId, pcC, executed, repeated>>,
         \A q \in Producers : pcP'[q] = "store" => pcP[q] = "store"
  PROVE  IInv'
<1>1. /\ TypeOK /\ ChunkInv /\ LapInv /\ PublishedInv /\ OnceInv /\ writeId \in Nat
      /\ curWriteId \in [Producers -> Nat] /\ writableId \in [Producers -> Nat]
      /\ chunkStart \in [Producers -> Nat]
  BY DEF IInv, TypeOK
<1>2. Exhausted /\ (Active(p) => Stuck(p))
  BY <1>1, Parameters DEF HasRoom, Exhausted, Stuck, Full, Filling
<1>3. \A q \in Producers : /\ Active(q)' <=> Active(q)
                           /\ Filling(q)' <=> Filling(q)
                           /\ Stuck(q)' <=> Stuck(q)
  BY DEF Active, Filling, Stuck, Exhausted
<1>4. \A i : /\ IsHeld(i)' <=> IsHeld(i)
             /\ StuckIndex(i)' <=> StuckIndex(i)
             /\ \A c \in Consumers : Holds(c, i)' <=> Holds(c, i)
             /\ \A q \in Producers : InChunk(i, q)' <=> InChunk(i, q)
  BY <1>3 DEF IsHeld, StuckIndex, Holds, InChunk
<1>5. \A i : IsPublished(i)' => IsPublished(i) \/ (StuckIndex(i) /\ InChunk(i, p) /\ Active(p))
  BY <1>1, <1>2, InsertedIndices DEF StuckIndex
<1>6. \A i : IsPublished(i) => IsPublished(i)'
  BY <1>1, InsertedIndices
<1>7. Stored' = Stored
  BY DEF Stored
<1>8. ChunkInv'
  BY <1>1, <1>3 DEF ChunkInv, WholeChunks
<1>9. LapInv' /\ SlotInv'
  BY <1>3 DEF IInv, LapInv, SlotInv
<1>10. PublishedInv'
  <2>1. \A ch \in readable_queue' :
          /\ ch[2] = ch[1] + TrySize /\ ch[2] <= writeId
          /\ \A q \in Producers : Active(q) =>
               \/ ch[2] <= chunkStart[q]
               \/ writableId[q] <= ch[1]
               \/ ch = <<chunkStart[q], writableId[q]>> /\ ~Filling(q)
          /\ \A d \in readable_queue' : ch # d => ch[2] <= d[1] \/ d[2] <= ch[1]
    BY InsertKeepsPublished
  <2> QED BY <1>1, <1>3, <2>1 DEF PublishedInv
<1>11. OnceInv'
  <2>1. \A q \in Producers : \A i \in Nat : InChunk(i, q) /\ ~Stuck(q) => ~IsPublished(i)'
    <3> SUFFICES ASSUME NEW q \in Producers, NEW i \in Nat, InChunk(i, q), ~Stuck(q),
                        IsPublished(i)'
                 PROVE  FALSE
      OBVIOUS
    <3>1. ~IsPublished(i)
      BY <1>1 DEF OnceInv
    <3>2. InChunk(i, p) /\ Active(p) /\ Active(q) /\ q # p
      BY <1>1, <1>2, <1>5, <3>1 DEF InChunk, Active
    <3> QED BY <1>1, <3>2 DEF ChunkInv, InChunk
  <2>2. \A i \in Nat : IsPublished(i)' /\ ~StuckIndex(i) => i \notin executed /\ ~IsHeld(i)
    BY <1>1, <1>5 DEF OnceInv
  <2> QED BY <1>1, <1>3, <1>4, <2>1, <2>2 DEF OnceInv
<1>12. OnlyStuckChunkRepeats'
  BY <1>4 DEF IInv, OnlyStuckChunkRepeats, StuckIndex
<1>13. EveryTaskAccounted'
  BY <1>4, <1>6, <1>7 DEF IInv, EveryTaskAccounted, IsPublished, IsHeld
<1> QED BY <1>8, <1>9, <1>10, <1>11, <1>12, <1>13 DEF IInv

\* A granted call has published the caller's full chunk and moves it to a new one.
LEMMA GrantedKeeps ==
  ASSUME AtMostTwoProducers, IInv, TypeOK', NEW p \in Producers, Full(p),
         HasRoom(Published(p), writeId + TrySize), readable_queue' = Published(p),
         writeId' = writeId + TrySize, Adopt(p, <<writeId, writeId + TrySize>>),
         UNCHANGED <<circle_array, readId, readableId, pcC, executed, repeated>>,
         \A q \in Producers : pcP'[q] = "store" => q # p /\ pcP[q] = "store"
  PROVE  IInv'
<1>1. /\ TypeOK /\ ChunkInv /\ LapInv /\ PublishedInv /\ OnceInv /\ writeId \in Nat
      /\ curWriteId \in [Producers -> Nat] /\ writableId \in [Producers -> Nat]
      /\ chunkStart \in [Producers -> Nat] /\ readable_queue \subseteq Nat \X Nat
      /\ readId \in [Consumers -> Nat] /\ readableId \in [Consumers -> Nat]
      /\ TrySize \in Nat /\ 0 < TrySize /\ Size \in Nat
  BY Parameters DEF IInv, TypeOK
<1>2. /\ writeId' <= Size
      /\ Active(p) => ~Exhausted
      /\ writeId' = Size => \E q \in Producers \ {p} : Active(q)
  BY RoomOnFirstLap
<1>3. /\ chunkStart' = [chunkStart EXCEPT ![p] = writeId]
      /\ curWriteId' = [curWriteId EXCEPT ![p] = writeId]
      /\ writableId' = [writableId EXCEPT ![p] = writeId + TrySize]
  BY <1>1, AdoptGranted
<1>4. /\ chunkStart'[p] = writeId /\ curWriteId'[p] = writeId
      /\ writableId'[p] = writeId + TrySize
      /\ \A q \in Producers \ {p} : /\ chunkStart'[q] = chunkStart[q]
                                    /\ curWriteId'[q] = curWriteId[q]
                                    /\ writableId'[q] = writableId[q]
  BY <1>1, <1>3
<1>5. /\ Active(p)' /\ Filling(p)' /\ ~Filling(p) /\ ~Stuck(p)
      /\ \A q \in Producers \ {p} : /\ Active(q)' <=> Active(q)
                                    /\ Filling(q)' <=> Filling(q)
                                    /\ Stuck(q) => Stuck(q)'
  <2>1. Active(p)' /\ Filling(p)'
    BY <1>1, <1>4 DEF Active, Filling
  <2>2. ~Filling(p) /\ ~Stuck(p)
    BY <1>1, <1>2 DEF Filling, Full, Stuck
  <2>3. \A q \in Producers \ {p} : (Active(q)' <=> Active(q)) /\ (Filling(q)' <=> Filling(q))
    BY <1>4 DEF Active, Filling
  <2>4. Exhausted => Exhausted'
    BY <1>1 DEF Exhausted
  <2> QED BY <2>1, <2>2, <2>3, <2>4 DEF Stuck
<1>6. \A i : /\ IsHeld(i)' <=> IsHeld(i)
             /\ StuckIndex(i) => StuckIndex(i)'
             /\ \A c \in Consumers : Holds(c, i)' <=> Holds(c, i)
             /\ \A q \in Producers \ {p} : InChunk(i, q)' <=> InChunk(i, q)
  <2>1. \A i : \A q \in Producers \ {p} : InChunk(i, q)' <=> InChunk(i, q)
    BY <1>4 DEF InChunk
  <2>2. \A i : StuckIndex(i) => StuckIndex(i)'
    BY <1>5, <2>1 DEF StuckIndex
  <2> QED BY <2>1, <2>2 DEF IsHeld, Holds
<1>7. \A i : IsPublished(i)' <=> IsPublished(i) \/ (Active(p) /\ InChunk(i, p))
  BY <1>1, InsertedIndices
<1>8. ChunkInv'
  <2>1. writeId' % 2 = 0
    BY <1>1, QueueAssumption DEF ChunkInv
  <2>2. WholeChunks'
    <3>1. PICK m \in Nat : writeId = m * TrySize
      BY <1>1 DEF ChunkInv, WholeChunks
    <3>2. m + 1 \in Nat /\ writeId' = (m + 1) * TrySize
      BY <1>1, <3>1
    <3> QED BY <3>2 DEF WholeChunks
  <2>3. \A q \in Producers :
          /\ ~Active(q)' => chunkStart'[q] = 0 /\ curWriteId'[q] = 0
          /\ Active(q)' => /\ writableId'[q] = chunkStart'[q] + TrySize
                           /\ chunkStart'[q] <= curWriteId'[q]
                           /\ curWriteId'[q] <= writableId'[q]
                           /\ writableId'[q] <= writeId'
          /\ pcP'[q] = "store" => Filling(q)'
    <3> SUFFICES ASSUME NEW q \in Producers
                 PROVE  /\ ~Active(q)' => chunkStart'[q] = 0 /\ curWriteId'[q] = 0
                        /\ Active(q)' => /\ writableId'[q] = chunkStart'[q] + TrySize
                                         /\ chunkStart'[q] <= curWriteId'[q]
                                         /\ curWriteId'[q] <= writableId'[q]
                                         /\ writableId'[q] <= writeId'
                        /\ pcP'[q] = "store" => Filling(q)'
      OBVIOUS
    <3>1. CASE q = p
      BY <1>1, <1>4, <1>5, <3>1
    <3>2. CASE q # p
      BY <1>1, <1>4, <1>5, <3>2 DEF ChunkInv
    <3> QED BY <3>1, <3>2
  <2>4. \A q, r \in Producers : q # r /\ Active(q)' /\ Active(r)' =>
          writableId'[q] <= chunkStart'[r] \/ writableId'[r] <= chunkStart'[q]
    <3>1. \A q \in Producers \ {p} : Active(q) => writableId'[q] <= chunkStart'[p]
      BY <1>1, <1>4 DEF ChunkInv
    <3>2. \A q, r \in Producers \ {p} : q # r /\ Active(q) /\ Active(r) =>
            writableId'[q] <= chunkStart'[r] \/ writableId'[r] <= chunkStart'[q]
      BY <1>1, <1>4 DEF ChunkInv
    <3> QED BY <1>5, <3>1, <3>2
  <2> QED BY <2>1, <2>2, <2>3, <2>4 DEF ChunkInv
<1>9. LapInv'
  BY <1>2, <1>5 DEF LapInv
<1>10. PublishedInv'
  <2>1. \A ch \in readable_queue' :
          /\ ch \in Nat \X Nat
          /\ ch[2] = ch[1] + TrySize /\ ch[2] <= writeId
          /\ \A q \in Producers : Active(q) =>
               \/ ch[2] <= chunkStart[q]
               \/ writableId[q] <= ch[1]
               \/ ch = <<chunkStart[q], writableId[q]>> /\ ~Filling(q)
          /\ \A d \in readable_queue' : ch # d => ch[2] <= d[1] \/ d[2] <= ch[1]
    BY InsertKeepsPublished
  <2>2. \A ch \in readable_queue' :
          /\ ch[2] = ch[1] + TrySize /\ ch[2] <= writeId'
          /\ \A q \in Producers : Active(q)' =>
               \/ ch[2] <= chunkStart'[q]
               \/ writableId'[q] <= ch[1]
               \/ ch = <<chunkStart'[q], writableId'[q]>> /\ ~Filling(q)'
    BY <1>1, <1>4, <1>5, <2>1
  <2>3. \A c \in Consumers : pcC[c] \in {"notify", "read"} =>
          /\ readId[c] < readableId[c] /\ readableId[c] <= writeId'
          /\ \A q \in Producers : Filling(q)' =>
               readableId[c] <= chunkStart'[q] \/ writableId'[q] <= readId[c]
    BY <1>1, <1>4, <1>5 DEF PublishedInv
  <2> QED BY <2>1, <2>2, <2>3 DEF PublishedInv
<1>11. SlotInv'
  <2> SUFFICES ASSUME NEW i \in 0..(writeId' - 1), circle_array[i] # i
               PROVE  \E q \in Producers : curWriteId'[q] <= i /\ i < writableId'[q]
    BY DEF SlotInv
  <2>1. CASE i >= writeId
    BY <1>1, <1>4, <2>1
  <2>2. CASE i < writeId
    <3>1. PICK q \in Producers : curWriteId[q] <= i /\ i < writableId[q]
      BY <1>1, <2>2 DEF IInv, SlotInv
    <3>2. q # p
      BY <1>1, <3>1 DEF Full
    <3> QED BY <1>4, <3>1, <3>2
  <2> QED BY <1>1, <2>1, <2>2
<1>12. OnceInv'
  <2>1. executed \subseteq 0..(writeId' - 1)
    BY <1>1 DEF OnceInv
  <2>2. \A i \in Nat : i >= writeId => i \notin executed /\ ~IsPublished(i)' /\ ~IsHeld(i)
    <3> SUFFICES ASSUME NEW i \in Nat, i >= writeId
                 PROVE  i \notin executed /\ ~IsPublished(i)' /\ ~IsHeld(i)
      OBVIOUS
    <3>1. ~IsPublished(i)
      BY <1>1 DEF PublishedInv, IsPublished
    <3>2. ~(Active(p) /\ InChunk(i, p))
      BY <1>1 DEF ChunkInv, InChunk
    <3>3. ~IsHeld(i)
      BY <1>1 DEF PublishedInv, IsHeld, Holds
    <3> QED BY <1>1, <1>7, <3>1, <3>2, <3>3 DEF OnceInv
  <2>3. \A q \in Producers : \A i \in Nat : InChunk(i, q)' /\ ~Stuck(q)' =>
          i \notin executed /\ ~IsPublished(i)' /\ ~IsHeld(i)
    <3> SUFFICES ASSUME NEW q \in Producers, NEW i \in Nat, InChunk(i, q)', ~Stuck(q)'
                 PROVE  i \notin executed /\ ~IsPublished(i)' /\ ~IsHeld(i)
      OBVIOUS
    <3>1. CASE q = p
      BY <1>4, <2>2, <3>1 DEF InChunk
    <3>2. CASE q # p
      <4>1. InChunk(i, q) /\ ~Stuck(q) /\ Active(q)
        BY <1>1, <1>5, <1>6, <3>2 DEF InChunk, Active
      <4>2. ~(Active(p) /\ InChunk(i, p))
        BY <1>1, <3>2, <4>1 DEF ChunkInv, InChunk
      <4> QED BY <1>1, <1>7, <4>1, <4>2 DEF OnceInv
    <3> QED BY <3>1, <3>2
  <2>4. \A i \in Nat : IsPublished(i)' /\ ~StuckIndex(i)' => i \notin executed /\ ~IsHeld(i)
    BY <1>1, <1>5, <1>6, <1>7 DEF OnceInv
  <2> QED BY <1>1, <1>6, <2>1, <2>3, <2>4 DEF OnceInv
<1>13. OnlyStuckChunkRepeats'
  BY <1>6 DEF IInv, OnlyStuckChunkRepeats, StuckIndex
<1>14. EveryTaskAccounted'
  <2> SUFFICES ASSUME NEW i \in Stored', i \notin executed, ~IsPublished(i)', ~IsHeld(i)
               PROVE  \E q \in Producers : InChunk(i, q)'
    BY <1>6 DEF EveryTaskAccounted, IsPublished, IsHeld
  <2>1. i \in Nat /\ i < writeId
    BY <1>1, <1>4 DEF Stored
  <2>2. i \in Stored
    <3>1. ASSUME NEW q \in Producers, curWriteId[q] <= i, i < writableId[q] PROVE FALSE
      <4>1. q # p
        BY <1>1, <2>1, <3>1 DEF Full
      <4> QED BY <1>4, <3>1, <4>1 DEF Stored
    <3> QED BY <1>1, <2>1, <3>1 DEF Stored
  <2>3. ~IsPublished(i) /\ ~(Active(p) /\ InChunk(i, p))
    BY <1>7
  <2>4. PICK q \in Producers : InChunk(i, q)
    BY <2>2, <2>3 DEF IInv, EveryTaskAccounted, IsPublished, IsHeld
  <2>5. q # p
    BY <1>1, <2>1, <2>3, <2>4 DEF Active, InChunk
  <2> QED BY <1>6, <2>4, <2>5
<1> QED BY <1>8, <1>9, <1>10, <1>11, <1>12, <1>13, <1>14 DEF IInv

\* A pool thread takes the lowest published chunk.
LEMMA TakeKeeps ==
  ASSUME IInv, TypeOK', NEW c \in Consumers, pcC[c] = "take", NEW ch \in readable_queue,
         readable_queue' = readable_queue \ {ch},
         readId' = [readId EXCEPT ![c] = ch[1]],
         readableId' = [readableId EXCEPT ![c] = ch[2]],
         pcC' = [pcC EXCEPT ![c] = "notify"],
         UNCHANGED <<writeId, circle_array, chunkStart, curWriteId, writableId, pcP,
                     executed, repeated>>
  PROVE  IInv'
<1>1. /\ TypeOK /\ ChunkInv /\ LapInv /\ PublishedInv /\ OnceInv /\ writeId \in Nat
      /\ readable_queue \subseteq Nat \X Nat /\ ch[1] \in Nat /\ ch[2] \in Nat
      /\ readId \in [Consumers -> Nat] /\ readableId \in [Consumers -> Nat]
      /\ TrySize \in Nat /\ 0 < TrySize
  BY Parameters DEF IInv, TypeOK
<1>2. /\ pcC'[c] = "notify" /\ readId'[c] = ch[1] /\ readableId'[c] = ch[2]
      /\ \A d \in Consumers \ {c} : /\ pcC'[d] = pcC[d] /\ readId'[d] = readId[d]
                                    /\ readableId'[d] = readableId[d]
  BY <1>1 DEF TypeOK
<1>3. /\ Stored' = Stored
      /\ \A p \in Producers : /\ Active(p)' <=> Active(p)
                              /\ Filling(p)' <=> Filling(p)
                              /\ Stuck(p)' <=> Stuck(p)
                              /\ \A i : InChunk(i, p)' <=> InChunk(i, p)
      /\ \A i : StuckIndex(i)' <=> StuckIndex(i)
  BY DEF Stored, Active, Filling, Stuck, Exhausted, InChunk, StuckIndex
<1>4. \A i \in Nat : /\ ~Holds(c, i)
                     /\ Holds(c, i)' <=> ch[1] <= i /\ i < ch[2]
                     /\ \A d \in Consumers \ {c} : Holds(d, i)' <=> Holds(d, i)
  BY <1>2 DEF Holds
<1>5. \A i \in Nat : ch[1] <= i /\ i < ch[2] => IsPublished(i) /\ ~IsPublished(i)'
  BY <1>1 DEF IsPublished, PublishedInv
<1>6. \A i \in Nat : /\ IsPublished(i)' => IsPublished(i)
                     /\ IsPublished(i) => IsPublished(i)' \/ (ch[1] <= i /\ i < ch[2])
  BY DEF IsPublished
<1>7. \A i \in Nat : /\ IsHeld(i)' <=> IsHeld(i) \/ (ch[1] <= i /\ i < ch[2])
  BY <1>4 DEF IsHeld
<1>8. ChunkInv'
  BY <1>1, <1>3 DEF ChunkInv, WholeChunks
<1>9. LapInv' /\ SlotInv'
  BY <1>3 DEF IInv, LapInv, SlotInv
<1>10. PublishedInv'
  <2>1. /\ readId'[c] < readableId'[c] /\ readableId'[c] <= writeId
        /\ \A p \in Producers : Filling(p) =>
             readableId'[c] <= chunkStart[p] \/ writableId[p] <= readId'[c]
    <3>1. \A p \in Producers : Filling(p) => Active(p)
      BY <1>1 DEF Filling, Active, TypeOK
    <3> QED BY <1>1, <1>2, <3>1 DEF PublishedInv
  <2>2. \A d \in Consumers \ {c} : pcC'[d] \in {"notify", "read"} =>
          /\ readId'[d] < readableId'[d] /\ readableId'[d] <= writeId
          /\ \A p \in Producers : Filling(p) =>
               readableId'[d] <= chunkStart[p] \/ writableId[p] <= readId'[d]
    BY <1>1, <1>2 DEF PublishedInv
  <2>3. \A d \in Consumers : pcC'[d] \in {"notify", "read"} =>
          /\ readId'[d] < readableId'[d] /\ readableId'[d] <= writeId
          /\ \A p \in Producers : Filling(p) =>
               readableId'[d] <= chunkStart[p] \/ writableId[p] <= readId'[d]
    BY <2>1, <2>2
  <2>4. \A d \in readable_queue' :
          /\ d[2] = d[1] + TrySize /\ d[2] <= writeId
          /\ \A p \in Producers : Active(p) =>
               \/ d[2] <= chunkStart[p]
               \/ writableId[p] <= d[1]
               \/ d = <<chunkStart[p], writableId[p]>> /\ ~Filling(p)
          /\ \A e \in readable_queue' : d # e => d[2] <= e[1] \/ e[2] <= d[1]
    BY <1>1 DEF PublishedInv
  <2> QED BY <1>3, <2>3, <2>4 DEF PublishedInv
<1>11. OnceInv'
  <2>1. \A p \in Producers : \A i \in Nat : InChunk(i, p) /\ ~Stuck(p) =>
          i \notin executed /\ ~IsPublished(i)' /\ ~IsHeld(i)'
    BY <1>1, <1>5, <1>6, <1>7 DEF OnceInv
  <2>2. \A i \in Nat : IsPublished(i)' /\ ~StuckIndex(i) => i \notin executed /\ ~IsHeld(i)'
    BY <1>1, <1>5, <1>6, <1>7 DEF OnceInv
  <2>3. \A d \in Consumers : \A i \in Nat : Holds(d, i)' /\ ~StuckIndex(i) =>
          i \notin executed /\ \A e \in Consumers \ {d} : ~Holds(e, i)'
    <3> SUFFICES ASSUME NEW d \in Consumers, NEW i \in Nat, Holds(d, i)', ~StuckIndex(i)
                 PROVE  i \notin executed /\ \A e \in Consumers \ {d} : ~Holds(e, i)'
      OBVIOUS
    <3>1. CASE d = c
      <4>1. IsPublished(i)
        BY <1>4, <1>5, <3>1
      <4>2. i \notin executed /\ ~IsHeld(i)
        BY <1>1, <4>1 DEF OnceInv
      <4> QED BY <1>4, <3>1, <4>2 DEF IsHeld
    <3>2. CASE d # c
      <4>1. Holds(d, i) /\ IsHeld(i)
        BY <1>4, <3>2 DEF IsHeld
      <4>2. i \notin executed /\ ~IsPublished(i) /\ \A e \in Consumers \ {d} : ~Holds(e, i)
        BY <1>1, <4>1 DEF OnceInv
      <4> QED BY <1>4, <1>5, <3>2, <4>2
    <3> QED BY <3>1, <3>2
  <2> QED BY <1>1, <1>3, <2>1, <2>2, <2>3 DEF OnceInv
<1>12. OnlyStuckChunkRepeats'
  BY <1>3 DEF IInv, OnlyStuckChunkRepeats, StuckIndex
<1>13. EveryTaskAccounted'
  <2> SUFFICES ASSUME NEW i \in Stored, i \notin executed, ~IsPublished(i)', ~IsHeld(i)'
               PROVE  \E p \in Producers : InChunk(i, p)
    BY <1>3 DEF EveryTaskAccounted, IsPublished, IsHeld
  <2>1. i \in Nat
    BY <1>1 DEF Stored
  <2>2. ~IsPublished(i) /\ ~IsHeld(i)
    BY <1>6, <1>7, <2>1
  <2> QED BY <2>2 DEF IInv, EveryTaskAccounted, IsPublished, IsHeld
<1> QED BY <1>8, <1>9, <1>10, <1>11, <1>12, <1>13 DEF IInv

\* A pool thread that holds an index finds its task in the slot.
LEMMA HeldIsStored ==
  ASSUME IInv, NEW c \in Consumers, pcC[c] \in {"notify", "read"}
  PROVE  /\ readId[c] \in 0..(writeId - 1) /\ readId[c] \in Stored
         /\ Slot(readId[c]) = readId[c] /\ circle_array[readId[c]] = readId[c]
<1>1. /\ ChunkInv /\ PublishedInv /\ LapInv /\ writeId \in Nat /\ Size \in Nat
      /\ readId[c] \in Nat /\ readableId[c] \in Nat
      /\ curWriteId \in [Producers -> Nat] /\ writableId \in [Producers -> Nat]
      /\ chunkStart \in [Producers -> Nat]
  BY Parameters DEF IInv, TypeOK
<1>2. readId[c] < readableId[c] /\ readableId[c] <= writeId /\ writeId <= Size
  BY <1>1 DEF PublishedInv, LapInv
<1>3. ASSUME NEW p \in Producers, curWriteId[p] <= readId[c], readId[c] < writableId[p]
      PROVE  FALSE
  <2>1. Filling(p) /\ Active(p)
    BY <1>1, <1>3 DEF Filling, Active
  <2>2. chunkStart[p] <= curWriteId[p]
    BY <1>1, <2>1 DEF ChunkInv
  <2>3. readableId[c] <= chunkStart[p] \/ writableId[p] <= readId[c]
    BY <1>1, <2>1 DEF PublishedInv
  <2> QED BY <1>1, <1>2, <1>3, <2>2, <2>3
<1>4. readId[c] \in 0..(writeId - 1)
  BY <1>1, <1>2
<1>5. circle_array[readId[c]] = readId[c]
  BY <1>3, <1>4 DEF IInv, SlotInv
<1>6. Slot(readId[c]) = readId[c]
  BY <1>1, <1>2, SlotIdentity
<1> QED BY <1>3, <1>4, <1>5, <1>6 DEF Stored

\* A pool thread runs the next task of the chunk it holds.
LEMMA RunKeeps ==
  ASSUME IInv, TypeOK', NEW c \in Consumers, RunTask(c)
  PROVE  IInv'
<1> DEFINE i0 == readId[c]
<1>1. /\ TypeOK /\ ChunkInv /\ LapInv /\ PublishedInv /\ OnceInv /\ writeId \in Nat
      /\ readId \in [Consumers -> Nat] /\ readableId \in [Consumers -> Nat] /\ pcC[c] = "read"
      /\ i0 \in Nat /\ readableId[c] \in Nat
  BY DEF IInv, TypeOK, RunTask
<1>2. i0 \in 0..(writeId - 1) /\ circle_array[Slot(i0)] = i0
  BY <1>1, HeldIsStored
<1>3. /\ executed' = executed \cup {i0}
      /\ repeated' = IF i0 \in executed THEN repeated \cup {i0} ELSE repeated
      /\ UNCHANGED <<readable_queue, writeId, circle_array, chunkStart, curWriteId,
                     writableId, pcP, readableId>>
  BY <1>2 DEF RunTask, prodVars
<1>4. /\ readId'[c] = i0 + 1
      /\ pcC'[c] = IF i0 + 1 >= readableId[c] THEN "take" ELSE "read"
      /\ \A d \in Consumers \ {c} : pcC'[d] = pcC[d] /\ readId'[d] = readId[d]
  BY <1>1 DEF RunTask, TypeOK
<1>5. /\ Stored' = Stored
      /\ \A p \in Producers : /\ Active(p)' <=> Active(p)
                              /\ Filling(p)' <=> Filling(p)
                              /\ Stuck(p)' <=> Stuck(p)
                              /\ \A i : InChunk(i, p)' <=> InChunk(i, p)
      /\ \A i : StuckIndex(i)' <=> StuckIndex(i)
      /\ \A i : IsPublished(i)' <=> IsPublished(i)
  BY <1>3 DEF Stored, Active, Filling, Stuck, Exhausted, InChunk, StuckIndex, IsPublished
<1>6. Holds(c, i0) /\ IsHeld(i0)
  BY <1>1 DEF Holds, IsHeld, PublishedInv
<1>7. \A i \in Nat : /\ Holds(c, i)' <=> Holds(c, i) /\ i # i0
                     /\ \A d \in Consumers \ {c} : Holds(d, i)' <=> Holds(d, i)
  <2>1. \A i \in Nat : Holds(c, i)' <=> Holds(c, i) /\ i # i0
    BY <1>1, <1>3, <1>4 DEF Holds
  <2>2. \A i \in Nat : \A d \in Consumers \ {c} : Holds(d, i)' <=> Holds(d, i)
    BY <1>3, <1>4 DEF Holds
  <2> QED BY <2>1, <2>2
<1>8. \A i \in Nat : /\ IsHeld(i)' => IsHeld(i)
                     /\ IsHeld(i) => IsHeld(i)' \/ i = i0
  BY <1>7 DEF IsHeld
<1>9. ChunkInv'
  BY <1>1, <1>3, <1>5 DEF ChunkInv, WholeChunks
<1>10. LapInv' /\ SlotInv'
  BY <1>3, <1>5 DEF IInv, LapInv, SlotInv
<1>11. PublishedInv'
  <2>1. pcC'[c] = "read" => readId'[c] < readableId[c]
    BY <1>1, <1>4
  <2>2. \A d \in Consumers : pcC'[d] \in {"notify", "read"} =>
          /\ readId'[d] < readableId[d] /\ readableId[d] <= writeId
          /\ \A p \in Producers : Filling(p) =>
               readableId[d] <= chunkStart[p] \/ writableId[p] <= readId'[d]
    <3> SUFFICES ASSUME NEW d \in Consumers, pcC'[d] \in {"notify", "read"}
                 PROVE  /\ readId'[d] < readableId[d] /\ readableId[d] <= writeId
                        /\ \A p \in Producers : Filling(p) =>
                             readableId[d] <= chunkStart[p] \/ writableId[p] <= readId'[d]
      OBVIOUS
    <3>1. CASE d = c
      <4>1. writableId \in [Producers -> Nat]
        BY <1>1 DEF TypeOK
      <4> QED BY <1>1, <1>4, <2>1, <3>1, <4>1 DEF PublishedInv
    <3>2. CASE d # c
      BY <1>1, <1>4, <3>2 DEF PublishedInv
    <3> QED BY <3>1, <3>2
  <2> QED BY <1>1, <1>3, <1>5, <2>2 DEF PublishedInv
<1>12. OnceInv'
  <2>1. executed' \subseteq 0..(writeId - 1)
    BY <1>1, <1>2, <1>3 DEF OnceInv
  <2>2. \A p \in Producers : \A i \in Nat : InChunk(i, p) /\ ~Stuck(p) =>
          i \notin executed' /\ ~IsPublished(i) /\ ~IsHeld(i)'
    BY <1>1, <1>3, <1>6, <1>8 DEF OnceInv
  <2>3. \A i \in Nat : IsPublished(i) /\ ~StuckIndex(i) => i \notin executed' /\ ~IsHeld(i)'
    BY <1>1, <1>3, <1>6, <1>8 DEF OnceInv
  <2>4. \A d \in Consumers : \A i \in Nat : Holds(d, i)' /\ ~StuckIndex(i) =>
          i \notin executed' /\ \A e \in Consumers \ {d} : ~Holds(e, i)'
    <3> SUFFICES ASSUME NEW d \in Consumers, NEW i \in Nat, Holds(d, i)', ~StuckIndex(i)
                 PROVE  i \notin executed' /\ \A e \in Consumers \ {d} : ~Holds(e, i)'
      OBVIOUS
    <3>1. Holds(d, i)
      BY <1>7
    <3>2. i \notin executed /\ \A e \in Consumers \ {d} : ~Holds(e, i)
      BY <1>1, <3>1 DEF OnceInv
    <3>3. i # i0
      BY <1>6, <1>7, <3>2
    <3> QED BY <1>3, <1>7, <3>2, <3>3
  <2> QED BY <1>3, <1>5, <2>1, <2>2, <2>3, <2>4 DEF OnceInv
<1>13. OnlyStuckChunkRepeats'
  <2>1. i0 \in executed => StuckIndex(i0)
    BY <1>1, <1>6 DEF OnceInv
  <2>2. \A i \in repeated' : StuckIndex(i)
    BY <1>3, <2>1 DEF IInv, OnlyStuckChunkRepeats, StuckIndex
  <2> QED BY <1>5, <2>2 DEF OnlyStuckChunkRepeats, StuckIndex
<1>14. EveryTaskAccounted'
  <2> SUFFICES ASSUME NEW i \in Stored, i \notin executed', ~IsPublished(i), ~IsHeld(i)'
               PROVE  \E p \in Producers : InChunk(i, p)
    BY <1>5 DEF EveryTaskAccounted, IsPublished, IsHeld
  <2>1. i \in Nat /\ i \notin executed /\ i # i0
    BY <1>1, <1>3 DEF Stored
  <2>2. ~IsHeld(i)
    BY <1>8, <2>1
  <2> QED BY <2>1, <2>2 DEF IInv, EveryTaskAccounted, IsPublished, IsHeld
<1> QED BY <1>9, <1>10, <1>11, <1>12, <1>13, <1>14 DEF IInv

LEMMA InvInit == Init => IInv
<1> SUFFICES ASSUME Init PROVE IInv
  OBVIOUS
<1>1. TypeOK
  BY QueueAssumption DEF Init, TypeOK, NoTask
<1>2. ChunkInv
  <2>1. WholeChunks
    <3>1. 0 \in Nat /\ 0 = 0 * TrySize
      BY Parameters
    <3> QED BY <3>1 DEF Init, WholeChunks
  <2> QED BY <2>1 DEF Init, ChunkInv, Active, Filling
<1>3. LapInv /\ PublishedInv /\ SlotInv
  BY Parameters DEF Init, LapInv, PublishedInv, SlotInv
<1>4. OnceInv
  BY DEF Init, OnceInv, IsPublished, IsHeld, Holds
<1>5. EveryTaskAccounted /\ OnlyStuckChunkRepeats
  BY DEF Init, EveryTaskAccounted, OnlyStuckChunkRepeats, Stored
<1> QED BY <1>1, <1>2, <1>3, <1>4, <1>5 DEF IInv

LEMMA InvStep == ASSUME AtMostTwoProducers PROVE IInv /\ [Next]_vars => IInv'
<1> SUFFICES ASSUME IInv, [Next]_vars PROVE IInv'
  OBVIOUS
<1>0. TypeOK /\ TypeOK' /\ ChunkInv
  BY TypeStep DEF IInv
<1>1. ASSUME NEW p \in Producers, WriteInChunk(p) PROVE IInv'
  <2>1. Filling(p) /\ \A q \in Producers : pcP'[q] = "store" => q # p /\ pcP[q] = "store"
    BY <1>0, <1>1 DEF WriteInChunk, Full, Filling, TypeOK
  <2> QED BY <1>0, <1>1, <2>1, PutKeeps DEF WriteInChunk, consVars
<1>2. ASSUME NEW p \in Producers, TryWriteSpace(p) PROVE IInv'
  <2>1. \A q \in Producers : pcP'[q] = "store" => q # p /\ pcP[q] = "store"
    BY <1>0, <1>2 DEF TryWriteSpace, TypeOK
  <2>2. CASE HasRoom(Published(p), writeId + TrySize)
    BY <1>0, <1>2, <2>1, <2>2, GrantedKeeps DEF TryWriteSpace, consVars
  <2>3. CASE ~HasRoom(Published(p), writeId + TrySize)
    <3>1. UNCHANGED <<chunkStart, curWriteId, writableId>>
      BY <1>2, <2>3, AdoptRefused DEF TryWriteSpace
    <3> QED BY <1>0, <1>2, <2>1, <2>3, <3>1, RefusedKeeps DEF TryWriteSpace, consVars
  <2> QED BY <2>2, <2>3
<1>3. ASSUME NEW p \in Producers, NotifyReader(p) PROVE IInv'
  <2>1. \A q \in Producers : pcP'[q] = "store" => Filling(q)
    BY <1>0, <1>3 DEF NotifyReader, ChunkInv, Filling, TypeOK
  <2>2. \A c \in Consumers : pcC'[c] \in {"notify", "read"} <=> pcC[c] \in {"notify", "read"}
    <3>1. pcC \in [Consumers -> {"take", "wait", "notify", "read"}] /\ NotifyOne(pcC)
      BY <1>0, <1>3 DEF NotifyReader, TypeOK
    <3> QED BY <3>1, NotifyOneType
  <2> QED BY <1>0, <1>3, <2>1, <2>2, PcStepKeeps DEF NotifyReader
<1>4. ASSUME NEW p \in Producers, Store(p) PROVE IInv'
  <2>1. Filling(p) /\ \A q \in Producers : pcP'[q] = "store" => q # p /\ pcP[q] = "store"
    BY <1>0, <1>4 DEF Store, ChunkInv, TypeOK
  <2> QED BY <1>0, <1>4, <2>1, PutKeeps DEF Store, consVars
<1>5. ASSUME NEW c \in Consumers, TakeChunk(c) PROVE IInv'
  <2>0. UNCHANGED <<writeId, circle_array, chunkStart, curWriteId, writableId, pcP,
                    executed, repeated>>
    BY <1>5 DEF TakeChunk, prodVars
  <2>1. CASE /\ pcC' = [pcC EXCEPT ![c] = "wait"]
             /\ UNCHANGED <<readable_queue, readId, readableId>>
    <3>1. \A q \in Producers : pcP'[q] = "store" => Filling(q)
      BY <1>0, <2>0 DEF ChunkInv
    <3>2. \A d \in Consumers : pcC'[d] \in {"notify", "read"} <=> pcC[d] \in {"notify", "read"}
      BY <1>0, <1>5, <2>1 DEF TakeChunk, TypeOK
    <3> QED BY <1>0, <2>0, <2>1, <3>1, <3>2, PcStepKeeps
  <2>2. ASSUME NEW ch \in readable_queue,
               readable_queue' = readable_queue \ {ch},
               readId' = [readId EXCEPT ![c] = ch[1]],
               readableId' = [readableId EXCEPT ![c] = ch[2]],
               pcC' = [pcC EXCEPT ![c] = "notify"]
        PROVE  IInv'
    BY <1>0, <1>5, <2>0, <2>2, TakeKeeps DEF TakeChunk
  <2> QED BY <1>5, <2>1, <2>2 DEF TakeChunk
<1>6. ASSUME NEW c \in Consumers, NotifyPeer(c) PROVE IInv'
  <2> DEFINE pcs == [pcC EXCEPT ![c] = "read"]
  <2>1. /\ pcs \in [Consumers -> {"take", "wait", "notify", "read"}]
        /\ \A d \in Consumers : pcs[d] \in {"notify", "read"} <=> pcC[d] \in {"notify", "read"}
    BY <1>0, <1>6 DEF NotifyPeer, TypeOK
  <2>2. \A d \in Consumers : pcC'[d] \in {"notify", "read"} <=> pcs[d] \in {"notify", "read"}
    <3>1. NotifyOne(pcs)
      BY <1>6 DEF NotifyPeer
    <3> HIDE DEF pcs
    <3> QED BY <2>1, <3>1, NotifyOneType
  <2>3. \A q \in Producers : pcP'[q] = "store" => Filling(q)
    BY <1>0, <1>6 DEF NotifyPeer, prodVars, ChunkInv
  <2>4. \A d \in Consumers : pcC'[d] \in {"notify", "read"} <=> pcC[d] \in {"notify", "read"}
    BY <2>1, <2>2
  <2> QED BY <1>0, <1>6, <2>3, <2>4, PcStepKeeps DEF NotifyPeer, prodVars
<1>7. ASSUME NEW c \in Consumers, SpuriousWakeup(c) PROVE IInv'
  <2>1. \A q \in Producers : pcP'[q] = "store" => Filling(q)
    BY <1>0, <1>7 DEF SpuriousWakeup, prodVars, ChunkInv
  <2>2. \A d \in Consumers : pcC'[d] \in {"notify", "read"} <=> pcC[d] \in {"notify", "read"}
    BY <1>0, <1>7 DEF SpuriousWakeup, TypeOK
  <2> QED BY <1>0, <1>7, <2>1, <2>2, PcStepKeeps DEF SpuriousWakeup, prodVars
<1>8. ASSUME NEW c \in Consumers, RunTask(c) PROVE IInv'
  BY <1>0, <1>8, RunKeeps
<1>9. CASE UNCHANGED vars
  <2>1. \A q \in Producers : pcP'[q] = "store" => Filling(q)
    BY <1>0, <1>9 DEF vars, prodVars, ChunkInv
  <2> QED BY <1>0, <1>9, <2>1, PcStepKeeps DEF vars, prodVars, consVars
<1> QED BY <1>1, <1>2, <1>3, <1>4, <1>5, <1>6, <1>7, <1>8, <1>9
        DEF Next, ProducerStep, ConsumerStep

\* The inductive invariant holds in a worker, which has two I/O threads.
THEOREM InductiveInvariant == ASSUME AtMostTwoProducers PROVE Spec => []IInv
<1>1. Init => IInv
  BY InvInit
<1>2. IInv /\ [Next]_vars => IInv'
  BY InvStep
<1> QED BY <1>1, <1>2, PTL DEF Spec

\* With two producers, whatever the ring and the traffic, a pool thread never runs an
\* empty std::function nor a task that was stored for another index.
THEOREM ReadsAreRight == ASSUME AtMostTwoProducers PROVE Spec => []ReadsWhatWasWritten
<1>1. IInv => ReadsWhatWasWritten
  BY HeldIsStored DEF ReadsWhatWasWritten
<1> QED BY <1>1, InductiveInvariant, PTL

\* With two producers the unlocked stores and reads of CircleQueue never meet in a slot.
THEOREM SlotsDoNotRace == ASSUME AtMostTwoProducers PROVE Spec => []NoSlotRace
<1>1. IInv => NoSlotRace
  <2> SUFFICES ASSUME IInv, NEW p \in Producers, Filling(p)
               PROVE  /\ \A q \in Producers \ {p} :
                           Filling(q) => Slot(curWriteId[p]) # Slot(curWriteId[q])
                      /\ \A c \in Consumers : pcC[c] \in {"notify", "read"} =>
                           Slot(curWriteId[p]) # Slot(readId[c])
    BY DEF NoSlotRace
  <2>1. /\ ChunkInv /\ LapInv /\ PublishedInv /\ writeId \in Nat /\ Size \in Nat
        /\ curWriteId \in [Producers -> Nat] /\ writableId \in [Producers -> Nat]
        /\ chunkStart \in [Producers -> Nat] /\ readId \in [Consumers -> Nat]
        /\ readableId \in [Consumers -> Nat]
    BY Parameters DEF IInv, TypeOK
  <2>2. \A q \in Producers : Filling(q) =>
          /\ Active(q) /\ chunkStart[q] <= curWriteId[q] /\ curWriteId[q] < writableId[q]
          /\ Slot(curWriteId[q]) = curWriteId[q]
    <3> SUFFICES ASSUME NEW q \in Producers, Filling(q)
                 PROVE  /\ Active(q) /\ chunkStart[q] <= curWriteId[q]
                        /\ curWriteId[q] < writableId[q] /\ Slot(curWriteId[q]) = curWriteId[q]
      OBVIOUS
    <3>1. Active(q) /\ curWriteId[q] < writableId[q]
      BY <2>1 DEF Filling, Active
    <3>2. chunkStart[q] <= curWriteId[q] /\ writableId[q] <= writeId /\ writeId <= Size
      BY <2>1, <3>1 DEF ChunkInv, LapInv
    <3> QED BY <2>1, <3>1, <3>2, SlotIdentity
  <2>3. ASSUME NEW q \in Producers \ {p}, Filling(q)
        PROVE  Slot(curWriteId[p]) # Slot(curWriteId[q])
    <3>1. writableId[p] <= chunkStart[q] \/ writableId[q] <= chunkStart[p]
      BY <2>1, <2>2, <2>3 DEF ChunkInv
    <3> QED BY <2>1, <2>2, <2>3, <3>1
  <2>4. ASSUME NEW c \in Consumers, pcC[c] \in {"notify", "read"}
        PROVE  Slot(curWriteId[p]) # Slot(readId[c])
    <3>1. Slot(readId[c]) = readId[c]
      BY <2>4, HeldIsStored
    <3>2. readId[c] < readableId[c]
          /\ (readableId[c] <= chunkStart[p] \/ writableId[p] <= readId[c])
      BY <2>1, <2>4 DEF PublishedInv
    <3> QED BY <2>1, <2>2, <3>1, <3>2
  <2> QED BY <2>3, <2>4
<1> QED BY <1>1, InductiveInvariant, PTL

\* With two producers no stored task ever falls out of the system.
THEOREM TasksAccounted == ASSUME AtMostTwoProducers PROVE Spec => []EveryTaskAccounted
<1>1. IInv => EveryTaskAccounted
  BY DEF IInv
<1> QED BY <1>1, InductiveInvariant, PTL

\* With two producers a task runs twice only if its producer is being refused.
THEOREM RepeatsExplained == ASSUME AtMostTwoProducers PROVE Spec => []OnlyStuckChunkRepeats
<1>1. IInv => OnlyStuckChunkRepeats
  BY DEF IInv
<1> QED BY <1>1, InductiveInvariant, PTL

-----------------------------------------------------------------------------
(* Action property and refinement. *)

\* The steps that store nothing, grant nothing and run nothing.
LEMMA OtherSteps ==
  ASSUME [Next]_vars,
         \A p \in Producers : ~WriteInChunk(p) /\ ~Store(p) /\ ~TryWriteSpace(p)
  PROVE  UNCHANGED <<writeId, chunkStart, curWriteId, writableId>>
<1>1. ASSUME NEW p \in Producers, NotifyReader(p)
      PROVE  UNCHANGED <<writeId, chunkStart, curWriteId, writableId>>
  BY <1>1 DEF NotifyReader
<1>2. ASSUME NEW c \in Consumers, ConsumerStep(c)
      PROVE  UNCHANGED <<writeId, chunkStart, curWriteId, writableId>>
  BY <1>2 DEF ConsumerStep, TakeChunk, NotifyPeer, SpuriousWakeup, RunTask, prodVars
<1>3. CASE UNCHANGED vars
  BY <1>3 DEF vars, prodVars
<1> QED BY <1>1, <1>2, <1>3 DEF Next, ProducerStep

\* With two producers a producer that is refused once is refused for ever.
THEOREM RefusalIsFinal == ASSUME AtMostTwoProducers PROVE Spec => StuckForever
<1>1. IInv /\ [Next]_vars => (\A p \in Producers : Stuck(p) => Stuck(p)')
  <2> SUFFICES ASSUME IInv, [Next]_vars, NEW p \in Producers, Stuck(p) PROVE Stuck(p)'
    OBVIOUS
  <2>1. /\ ChunkInv /\ writeId \in Nat /\ TrySize \in Nat /\ Size \in Nat
        /\ curWriteId \in [Producers -> Nat] /\ writableId \in [Producers -> Nat]
        /\ chunkStart \in [Producers -> Nat]
    BY Parameters DEF IInv, TypeOK
  <2>2. ASSUME NEW q \in Producers, WriteInChunk(q) \/ Store(q) PROVE Stuck(p)'
    <3>1. Filling(q) /\ Put(q) /\ UNCHANGED <<writeId, writableId>>
      BY <2>1, <2>2 DEF WriteInChunk, Store, Full, Filling, ChunkInv
    <3>2. q # p /\ curWriteId'[p] = curWriteId[p]
      BY <2>1, <3>1 DEF Stuck, Put
    <3> QED BY <3>1, <3>2 DEF Stuck, Active, Filling, Exhausted
  <2>3. ASSUME NEW q \in Producers, TryWriteSpace(q) PROVE Stuck(p)'
    <3>1. CASE HasRoom(Published(q), writeId + TrySize)
      <4>1. q # p
        BY <3>1, RoomOnFirstLap DEF Stuck
      <4>2. /\ writeId' = writeId + TrySize
            /\ Adopt(q, <<writeId, writeId + TrySize>>)
        BY <2>3, <3>1 DEF TryWriteSpace
      <4>3. curWriteId'[p] = curWriteId[p] /\ writableId'[p] = writableId[p]
        <5>1. /\ curWriteId' = [curWriteId EXCEPT ![q] = writeId]
              /\ writableId' = [writableId EXCEPT ![q] = writeId + TrySize]
          BY <2>1, <4>2, AdoptGranted
        <5> QED BY <2>1, <4>1, <5>1
      <4>4. Exhausted'
        BY <2>1, <4>2 DEF Stuck, Exhausted
      <4> QED BY <4>3, <4>4 DEF Stuck, Active, Filling
    <3>2. CASE ~HasRoom(Published(q), writeId + TrySize)
      BY <2>3, <3>2, AdoptRefused DEF TryWriteSpace, Stuck, Active, Filling, Exhausted
    <3> QED BY <3>1, <3>2
  <2>4. CASE \A q \in Producers : ~WriteInChunk(q) /\ ~Store(q) /\ ~TryWriteSpace(q)
    BY <2>4, OtherSteps DEF Stuck, Active, Filling, Exhausted
  <2> QED BY <2>2, <2>3, <2>4
<1> QED BY <1>1, InductiveInvariant, PTL DEF Spec, StuckForever

\* A store by a producer with room in its chunk hands exactly one new task over.
LEMMA PutAccepts ==
  ASSUME IInv, NEW p \in Producers, Filling(p), Put(p), UNCHANGED <<writeId, writableId, executed>>
  PROVE  \E t \in 0..(Size - 1) : Pool!Accept(t)
<1> DEFINE w == curWriteId[p]
<1>1. /\ ChunkInv /\ LapInv /\ writeId \in Nat /\ Size \in Nat
      /\ curWriteId \in [Producers -> Nat] /\ writableId \in [Producers -> Nat]
      /\ chunkStart \in [Producers -> Nat]
  BY Parameters DEF IInv, TypeOK
<1>2. w \in Nat /\ w < writableId[p] /\ w < writeId /\ w < Size
  <2>1. w \in Nat /\ w < writableId[p] /\ Active(p)
    BY <1>1 DEF Filling, Active
  <2>2. writableId[p] <= writeId /\ writeId <= Size
    BY <1>1, <2>1 DEF ChunkInv, LapInv
  <2> QED BY <1>1, <2>1, <2>2
<1>3. curWriteId'[p] = w + 1 /\ \A q \in Producers \ {p} : curWriteId'[q] = curWriteId[q]
  BY <1>1 DEF Put
<1>4. w \notin Stored
  BY <1>1, <1>2 DEF Stored
<1>5. w \in Stored'
  <2>1. ASSUME NEW q \in Producers, curWriteId'[q] <= w, w < writableId[q] PROVE FALSE
    <3>1. q # p
      BY <1>2, <1>3, <2>1
    <3>2. Active(q) /\ Active(p) /\ curWriteId[q] <= w
      BY <1>1, <1>2, <1>3, <2>1, <3>1 DEF Active
    <3>3. /\ chunkStart[q] <= curWriteId[q] /\ chunkStart[p] <= w
          /\ writableId[p] <= chunkStart[q] \/ writableId[q] <= chunkStart[p]
      BY <1>1, <3>1, <3>2 DEF ChunkInv
    <3> QED BY <1>1, <1>2, <2>1, <3>2, <3>3
  <2> QED BY <1>1, <1>2, <2>1 DEF Stored
<1>6. \A i : i # w => (i \in Stored' <=> i \in Stored)
  <2> SUFFICES ASSUME NEW i \in 0..(writeId - 1), i # w
               PROVE  \A q \in Producers : (curWriteId'[q] <= i <=> curWriteId[q] <= i)
    BY DEF Stored
  <2> QED BY <1>1, <1>2, <1>3
<1>7. Stored' = Stored \cup {w} /\ w \in 0..(Size - 1)
  BY <1>1, <1>2, <1>5, <1>6
<1> QED BY <1>4, <1>7 DEF Pool!Accept

\* With two producers the queue implements the pool's promise: every store is an
\* acceptance, every run is the run of an accepted task, and nothing else is visible.
THEOREM QueueIsPool == ASSUME AtMostTwoProducers PROVE Spec => KeepsPoolPromise
<1>1. Init => Pool!Init
  BY DEF Init, Pool!Init, Stored
<1>2. IInv /\ [Next]_vars => [Pool!Next]_(Pool!vars)
  <2> SUFFICES ASSUME IInv, [Next]_vars
               PROVE  (\E t \in 0..(Size - 1) : Pool!Accept(t) \/ Pool!Run(t))
                      \/ (Stored' = Stored /\ executed' = executed)
    BY DEF Pool!Next, Pool!vars
  <2>1. /\ ChunkInv /\ LapInv /\ writeId \in Nat /\ TrySize \in Nat /\ Size \in Nat
        /\ curWriteId \in [Producers -> Nat] /\ writableId \in [Producers -> Nat]
        /\ chunkStart \in [Producers -> Nat]
    BY Parameters DEF IInv, TypeOK
  <2>2. ASSUME NEW p \in Producers, WriteInChunk(p) \/ Store(p)
        PROVE  \E t \in 0..(Size - 1) : Pool!Accept(t)
    <3>1. Filling(p) /\ Put(p) /\ UNCHANGED <<writeId, writableId, executed>>
      BY <2>1, <2>2 DEF WriteInChunk, Store, Full, Filling, ChunkInv, consVars
    <3> QED BY <3>1, PutAccepts
  <2>3. ASSUME NEW p \in Producers, TryWriteSpace(p)
        PROVE  Stored' = Stored /\ executed' = executed
    <3>0. executed' = executed /\ Full(p)
      BY <2>3 DEF TryWriteSpace, consVars
    <3>1. CASE HasRoom(Published(p), writeId + TrySize)
      <4>1. /\ writeId' = writeId + TrySize
            /\ Adopt(p, <<writeId, writeId + TrySize>>)
        BY <2>3, <3>1 DEF TryWriteSpace
      <4>2. /\ curWriteId' = [curWriteId EXCEPT ![p] = writeId]
            /\ writableId' = [writableId EXCEPT ![p] = writeId + TrySize]
        BY <2>1, <4>1, AdoptGranted
      <4>3. /\ curWriteId'[p] = writeId /\ writableId'[p] = writeId + TrySize
            /\ \A q \in Producers \ {p} : curWriteId'[q] = curWriteId[q]
                                          /\ writableId'[q] = writableId[q]
        BY <2>1, <4>2
      <4>4. \A i \in Nat : i < writeId => ~(curWriteId[p] <= i /\ i < writableId[p])
        BY <2>1, <3>0 DEF Full
      <4>5. \A i : i \in Stored' <=> i \in Stored
        <5>1. ASSUME NEW i \in Stored' PROVE i \in Stored
          <6>1. i \in Nat /\ i < writeId
            BY <2>1, <4>1, <4>3 DEF Stored
          <6> QED BY <2>1, <4>3, <4>4, <6>1 DEF Stored
        <5>2. ASSUME NEW i \in Stored PROVE i \in Stored'
          <6>1. i \in Nat /\ i < writeId
            BY <2>1 DEF Stored
          <6>2. ASSUME NEW q \in Producers, curWriteId'[q] <= i, i < writableId'[q]
                PROVE  FALSE
            <7>1. q # p
              BY <2>1, <4>3, <6>1, <6>2
            <7> QED BY <4>3, <6>2, <7>1 DEF Stored
          <6>3. i \in 0..(writeId' - 1)
            BY <2>1, <4>1, <6>1
          <6> QED BY <6>2, <6>3 DEF Stored
        <5> QED BY <5>1, <5>2
      <4> QED BY <3>0, <4>5
    <3>2. CASE ~HasRoom(Published(p), writeId + TrySize)
      BY <2>3, <3>0, <3>2, AdoptRefused DEF TryWriteSpace, Stored
    <3> QED BY <3>1, <3>2
  <2>4. ASSUME NEW c \in Consumers, RunTask(c)
        PROVE  \E t \in 0..(Size - 1) : Pool!Run(t)
    <3>1. /\ readId[c] \in Stored /\ readId[c] \in 0..(writeId - 1)
          /\ circle_array[Slot(readId[c])] = readId[c]
      BY <2>4, HeldIsStored DEF RunTask
    <3>2. executed' = executed \cup {readId[c]} /\ Stored' = Stored
      BY <2>4, <3>1 DEF RunTask, prodVars, Stored
    <3>3. readId[c] \in 0..(Size - 1)
      BY <2>1, <3>1 DEF LapInv
    <3> QED BY <3>1, <3>2, <3>3 DEF Pool!Run
  <2>5. CASE /\ \A p \in Producers : ~WriteInChunk(p) /\ ~Store(p) /\ ~TryWriteSpace(p)
             /\ \A c \in Consumers : ~RunTask(c)
    <3>1. executed' = executed
      BY <2>5 DEF Next, ProducerStep, ConsumerStep, NotifyReader, TakeChunk, NotifyPeer,
                  SpuriousWakeup, vars, consVars
    <3> QED BY <2>5, <3>1, OtherSteps DEF Stored
  <2> QED BY <2>2, <2>3, <2>4, <2>5
<1> QED BY <1>1, <1>2, InductiveInvariant, PTL DEF Spec, KeepsPoolPromise, Pool!Spec
=============================================================================
