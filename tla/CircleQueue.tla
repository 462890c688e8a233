----------------------------- MODULE CircleQueue -----------------------------
(***************************************************************************)
(* The task queue of a worker process: ThreadPool/CircleQueue.{h,cpp}      *)
(* with its two clients, Producer.h (one per I/O thread) and Consumer.h    *)
(* (one per thread of MyThreadPool).                                       *)
(*                                                                         *)
(* A producer reserves TrySize consecutive indices at a time, stores tasks *)
(* into them without a lock, and publishes the chunk as a whole when it    *)
(* asks for the next one.  A consumer takes the lowest published chunk and *)
(* reads it without a lock.  Everything between mx.lock() and mx.unlock()  *)
(* is one step; each access to a slot and each notify_one outside the lock *)
(* is a step of its own.                                                   *)
(*                                                                         *)
(* A task is identified by the index it was stored at, so a slot holds the *)
(* index of its last store and reading index i is right iff it returns i.  *)
(* A task need not return (the loop of ProxyServer::solveOnMessage has no  *)
(* other end than its own conditions): the thread that runs such a task is *)
(* lost to the pool, with what is left of its chunk.                       *)
(***************************************************************************)
EXTENDS Integers

CONSTANTS
  Producers,  \* I/O threads, each with its Producer object
  Consumers,  \* threads of MyThreadPool, each with its Consumer object
  Size,       \* CircleQueue::size, 2^24 in the code
  TrySize,    \* CircleQueue::try_size, 1024 in the code
  MaxTasks    \* bound: calls of Producer::write by each producer

ASSUME QueueAssumption ==
  /\ Consumers # {}
  /\ Size \in Nat /\ TrySize \in Nat /\ MaxTasks \in Nat
  /\ 0 < TrySize /\ TrySize < Size
  /\ TrySize % 2 = 0
  /\ \E k \in 0..Size : Size = k * TrySize

VARIABLES
  readable_queue,  \* published chunks <<first, end>>, a std::set
  writeId,         \* next index to reserve
  circle_array,    \* the slots
  chunkStart, curWriteId, writableId,  \* Producer: writeId, curWriteId, writableId
  pcP,             \* where each producer is in Producer::write
  readId, readableId,                  \* Consumer: readId, readableId
  pcC,             \* where each consumer is in Consumer::read
  hung,            \* the consumers whose last task never returns
  tasks,           \* calls of Producer::write so far
  executed,        \* history: tasks run at least once
  repeated         \* history: tasks run more than once

prodVars == <<chunkStart, curWriteId, writableId, pcP, tasks>>
consVars == <<readId, readableId, pcC, hung, executed, repeated>>
vars == <<readable_queue, writeId, circle_array, prodVars, consVars>>

NoTask == -1       \* T(): an empty std::function
Slot(i) == i % Size

TypeOK ==
  /\ readable_queue \subseteq Nat \X Nat
  /\ writeId \in Nat
  /\ circle_array \in [0..(Size - 1) -> Nat \cup {NoTask}]
  /\ chunkStart \in [Producers -> Nat]
  /\ curWriteId \in [Producers -> Nat]
  /\ writableId \in [Producers -> Nat]
  /\ pcP \in [Producers -> {"idle", "notify", "store"}]
  /\ readId \in [Consumers -> Nat]
  /\ readableId \in [Consumers -> Nat]
  /\ pcC \in [Consumers -> {"take", "wait", "notify", "read"}]
  /\ hung \subseteq Consumers
  /\ tasks \in [Producers -> 0..MaxTasks]
  /\ executed \subseteq Nat \cup {NoTask}
  /\ repeated \subseteq executed

Init ==
  /\ readable_queue = {}
  /\ writeId = 0
  /\ circle_array = [s \in 0..(Size - 1) |-> NoTask]
  /\ chunkStart = [p \in Producers |-> 0]
  /\ curWriteId = [p \in Producers |-> 0]
  /\ writableId = [p \in Producers |-> 0]
  /\ pcP = [p \in Producers |-> "idle"]
  /\ readId = [c \in Consumers |-> 0]
  /\ readableId = [c \in Consumers |-> 0]
  /\ pcC = [c \in Consumers |-> "take"]
  /\ hung = {}
  /\ tasks = [p \in Producers |-> 0]
  /\ executed = {}
  /\ repeated = {}

-----------------------------------------------------------------------------
(* The condition variable isEmpty and the published set. *)

\* Broken variant: the notification is forgotten.
NotifyNone(pcs) == pcC' = pcs

\* notify_one: some waiting thread, if there is one, returns to the test of its
\* predicate; pcs is where the pool threads are when the notifier has returned.
NotifyOne(pcs) ==
  IF \E w \in Consumers : pcs[w] = "wait"
  THEN \E w \in Consumers : pcs[w] = "wait" /\ pcC' = [pcs EXCEPT ![w] = "take"]
  ELSE pcC' = pcs

\* ch is *q.begin()
Begin(q, ch) == ch \in q /\ \A d \in q : ch[1] <= d[1]

\* Broken variants: no test at all, and a chunk granted that ends at Size.
HasRoomAlways(q, writable_id) == TRUE
HasRoomInclusive(q, writable_id) == q = {} \/ writable_id <= Size

\* The test of tryWriteSpace.  In C++ < binds tighter than &, so the third
\* operand is  writable_id & ((size - 1) < begin()->first) & (size - 1):  bit 0 of
\* writable_id and of size - 1, if the comparison is true.
HasRoom(q, writable_id) ==
  \/ q = {}
  \/ writable_id < Size
  \/ \E ch \in q : /\ Begin(q, ch)
                   /\ Size - 1 < ch[1]
                   /\ writable_id % 2 = 1 /\ (Size - 1) % 2 = 1

\* Broken variant: the chunk just filled is not inserted.
PublishedNothing(p) == readable_queue

\* readable_queue after the insertion at the head of tryWriteSpace
Published(p) ==
  IF writableId[p] # 0
  THEN readable_queue \cup {<<chunkStart[p], writableId[p]>>}
  ELSE readable_queue

-----------------------------------------------------------------------------
(* Producer::write *)

\* Broken variant: the chunk counts as full with one slot still to fill.
FullEarly(p) == curWriteId[p] + 1 >= writableId[p]

\* The producer has no chunk, or has filled the one it has.
Full(p) == curWriteId[p] >= writableId[p]

\* Broken variant: the answer is not compared with -1.
AdoptUnchecked(p, space) ==
  /\ chunkStart' = [chunkStart EXCEPT ![p] = space[1]]
  /\ curWriteId' = [curWriteId EXCEPT ![p] = space[1]]
  /\ writableId' = [writableId EXCEPT ![p] = space[2]]

\* What Producer::write does with the answer of tryWriteSpace.
Adopt(p, space) ==
  \/ space[1] # -1 /\ AdoptUnchecked(p, space)
  \/ space[1] = -1 /\ UNCHANGED <<chunkStart, curWriteId, writableId>>

\* circle_array[curWriteId++ % size] = obj
Put(p) ==
  /\ circle_array' = [circle_array EXCEPT ![Slot(curWriteId[p])] = curWriteId[p]]
  /\ curWriteId' = [curWriteId EXCEPT ![p] = @ + 1]

\* A call that finds room in the producer's own chunk.
WriteInChunk(p) ==
  /\ pcP[p] = "idle" /\ tasks[p] < MaxTasks
  /\ ~Full(p)
  /\ Put(p)
  /\ tasks' = [tasks EXCEPT ![p] = @ + 1]
  /\ UNCHANGED <<readable_queue, writeId, chunkStart, writableId, pcP, consVars>>

\* A call that finds its chunk full (or has none): the locked part of tryWriteSpace.
TryWriteSpace(p) ==
  /\ pcP[p] = "idle" /\ tasks[p] < MaxTasks
  /\ Full(p)
  /\ readable_queue' = Published(p)
  /\ IF HasRoom(Published(p), writeId + TrySize)
     THEN writeId' = writeId + TrySize /\ Adopt(p, <<writeId, writeId + TrySize>>)
     ELSE UNCHANGED writeId /\ Adopt(p, <<-1, -1>>)
  /\ pcP' = [pcP EXCEPT ![p] = "notify"]
  /\ tasks' = [tasks EXCEPT ![p] = @ + 1]
  /\ UNCHANGED <<circle_array, consVars>>

\* The rest of tryWriteSpace: notify_one after the unlock; a refused caller
\* returns false and the task is dropped.
NotifyReader(p) ==
  /\ pcP[p] = "notify"
  /\ NotifyOne(pcC)
  /\ pcP' = [pcP EXCEPT ![p] = IF curWriteId[p] < writableId[p] THEN "store" ELSE "idle"]
  /\ UNCHANGED <<readable_queue, writeId, circle_array, chunkStart, curWriteId,
                 writableId, tasks, readId, readableId, hung, executed, repeated>>

\* The store of a call that was given a new chunk.
Store(p) ==
  /\ pcP[p] = "store"
  /\ Put(p)
  /\ pcP' = [pcP EXCEPT ![p] = "idle"]
  /\ UNCHANGED <<readable_queue, writeId, chunkStart, writableId, tasks, consVars>>

-----------------------------------------------------------------------------
(* Consumer::read, in the loop of MyThreadPool::runInMyThread *)

\* Broken variant: the chunk taken is not erased.
TakeChunkKept(c) ==
  /\ pcC[c] = "take" /\ c \notin hung
  /\ \E ch \in readable_queue :
       /\ Begin(readable_queue, ch)
       /\ readId' = [readId EXCEPT ![c] = ch[1]]
       /\ readableId' = [readableId EXCEPT ![c] = ch[2]]
       /\ pcC' = [pcC EXCEPT ![c] = "notify"]
  /\ UNCHANGED <<readable_queue, writeId, circle_array, prodVars, hung, executed, repeated>>

\* tryReadSpaceByCV under the lock: sleep if nothing is published, else take the
\* lowest chunk.
TakeChunk(c) ==
  /\ pcC[c] = "take" /\ c \notin hung
  /\ \/ /\ readable_queue = {}
        /\ pcC' = [pcC EXCEPT ![c] = "wait"]
        /\ UNCHANGED <<readable_queue, readId, readableId>>
     \/ \E ch \in readable_queue :
          /\ Begin(readable_queue, ch)
          /\ readable_queue' = readable_queue \ {ch}
          /\ readId' = [readId EXCEPT ![c] = ch[1]]
          /\ readableId' = [readableId EXCEPT ![c] = ch[2]]
          /\ pcC' = [pcC EXCEPT ![c] = "notify"]
  /\ UNCHANGED <<writeId, circle_array, prodVars, hung, executed, repeated>>

\* notify_one after the unlock of tryReadSpaceByCV
NotifyPeer(c) ==
  /\ pcC[c] = "notify"
  /\ NotifyOne([pcC EXCEPT ![c] = "read"])
  /\ UNCHANGED <<readable_queue, writeId, circle_array, prodVars,
                 readId, readableId, hung, executed, repeated>>

\* A wait may return without a notification; its predicate is tested again.
SpuriousWakeup(c) ==
  /\ pcC[c] = "wait"
  /\ pcC' = [pcC EXCEPT ![c] = "take"]
  /\ UNCHANGED <<readable_queue, writeId, circle_array, prodVars,
                 readId, readableId, hung, executed, repeated>>

\* circle_array[readId++ % size], and the call of the task it returns, which may or
\* may not come back.
RunTask(c) ==
  /\ pcC[c] = "read" /\ c \notin hung
  /\ LET t == circle_array[Slot(readId[c])] IN
       /\ executed' = executed \cup {t}
       /\ repeated' = IF t \in executed THEN repeated \cup {t} ELSE repeated
  /\ readId' = [readId EXCEPT ![c] = @ + 1]
  /\ pcC' = [pcC EXCEPT ![c] = IF readId[c] + 1 >= readableId[c] THEN "take" ELSE "read"]
  /\ hung' \in {hung, hung \cup {c}}
  /\ UNCHANGED <<readable_queue, writeId, circle_array, prodVars, readableId>>

-----------------------------------------------------------------------------
ProducerStep(p) == WriteInChunk(p) \/ TryWriteSpace(p) \/ NotifyReader(p) \/ Store(p)
ConsumerStep(c) == TakeChunk(c) \/ NotifyPeer(c) \/ SpuriousWakeup(c) \/ RunTask(c)

Next == (\E p \in Producers : ProducerStep(p)) \/ (\E c \in Consumers : ConsumerStep(c))

Spec == Init /\ [][Next]_vars

\* A thread that is neither asleep nor in a task that never returns goes on: consumers
\* loop for ever, and a producer finishes the call it is in.  Nothing obliges a task to
\* return, nor a client to send another request.
Fairness ==
  /\ \A c \in Consumers : WF_vars(TakeChunk(c)) /\ WF_vars(NotifyPeer(c)) /\ WF_vars(RunTask(c))
  /\ \A p \in Producers : WF_vars(NotifyReader(p)) /\ WF_vars(Store(p))

FairSpec == Spec /\ Fairness

-----------------------------------------------------------------------------
(* Vocabulary of the properties. *)

Active(p) == writableId[p] # 0                   \* p has been given a chunk
Filling(p) == curWriteId[p] < writableId[p]      \* and it is not full yet
Exhausted == writeId + TrySize >= Size           \* the first lap is used up
Stuck(p) == Active(p) /\ ~Filling(p) /\ Exhausted

InChunk(i, p) == chunkStart[p] <= i /\ i < writableId[p]
Holds(c, i) == pcC[c] \in {"notify", "read"} /\ readId[c] <= i /\ i < readableId[c]
Stored == {i \in 0..(writeId - 1) :
             ~ \E p \in Producers : curWriteId[p] <= i /\ i < writableId[p]}

AtMostTwoProducers == \A p, q, r \in Producers : p = q \/ q = r \/ p = r

-----------------------------------------------------------------------------
(* Properties. *)

\* A pool thread about to run index i finds in the slot the task that was stored for
\* i: never an empty std::function, never a later task that wrapped onto the slot
\* (CircleQueue::read and write run without the lock).
ReadsWhatWasWritten ==
  \A c \in Consumers :
    pcC[c] \in {"notify", "read"} => circle_array[Slot(readId[c])] = readId[c]

\* No two threads can be about to touch one slot if one of them writes: the stores of
\* Producer::write and the reads of Consumer::read are unsynchronised, and the
\* assignment of a std::function is not atomic.
NoSlotRace ==
  \A p \in Producers : Filling(p) =>
    /\ \A q \in Producers \ {p} : Filling(q) => Slot(curWriteId[p]) # Slot(curWriteId[q])
    /\ \A c \in Consumers :
         pcC[c] \in {"notify", "read"} => Slot(curWriteId[p]) # Slot(readId[c])

\* No stored task falls out of the system: it is still in its producer's chunk, or
\* published, or held by a pool thread, or it was run.
EveryTaskAccounted ==
  \A i \in Stored :
    \/ i \in executed
    \/ \E ch \in readable_queue : ch[1] <= i /\ i < ch[2]
    \/ \E c \in Consumers : Holds(c, i)
    \/ \E p \in Producers : InChunk(i, p)

\* The only tasks that are ever run twice are those of the last chunk of a producer
\* that tryWriteSpace refuses: each refused write inserts that chunk again.
OnlyStuckChunkRepeats ==
  \A i \in repeated : \E p \in Producers : InChunk(i, p) /\ Stuck(p)

\* While a chunk is published, no pool thread sleeps unless another is on its way to
\* the chunk or to a notify_one: no notification of CircleQueue is lost, and none goes
\* to a thread that is lost to the pool.
NoLostWakeup ==
  readable_queue # {} =>
    \/ \A c \in Consumers : pcC[c] # "wait"
    \/ \E c \in Consumers \ hung : pcC[c] \in {"take", "notify"}
    \/ \E p \in Producers : pcP[p] = "notify"

\* A producer that is refused once is refused for ever: reading the queue empty does
\* not give its slots back, because each retry publishes before it tests for room.
StuckForever == [][\A p \in Producers : Stuck(p) => Stuck(p)']_vars

\* Every published task is run in the end, unless it is in the hands of a thread whose
\* task never returns or no thread is left: one task that hangs costs the rest of its
\* own chunk and one thread, never a chunk that is published.
PublishedRuns ==
  \A i \in 0..(Size - 1) :
    (\E ch \in readable_queue : ch[1] <= i /\ i < ch[2])
      ~> (\/ i \in executed
          \/ \E c \in hung : Holds(c, i)
          \/ Consumers = hung)

\* Every task accepted by Producer::write is run in the end, if every task returns.
AcceptedRuns ==
  \A i \in 0..(Size - 1) : (i \in Stored) ~> (i \in executed \/ hung # {})

\* The queue keeps the pool's promise: only accepted tasks are run, and acceptance is
\* never forgotten.
Pool == INSTANCE TaskPool WITH Tasks <- 0..(Size - 1), accepted <- Stored, done <- executed
KeepsPoolPromise == Pool!Spec
=============================================================================
