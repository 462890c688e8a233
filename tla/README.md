# EnhancedProxy: TLA+ models and proofs

EnhancedProxy is an HTTP reverse proxy in C++ on top of muduo: a master process forks
workers, one worker at a time accepts connections, each worker has two I/O threads that
hand requests to a pool of threads through a lock-light ring queue, and pool threads
answer from a two-level cache or forward to the web server through a tunnel.  This
directory holds models of those parts, the TLC runs that check them and TLAPS proofs
about all of them.  Line numbers below refer to files of the repository; `PROJECT.json`
has the line range of every definition.

## The system and its parts

| Part | State | Operations | What makes it correct |
|---|---|---|---|
| Thread pool and ring queue (`ThreadPool/`) | ring of tasks, set of published chunks, next index; each Producer's and Consumer's chunk | `Producer::write`, `tryWriteSpace`, `Consumer::read`, `tryReadSpaceByCV` | a task handed over is run, a slot is never used by two threads, nobody sleeps while a chunk is published |
| Acceptor scheduling (`Process/`, parts of `TcpServer`, `Acceptor`, `ProxyServer`) | a byte of shared memory, an eventfd per worker; each worker's owner flag, listening flag, connections, hand-over handler | `start`, `enableListen`, `newConnection`, `EventHandler`, `acceptorScheduling`, `notify`, `checkWorkerExit` | at most one worker accepts, and some worker does |
| Response cache (`cache/`, `Cache/Redis.h`) | current `Lru` object and those readers still hold, Redis keys | `readCache`, `writeCache` | an answer belongs to its url and is current; capacity is kept; a miss is a miss |
| Request relay (`ProxyServer`, `Tunnel`) | the connection's input buffer, copies of it in tasks, tunnels, the connection's context | `onServerMessage`, `solveOnMessage`, `onServerConnection`, `onClientConnection`, `onClientMessage` | each request reaches the web server once, in order |
| Flow control (`Tunnel`) | output buffers, who is being read from, mark and write-complete callbacks | `onHighWaterMark`, `onWriteComplete`, `setup`, `teardown` | a side that was stopped is started again |
| HTTP parser (`Http/`) | method and url found so far | `parseRequest`, `reset` | it finds the end of the first request, wherever the stream is cut |
| I/O threads and connections (`ModifiedMuduo/`) | loops, Producer pointers, connections, the spare descriptor | `startLoop`, `getNextLoop`, `getProducer`, `handleRead`, `newConnection`, `removeConnection` | start-up ends, connections are taken apart once, on their own loop, no foreign descriptor is closed |
| Memory checker, signal handling | none that matters | bodies empty or commented out | |

They interact like this.  An I/O thread's message callback copies the connection's input
buffer into a task and calls `Producer::write`; a pool thread runs the task, reads the
cache, creates a `Tunnel` on the worker's base loop or forwards on the one that is up, and
removes the request from the I/O thread's buffer.  The base loop also accepts connections,
deals them to the I/O threads' loops and erases them when those report that they have
closed; a tunnel's two connections live in different loops and stop and start each other's
readers through the loops' queues.  Workers share a lock byte, the eventfds
and Redis.

Hard to test, and therefore what the models are about: unsynchronised slots, buffers and
lists; wake-ups, of pool threads, of `startLoop` and of stopped readers; the ring at its
end; the order of tasks of one connection; a worker that dies with the lock; hand-overs
and notifications that cross; copy on write against readers that write; urls and pages
that are used as a format string.  `PROJECT.json` lists these hazards with the line where
each bites and the properties that would catch it, or why none does.

## Modules

**`TaskPool`** is the abstract pool: tasks are accepted, accepted tasks are run, possibly
more than once.

**`CircleQueue`** is the queue with its producers and consumers.  A task is named by the
index it was stored at, so a slot that holds `i` when index `i` is read is right.  Actions
are cut where the code locks and unlocks: `TryWriteSpace` is the locked part of
`tryWriteSpace`, `NotifyReader` the `notify_one` after it, `Store` and `WriteInChunk` the
unlocked stores; `TakeChunk`, `NotifyPeer` and `RunTask` are the consumer's.  `HasRoom`
keeps the precedence C++ gives the expression on line 35: the third operand tests bits, it
does not compare positions.  `RunTask` may add its thread to `hung`: a task need not
return, as `solveOnMessage` does not while it waits for a tunnel that never comes up.  The
bodies called *broken variants* next to a definition are what a plausible slip would have
made of it; they show that the property would notice.

**`AcceptorScheduling`** has the master, the workers and the lock.  `pc` is where a worker
is between two accesses to shared state; `holder` is a history variable.  `owner` and
`aged` start with any value because the constructors leave `owner` and `startListenTime`
unset.  `Inherited` says which eventfds a worker really has: the master creates them one by
one between the forks.

**`ResponseCache`** has readers, writers and `Lru` objects with an address each, so that
two readers can share one.  `get` is cut after its look-up, because what follows changes
the list outside the lock.  When two such changes, or a change and a copy, can overlap,
the outcomes are the orderly one, a list that has lost or permuted nodes (`Scrambled`),
and a crash.  Urls and pages are character sequences, because of what happens to them on
their way to Redis and back: the page is quoted (`Quote`, `Unquote`), a blank makes the
command malformed, `c_str()` and `std::string(reply->str)` stop at a NUL (`CStr`), and the
text is the format of `redisCommand` (`Printf`): `%%` becomes `%`, any other conversion
takes an argument nobody passed and yields some text of `Junk`, or follows a wild pointer
(`FollowsWild`).  So several urls can have one key; `Untouched` are the urls whose keys
only their own pages, unchanged, can be stored under.  Times are subtracted modulo `Wrap`,
as the unsigned subtraction does.  As shipped the cache is hardly used (the method is
compared with `"Get"`, `isResponseCompelete` is always false); the model drives the two
operations of `Cache` from the threads that hold it.

**`RequestRelay`** follows one connection.  Bytes are numbered, so that the input buffer
and every copy of it are intervals.  The pool is `TaskPool`, instantiated: tasks may run
late, in any order and twice, which is what `CircleQueue` is proved to provide.  Failed
assertions, null tunnels, dangling references and exceptions end the worker (`fault`).
Lines 146, 148, 150 and 157-161 are steps of their own (`Send`, `CopyBuffer`, `Retrieve`,
`AssertSame`), because nothing locks the buffer between them; `SameBytes` compares what
the bytes are (`Text`), not which they are.  `TornRetrieve` is the data race on muduo's
`Buffer` between a retrieve and an append, `RacingRetrieves` the one between two
retrieves, of which one may be lost.  `twice` remembers that a task was run again.  The
context is read three times, on lines 124, 137 and 142, and a tunnel may go down between
any two (`HasContext`, `TestContext`, `PickBackend`); after the first gap the request goes
round the loop again, parsed a second time, after the second `any_cast` throws.

**`HttpContext`** is the parser, as operators on sequences of tokens (`PraseRequestLine`,
`ExpectHeaders`, `ExpectBody`, `ParseRequest`), and the loop around it.  `ExpectHeaders`
is a recursive function of where the `while` loop is (`it`) and what it has (`bodySize`).
`Number` is what `strtol` makes of a text (white space, a sign, digits, clamped to a long)
and `Atoi` takes it modulo `Wrap`, as the unsigned `bodySize` does.  The stream is fixed
in `Init`: requests, or noise; reads cut it anywhere.  Each read makes a copy of the
buffer as it then is (`Arrive`), whose task may run later, in any order and again
(`SolveOnMessage`). The connection may go down at any time, and then `LoopTest` does not
parse.  `LookAgain` is the round that takes neither branch of lines 124 and 137, because
the tunnel has gone down between the two tests: the request is parsed again without a
reset, and its method and url are then in the context twice.  The requests are
`WellFormed` (`RequestAssumption`): no carriage return in a line, no blank in method or
url, a colon in every header, and a body as long as the last `Content-Length` says.  Noise
is anything. `ParsesAsReference` compares the parser with a definition that looks at the
set of line ends instead of scanning.

**`TunnelFlow`** has the two connections of a tunnel, with their output buffers in units of
which `Mark` make the high-water mark, and the two loops with their queues of functors.
`SendInLoop`, `HandleWrite` and `SwitchRead` are muduo's; `OnHighWaterMark` and
`OnWriteComplete` the Tunnel's, which queue `stopRead` and `startRead` for the other loop.
A `clientConn_` that `teardown` has reset and a functor that reaches a closed connection end
the worker, or may (`fault`).

**`IoThreads`** follows `TcpServer::start` through the handshake of `startLoop` and
`threadFunc`, then accepts.  Loop 0 is the base loop; with no I/O threads it serves the
connections itself.  Descriptors are numbers, so that one can be given to somebody else
while `idleFd_` still names it.  The Producer pointer, which `threadInitCallback` assigns
to its own parameter, is null or wild: `OnServerMessage` drops the message or the worker
dies.  The other models go on as if it had been assigned.

`MC*` modules give TLC its symmetry sets and pages.  `CircleQueueProofs`,
`AcceptorSchedulingProofs`, `RequestRelayProofs`, `ResponseCacheProofs`, `IoThreadsProofs`,
`TunnelFlowProofs` and `HttpContextProofs` hold the proofs about the module each is named
after; `ListFacts` has the lemmas about sequences, least and greatest elements, induction
and recursive functions that several of them use.

## Runs

| Run | Instance | Shows |
|---|---|---|
| `queue` | 2 producers, 2 consumers, ring of 6, chunks of 2, 5 writes each, tasks that may hang, fair | `ReadsWhatWasWritten`, `NoSlotRace`, `EveryTaskAccounted`, `OnlyStuckChunkRepeats`, `NoLostWakeup`, `PublishedRuns`, `StuckForever`, and that the queue implements `TaskPool` |
| `queue_accepted` | the same | violated: an accepted task may wait for ever in a chunk that is not full |
| `acceptor` | 2 workers, limit of 1 connection, 5 notifications, 2 kills, fair | `AtMostOneListening`, `UnlockAssertion`, `EnableFindsDisabled`, `NoLeakedLock`, `OnlyHolderFrees`, `StartupListens`, `NotificationTakesOver` |
| `acceptor_handover` | 3 workers, no notifications (as shipped), fair | violated: the first hand-over kills the worker and leaves the lock taken |
| `cache` | 2 readers, 1 writer, the urls `/%%` and `/%`, capacity 1, 3 objects, 2 clock values, pages Redis stores and pages it does not | `PutsAlone`, `SnapshotReads`, `AnswersMatchUrl`, `MemoryIsLatest` |
| `cache_lru` | 1 writer, 3 urls, capacity 2 | violated: overflow empties the cache |
| `cache_miss` | 1 reader | violated: a miss in Redis ends the worker |
| `relay_safety` | 2 pool threads, 2 tunnels, 2 requests | `HandedOnceInOrder`, `ContextIsOpen` |
| `relay_assert` | 2 pool threads, 2 tunnels, 2 requests of 2 parts | violated: two requests in the buffer fail the assertion |
| `parser` | 2 requests of 2 kinds, parsed up to twice each, or one of 2 first lines and up to 2 of 6 odd headers; numbers modulo 16 | `SplitsAtRequests`, `LengthWithinBuffer`, `ParsesAsReference`, `VerdictIsStable` |
| `flow` | 1 tunnel, mark 2, buffers of 3, 4 functors in the two queues, fair | `ReaderWakes` (`ClientReaderWakes` and `BackendReaderWakes`), `StoppedIsStarted` |
| `io` | 0 to 2 threads, 3 connections, 3 descriptors, fair | `OnlyLiveLoops`, `MapSettled`, `HeldUntilDestroyed`, `IdleFdIsOwn`, `StartCompletes`, `ClosedIsDestroyed` |

Why the bounds are enough.  The ring of three chunks is the smallest in which both
producers can hold a chunk of the first lap, one can be refused while the other is not,
and the chunk that only an empty queue unlocks exists; with five writes each producer can
be refused and, by `StuckForever`, is refused from then on.  Two producers are what the
program has (`setIOThreadNum(2)`); with three and a shorter ring the last granted chunk
can wrap onto one still being read, so the theorems assume at most two.  Two workers and
five notifications let each worker hand over and be put in charge again, which is when
`enableListen` toggles; both may be killed. The safety theorems are for any number of
workers; `acceptor_handover` has the three that `Test.cpp` starts.  A limit of one
connection makes hand-overs frequent; `ConnBound` of two lets the second one trigger it.
For the cache, capacity 1 and two urls reach overflow, two readers race with each other
and with the copy, and two clock values allow a step back.  Of its urls, `/%%` is
formatted into the key `/%`, which a reader of `/%` asks for too and gets the other's page
from: `Untouched` has the first only.  For the relay, two requests in two reads give
copies that hold one or both of them, late and repeated, and two tunnels the tasks that
both find the context empty; requests that arrive in parts are in `relay_assert`, in the
theorems and in the parser's run.  The second kind of the parser's requests has a body
that looks like the end of a head; its odd lines have blanks and carriage returns in the
wrong places, two Content-Lengths, and lengths that are negative, signed, preceded by a
tab, and too large for the width.  Four functors are enough for a buffer to pass the mark
again while the callbacks of two earlier times are still queued; they bound the sum over
both queues, so that a loop is never kept from running what it has.  Three connections
over two loops go once round and on; three descriptors leave two for connections and other
threads next to the spare one.

Deadlock checking is off in all runs: clients need not send anything more, bounds are
reached, and a dead worker takes no step.

**Fairness.**  Pool threads loop for ever, so `TakeChunk`, `NotifyPeer` and `RunTask` are
weakly fair for a thread that is not in a task that hangs; that a task returns is not
assumed.  `PublishedRuns` therefore says that a published task is run, or is in the chunk
of a thread that hangs, or no thread is left: a task that spins on line 103 costs its
thread and the rest of its chunk, and no more.  A producer finishes the call it is in;
nothing obliges it to make another. Workers that run finish what they are doing and their
event loops serve a readable eventfd; the master forks and reaps.  An event loop runs what
is queued for it; in `IoThreads` that is strong fairness, because `EventLoop::loop` comes
to its functors after every round of events, also when the acceptor turns round on a
client it has no descriptor for.  The base thread finishes `start()` and `handleRead`.
Peers of a tunnel, clients, kills, clock changes and `notify()` are never fair.

## What is proved

With TLAPS, for every value of the constants that satisfies the named assumption of the
module (`QueueAssumption`, `SchedulingAssumption`, `RelayAssumption`, `CacheAssumption`,
`IoAssumption`, `FlowAssumption`, `ParserAssumption` and `RequestAssumption`).  Every
invariant and every action property that a passing run checks is a theorem; what is left
to TLC is liveness.

*Queue.*  `TypeCorrect` and `WakeupsKept` need nothing more.  The others assume
`AtMostTwoProducers` and rest on `InductiveInvariant` (`IInv`).  `ReadsWhatWasWritten` is
not inductive by itself: one has to know that every chunk, whether being filled, published
or held by a consumer, was reserved in one piece, that chunks do not overlap, that a chunk
granted beyond the first lap was granted while nothing was published, and that each index
below a producer's position has its task in its slot.  From the invariant follow
`ReadsAreRight`, `SlotsDoNotRace`, `TasksAccounted`, `RepeatsExplained`, `RefusalIsFinal`
and `QueueIsPool`, the step simulation of `TaskPool`.

*Scheduling.*  `SchedulingInvariant` (`SInv`) says that the byte is set exactly when there
is a holder, that a worker in its tenure (from its successful `tryLock` to the
compare-and-swap of `unlock`) is that holder, and that it has `owner` set until `unlock`
clears it.  `MutualExclusion`, `UnlockIsOwners`, `ToggleEnables`, `LockIsNotLeaked` and
`HolderFrees` follow, for any number of workers, notifications and kills.

*Relay.*  `RelayInvariant` (`RInv`) has five parts besides the types.  A task's copy
always has the whole request its thread is working on (`CopyInv`).  Every read moves the
end of the buffer, so a task is known by the end of its copy (`TaskInv`), and as long as
no task has run twice the copies of different threads have different ends (`ApartInv`).
As long as the buffer was only taken from by retrieves that nothing tore, no copy starts
beyond the buffer's own start (`BehindInv`): copies fall behind, never ahead.  And one of
three things holds (`HandedInv`): everything handed over has been taken from the buffer;
exactly one thread is between its send and its retrieve, with the request that was handed
over last; or some thread is `Doomed`: what it copied into `http_`, or will, is not the
request it has sent, so that the assertion in `solveOnMessage` will stop the worker.  Two
threads that send the same request cannot both get past it, because `http_` reaches to the
end of the buffer, which is beyond the copy of at least one of them.  That is where
`ApartInv` is needed, and why the claim fails for a task that runs twice: both runs may
copy the buffer before either takes from it, and then both pass. `HandedOnceInOrder`
(`RequestsHandedOnce`) speaks of the moments when nobody is sending, in a worker that
runs.  It claims nothing once the cache has answered, an append has torn a retrieve or a
task has run twice, nor when two requests have the same bytes (`Distinct`), because the
assertion cannot tell those apart.  `ContextStaysOpen` is proved for any number of
tunnels.

*Cache.*  `CacheInvariant` (`CInv`) adds to the checked properties, which hold each other
up, that every `Lru` object is coherent (no url twice in `list_`, each of them in `map_`,
each page a page of its url: `ObjectInv`), whatever an unlocked `splice` or `erase` has
scrambled; that Redis has under each key what some update can store there once
`redisCommand` has formatted it (`RedisInv`, with a proof that `Unquote` undoes `Quote`
for any page, whatever its characters); and what a reader and a writer have in hand at
each point (`ReaderInv`, `WriterInv`).  `CacheAssumption` gives the model more objects
than readers, so that a copy always finds a free one, and clocks that differ by no more
than the expiry time.  `AnswersAreRight` is about the urls in `Untouched`;
`PlainTextIsSafe` shows that these are all urls where neither urls nor pages have a `%` or
a NUL.  It lets the text of a refusal through, which is what the code returns, against the
design document: `MissFallsThrough` forbids it, and the nil reply that ends the worker,
and `cache_miss` violates it.

*I/O threads.*  `IoInvariant` (`IInv`): threads 1, 2, ... are up in this order and in no
other state than `start()` left them (`StartInv`); names and descriptors of connections that
are not destroyed are their own (`DealInv`, `FdInv`); a functor is queued at most once, in
the loop it belongs to, for a connection in the state it expects (`QueueInv`); and until
`connectDestroyed` a connection is in `connections_` or in such a functor (`HeldInv`).
`LoopsAreLive`, `ProducerMapSettles`, `HeldUntilTheEnd` and `ClosesOnlyItsOwn` follow.

*Flow control.*  `FlowInvariant` (`FInv`): callbacks, set on a connection or queued, are
bound to tunnels that are set up, those of a tunnel's own connection to that tunnel
(`CallbackInv`, `QueuedInv`), and a connection that was never up has not been stopped
(`FreshInv`).  With these `ReaderWakes` is inductive: `onHighWaterMark` stops a reader only
with output left and the write-complete callback set, emptying the buffer queues that
callback, and running it starts the reader.  `WakeupsKept` covers what the run's single
tunnel cannot: towards the client it holds for any number of tunnels.

*Parser.*  The prover knows nothing of a recursive function but its definition by
`CHOOSE`, so the first thing to prove is that there is such a function: `ListFacts` shows,
by a least counterexample, that a loop that uses up a measure ends somewhere from every
state (`LoopFunction`), and `ScanEquation` uses it for the header loop, each turn of which
leaves less of the buffer.  The digits of a number and the concatenation of requests
(`RecursiveFunction`, `FlattenExists`) go the same way, and induction is over sets of
numbers (`IntervalInduction`, `SizeInduction`).  What the parser does is then stated for
any buffer:

* `ParseWithinBuffer`: the length it returns is within the buffer.  `LengthSafe` follows with
  the order of the positions (`LengthInv`).
* `ParseIsStable`: bytes behind a complete request change nothing.  `StableVerdict` is this
  for each read.
* `ParseIsReference`: it accepts what the reference accepts, with the same length.  The loop
  invariant is `Past`: all header lines so far have a colon, and `bodySize` is what the last
  `Content-Length` among them says, modulo `Wrap`.  `ReferenceSafe` is this at every moment.
* `WellFormedRecognised`: a well-formed request on its own is taken whole, with its method
  and url.  By stability it still is with more requests behind it, and no part of it is
  taken before it is whole: that part would have to have the length of the whole.  This gives
  `SplitSafe`, by `SplitInv`: the loop, the buffer and every copy that waits stand at the end
  of some request (`Boundary`), and the context is empty whenever a request is about to be
  parsed for the first time.  That context is why `reset` matters.  Nothing is claimed of
  method and url after a second parse (`LookAgain`), nor of anything after a task has taken
  from the buffer a request it did not look at (`stale`): the length is then still that of
  a whole request, but not of the one that is there.

Only `WellFormedRecognised` and `SplitSafe` need `RequestAssumption`.

Only model-checked: liveness (`PublishedRuns`, `StartupListens`, `NotificationTakesOver`,
`StoppedIsStarted`, `StartCompletes`, `ClosedIsDestroyed`), because TLAPS does not do
fairness.  What a recursive definition computes is proved only as far as the properties
need it: that `Number` of a text is a number, not which.  The reference of
`ParsesAsReference` reads numbers with the same `Number`, and names of headers in the same
case, so it says nothing about either.

## Not modelled

The memory checker and signal handling (no effect), destructors, muduo
itself (used through its interface) and the kernel's spreading of connections over
`SO_REUSEPORT` sockets are left out.  `std::map` operations on `tunnels` are atomic in
`RequestRelay`, although nothing protects them.  `TunnelFlow` is written for any number of
tunnels of a connection and checked with one: racing tasks can create a second, whose
callbacks replace the first's, and then `BackendReaderWakes` claims nothing.
