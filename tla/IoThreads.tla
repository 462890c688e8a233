----------------------------- MODULE IoThreads -----------------------------
(***************************************************************************)
(* One worker's I/O threads: TcpServer::start brings up the loops of       *)
(* EventLoopThreadPool one after the other, then the base loop accepts     *)
(* connections and deals them to the loops, and the loop of a connection   *)
(* and the base loop take it apart together when it closes.                *)
(*                                                                         *)
(* Loop 0 is the base loop.  A loop runs its events and its queue of       *)
(* pending functors one at a time; TcpConnection is muduo's.  What         *)
(* newConnection does for the balance among workers is in                  *)
(* AcceptorScheduling.                                                     *)
(***************************************************************************)
EXTENDS Integers, Sequences, FiniteSets, SequencesExt, FiniteSetsExt

CONSTANTS
  MaxThreads,  \* bound: setThreadNum is called with 0..MaxThreads
  MaxConns,    \* bound: connections accepted
  MaxFds       \* descriptors the process may have open

ASSUME IoAssumption == MaxThreads \in Nat /\ MaxConns \in Nat /\ MaxFds \in Nat \ {0}

Base == 0
Loops == 0..MaxThreads
Conns == 1..MaxConns
Names == 1..MaxConns
Fds == 1..MaxFds
None == 0         \* NULL
NoFd == -1
FirstFd == 1

VARIABLES
  numThreads,   \* numThreads_
  basePc,       \* where the base thread is in start() or in handleRead()
  thread,       \* where each EventLoopThread is
  loopPtr,      \* its loop_
  loops,        \* loops_
  producerMap,  \* the loops with an entry in ProducerMap_
  next,         \* next_, an index that starts at 0
  nextConnId,   \* nextConnId_
  connections,  \* connections_, by name
  name, loopOf, fdOf, state,   \* of each TcpConnection
  accepted,     \* how many there have been
  fds,          \* who has each descriptor
  idleFd,       \* idleFd_
  queue,        \* pending functors of each loop
  fault         \* why the worker process died, or "none"

startVars == <<numThreads, thread, loopPtr, loops, producerMap>>
dealVars == <<next, nextConnId, accepted, name, loopOf, fdOf>>
connVars == <<dealVars, connections, state>>
vars == <<startVars, basePc, connVars, fds, idleFd, queue, fault>>

Functors == [do : {"established", "remove", "destroyed"}, conn : Conns]
Functor(do, c) == [do |-> do, conn |-> c]

TypeOK ==
  /\ numThreads \in 0..MaxThreads
  /\ basePc \in {"spawn", "test", "sleep", "push", "listen", "loop", "accept", "close", "open"}
  /\ thread \in [Loops -> {"none", "init", "publish", "looping"}]
  /\ loopPtr \in [Loops -> Loops]
  /\ loops \in Seq(Loops)
  /\ producerMap \subseteq Loops
  /\ next \in Nat /\ (loops # <<>> => next < Len(loops))
  /\ nextConnId \in 1..(MaxConns + 1)
  /\ connections \in [Names -> Conns \cup {None}]
  /\ name \in [Conns -> Names \cup {None}]
  /\ loopOf \in [Conns -> Loops]
  /\ fdOf \in [Conns -> Fds \cup {NoFd}]
  /\ state \in [Conns -> {"none", "connecting", "connected", "disconnected", "destroyed"}]
  /\ accepted \in 0..MaxConns
  /\ fds \in [Fds -> {"free", "idle", "conn", "refused", "other"}]
  /\ idleFd \in Fds \cup {NoFd}
  /\ queue \in [Loops -> Seq(Functors)]
  /\ fault \in {"none", "wildProducer", "eraseAssertion"}

\* server.start() of the first enableListen; the Acceptor has opened /dev/null.
Init ==
  /\ numThreads \in 0..MaxThreads
  /\ basePc = IF numThreads = 0 THEN "listen" ELSE "spawn"
  /\ thread = [l \in Loops |-> "none"]
  /\ loopPtr = [l \in Loops |-> None]
  /\ loops = <<>> /\ producerMap = {} /\ next = 0
  /\ nextConnId = 1 /\ accepted = 0
  /\ connections = [n \in Names |-> None]
  /\ name = [c \in Conns |-> None] /\ loopOf = [c \in Conns |-> Base]
  /\ fdOf = [c \in Conns |-> NoFd] /\ state = [c \in Conns |-> "none"]
  /\ idleFd = FirstFd
  /\ fds = [f \in Fds |-> IF f = FirstFd THEN "idle" ELSE "free"]
  /\ queue = [l \in Loops |-> <<>>]
  /\ fault = "none"

Running == fault = "none"

Die(cause) ==
  /\ fault' = cause
  /\ UNCHANGED <<startVars, connVars, basePc, fds, idleFd, queue>>

\* The base thread goes on in start() or in handleRead().
Goes(here, there) == Running /\ basePc = here /\ basePc' = there

-----------------------------------------------------------------------------
(* EventLoopThreadPool::start and EventLoopThread *)

\* The thread start() is busy with.
Current == Len(loops) + 1

\* new EventLoopThread, and startLoop up to its lock.
SpawnThread ==
  /\ Goes("spawn", "test")
  /\ thread' = [thread EXCEPT ![Current] = "init"]
  /\ UNCHANGED <<numThreads, loopPtr, loops, producerMap, connVars, fds, idleFd, queue, fault>>

\* Broken variant: startLoop waits without looking at loop_ first.
TestLoopNot ==
  /\ Goes("test", "sleep")
  /\ UNCHANGED <<startVars, connVars, fds, idleFd, queue, fault>>

\* The test of the while loop, under mutex_.
TestLoop ==
  /\ Goes("test", IF loopPtr[Current] = None THEN "sleep" ELSE "push")
  /\ UNCHANGED <<startVars, connVars, fds, idleFd, queue, fault>>

\* Broken variant: if instead of while.
WakeSpuriouslyOut ==
  /\ Goes("sleep", "push")
  /\ UNCHANGED <<startVars, connVars, fds, idleFd, queue, fault>>

\* cond_.wait() may return by itself.
WakeSpuriously ==
  /\ Goes("sleep", "test")
  /\ UNCHANGED <<startVars, connVars, fds, idleFd, queue, fault>>

\* Broken variant: one thread short.
AllStartedEarly(n) == n + 1 >= numThreads

AllStarted(n) == n >= numThreads

\* startLoop returns; the loop gets its entry in ProducerMap_, the Producer pointer nobody
\* has assigned.
PushLoop ==
  /\ Goes("push", IF AllStarted(Len(loops) + 1) THEN "listen" ELSE "spawn")
  /\ loops' = Append(loops, Current)
  /\ producerMap' = producerMap \cup {Current}
  /\ UNCHANGED <<numThreads, thread, loopPtr, connVars, fds, idleFd, queue, fault>>

\* initCallback_(producer_, &loop): threadInitCallback keeps the new Producer to itself.
ThreadInit(l) ==
  /\ Running /\ thread[l] = "init"
  /\ thread' = [thread EXCEPT ![l] = "publish"]
  /\ UNCHANGED <<numThreads, loopPtr, loops, producerMap, basePc, connVars, fds, idleFd,
                 queue, fault>>

\* The locked part of threadFunc; then the thread is in loop.loop() for good.
PublishLoop(l) ==
  /\ Running /\ thread[l] = "publish"
  /\ thread' = [thread EXCEPT ![l] = "looping"]
  /\ loopPtr' = [loopPtr EXCEPT ![l] = l]
  /\ basePc' = IF basePc = "sleep" THEN "test" ELSE basePc
  /\ UNCHANGED <<numThreads, loops, producerMap, connVars, fds, idleFd, queue, fault>>

\* runInLoop(Acceptor::listen)
Listen ==
  /\ Goes("listen", "loop")
  /\ UNCHANGED <<startVars, connVars, fds, idleFd, queue, fault>>

-----------------------------------------------------------------------------
(* Acceptor::handleRead and TcpServer::newConnection *)

FreeFds == {f \in Fds : fds[f] = "free"}

\* handleRead's accept() gives a descriptor, or EMFILE.
AcceptSucceeds == FreeFds # {}

\* Broken variant: the end is tested too late.
NextIndexBeyond == IF next + 1 > Len(loops) THEN 0 ELSE next + 1

NextIndex == IF next + 1 >= Len(loops) THEN 0 ELSE next + 1

\* getNextLoop
NextLoop == IF loops = <<>> THEN Base ELSE loops[next + 1]

NextId == nextConnId + 1

\* accept() gives a descriptor, the lowest free one.  connectEstablished runs at once on
\* the base loop, and on another loop when that loop comes to it.
NewConnection ==
  LET c == accepted + 1
      f == Min(FreeFds)
  IN /\ Running /\ basePc = "loop" /\ accepted < MaxConns /\ AcceptSucceeds
     /\ accepted' = c
     /\ fds' = [fds EXCEPT ![f] = "conn"]
     /\ fdOf' = [fdOf EXCEPT ![c] = f]
     /\ loopOf' = [loopOf EXCEPT ![c] = NextLoop]
     /\ next' = IF loops = <<>> THEN next ELSE NextIndex
     /\ name' = [name EXCEPT ![c] = nextConnId]
     /\ nextConnId' = NextId
     /\ connections' = [connections EXCEPT ![nextConnId] = c]
     /\ IF NextLoop = Base
        THEN state' = [state EXCEPT ![c] = "connected"] /\ UNCHANGED queue
        ELSE /\ state' = [state EXCEPT ![c] = "connecting"]
             /\ queue' = [queue EXCEPT ![NextLoop] = Append(@, Functor("established", c))]
     /\ UNCHANGED <<startVars, basePc, idleFd, fault>>

Closed(f) == IF f = NoFd THEN fds ELSE [fds EXCEPT ![f] = "free"]

\* idleFd_ becomes the lowest free descriptor, or -1.
IdleFor(use) ==
  /\ AcceptSucceeds
  /\ idleFd' = Min(FreeFds)
  /\ fds' = [fds EXCEPT ![Min(FreeFds)] = use]
IdleLost == idleFd' = NoFd /\ UNCHANGED fds

\* accept() fails with EMFILE: idleFd_ is closed, to make room for the client's.
HandleReadFull ==
  /\ Goes("loop", "accept") /\ ~AcceptSucceeds
  /\ fds' = Closed(idleFd)
  /\ UNCHANGED <<startVars, connVars, idleFd, queue, fault>>

\* Broken variant: idleFd_ is assigned only when accept() succeeds.
AcceptRefusedIfAny ==
  /\ Goes("accept", "close")
  /\ IdleFor("refused") \/ UNCHANGED <<idleFd, fds>>
  /\ UNCHANGED <<startVars, connVars, queue, fault>>

\* idleFd_ = accept(): another thread may have taken the descriptor, or the client is gone.
AcceptRefused ==
  /\ Goes("accept", "close")
  /\ IdleFor("refused") \/ IdleLost
  /\ UNCHANGED <<startVars, connVars, queue, fault>>

CloseRefused ==
  /\ Goes("close", "open")
  /\ fds' = Closed(idleFd)
  /\ UNCHANGED <<startVars, connVars, idleFd, queue, fault>>

\* /dev/null is opened again.
OpenIdle ==
  /\ Goes("open", "loop")
  /\ IdleFor("idle") \/ (~AcceptSucceeds /\ IdleLost)
  /\ UNCHANGED <<startVars, connVars, queue, fault>>

\* Pool threads connect to Redis and to the web server, and drop connections they held.
OtherFd(f) ==
  /\ Running
  /\ \/ FreeFds # {} /\ f = Min(FreeFds) /\ fds' = [fds EXCEPT ![f] = "other"]
     \/ fds[f] = "other" /\ fds' = [fds EXCEPT ![f] = "free"]
  /\ UNCHANGED <<startVars, connVars, basePc, idleFd, queue, fault>>

-----------------------------------------------------------------------------
(* A connection on its loop, and its removal *)

\* The base thread is in its loop unless it is in the middle of a handler.
InLoop(l) == IF l = Base THEN basePc = "loop" ELSE thread[l] = "looping"
Runs(f, l) == Running /\ InLoop(l) /\ queue[l] # <<>> /\ Head(queue[l]) = f

ConnectEstablished(l, c) ==
  /\ Runs(Functor("established", c), l)
  /\ state' = [state EXCEPT ![c] = "connected"]
  /\ queue' = [queue EXCEPT ![l] = Tail(@)]
  /\ UNCHANGED <<startVars, dealVars, basePc, connections, fds, idleFd, fault>>

\* getProducer finds an entry.
HasProducer(l) == l \in producerMap

\* onServerMessage: without an entry, or with a null pointer in it, the message is left
\* alone; any other pointer is a wild one.
OnServerMessage(c) ==
  /\ Running /\ state[c] = "connected" /\ InLoop(loopOf[c])
  /\ \/ UNCHANGED vars
     \/ HasProducer(loopOf[c]) /\ Die("wildProducer")

\* Broken variant: connectDestroyed is not queued.
RemoveConnectionInLoopOnly(c, q) ==
  \/ /\ connections[name[c]] # None
     /\ connections' = [connections EXCEPT ![name[c]] = None]
     /\ queue' = q
     /\ UNCHANGED fault
  \/ /\ connections[name[c]] = None
     /\ fault' = "eraseAssertion"
     /\ UNCHANGED <<connections, queue>>

\* erase, its assertion, and connectDestroyed for the connection's loop; q is the queues
\* without the functor this runs as.
RemoveConnectionInLoop(c, q) ==
  \/ /\ connections[name[c]] # None
     /\ connections' = [connections EXCEPT ![name[c]] = None]
     /\ queue' = [q EXCEPT ![loopOf[c]] = Append(@, Functor("destroyed", c))]
     /\ UNCHANGED fault
  \/ /\ connections[name[c]] = None
     /\ fault' = "eraseAssertion"
     /\ UNCHANGED <<connections, queue>>

\* The peer closes: handleClose, and through the close callback removeConnection.
RemoveConnection(c) ==
  /\ Running /\ state[c] = "connected" /\ InLoop(loopOf[c])
  /\ state' = [state EXCEPT ![c] = "disconnected"]
  /\ IF loopOf[c] = Base
     THEN RemoveConnectionInLoop(c, queue)
     ELSE /\ queue' = [queue EXCEPT ![Base] = Append(@, Functor("remove", c))]
          /\ UNCHANGED <<connections, fault>>
  /\ UNCHANGED <<startVars, dealVars, basePc, fds, idleFd>>

RunRemove(c) ==
  /\ Runs(Functor("remove", c), Base)
  /\ RemoveConnectionInLoop(c, [queue EXCEPT ![Base] = Tail(@)])
  /\ UNCHANGED <<startVars, dealVars, basePc, state, fds, idleFd>>

\* connectDestroyed.  The last reference closes the socket: this one, or one that a task
\* or a Tunnel still has.
ConnectDestroyed(l, c) ==
  /\ Runs(Functor("destroyed", c), l)
  /\ state' = [state EXCEPT ![c] = "destroyed"]
  /\ \E holder \in {"free", "other"} : fds' = [fds EXCEPT ![fdOf[c]] = holder]
  /\ queue' = [queue EXCEPT ![l] = Tail(@)]
  /\ UNCHANGED <<startVars, dealVars, basePc, connections, idleFd, fault>>

-----------------------------------------------------------------------------
Start == SpawnThread \/ TestLoop \/ PushLoop \/ Listen
HandleReadRest == AcceptRefused \/ CloseRefused \/ OpenIdle
ThreadFunc(l) == ThreadInit(l) \/ PublishLoop(l)
RunPending(l) ==
  \E c \in Conns :
    ConnectEstablished(l, c) \/ ConnectDestroyed(l, c) \/ (l = Base /\ RunRemove(c))

Next ==
  \/ Start \/ WakeSpuriously
  \/ NewConnection \/ HandleReadFull \/ HandleReadRest
  \/ \E l \in Loops : ThreadFunc(l) \/ RunPending(l)
  \/ \E c \in Conns : OnServerMessage(c) \/ RemoveConnection(c)
  \/ \E f \in Fds : OtherFd(f)

Spec == Init /\ [][Next]_vars

\* Threads run.  A loop comes to its pending functors after every round of events, however
\* many events there are.  Clients, peers and pool threads owe nothing.
FairSpec ==
  /\ Spec
  /\ WF_vars(Start) /\ WF_vars(HandleReadRest)
  /\ \A l \in Loops : WF_vars(ThreadFunc(l)) /\ SF_vars(RunPending(l))

-----------------------------------------------------------------------------
(* Properties *)

Dealt == {c \in Conns : state[c] # "none"}

\* A loop in loops_ is one its thread has published and runs: startLoop never hands out
\* the NULL it waits for, whatever wakes it.
OnlyLiveLoops == \A l \in Range(loops) : thread[l] = "looping" /\ loopPtr[l] = l

\* I/O threads look ProducerMap_ up without a lock.  They may: by the time a connection
\* exists every thread is up, has its entry, and nothing is inserted any more.
MapSettled ==
  Dealt # {} => /\ basePc \in {"loop", "accept", "close", "open"}
                /\ Len(loops) = numThreads /\ producerMap = Range(loops)

\* TcpConnection must not be destroyed while its channel is registered: until then
\* connections_ or a queued functor has a reference, also between the erase on the base
\* loop and connectDestroyed on the connection's own.  It is erased once, under its own
\* name: assert(n == 1), TcpServer.cpp:130.
HeldUntilDestroyed ==
  /\ fault # "eraseAssertion"
  /\ Running =>
       \A c \in Dealt :
         state[c] = "destroyed" \/ c \in Range(connections)
           \/ \E l \in Loops : \E f \in Range(queue[l]) : f.conn = c /\ f.do = "destroyed"

\* The descriptor handleRead closes is the Acceptor's own, /dev/null or the client it
\* refuses, although the number may have been given to another thread's socket meanwhile.
IdleFdIsOwn ==
  idleFd # NoFd => /\ basePc \notin {"accept", "close", "open"} => fds[idleFd] = "idle"
                   /\ basePc = "close" => fds[idleFd] = "refused"

\* start() comes to an end: the notification of a thread that is faster than startLoop
\* is not lost.
StartCompletes == <>(basePc = "loop" \/ ~Running)

\* A connection that has closed is taken off its poller and released, however busy the
\* acceptor is with connections it has no descriptor for.
ClosedIsDestroyed ==
  \A c \in Conns : (state[c] = "disconnected") ~> (state[c] = "destroyed" \/ ~Running)
=============================================================================
