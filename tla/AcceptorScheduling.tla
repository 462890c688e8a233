------------------------- MODULE AcceptorScheduling -------------------------
(***************************************************************************)
(* Which worker process accepts connections: Process/ (MasterProcess,      *)
(* WorkerProcess, ProcessMutex) with the parts of ProxyServer, TcpServer   *)
(* and Acceptor that start and stop listening.                             *)
(*                                                                         *)
(* One byte of shared memory is the lock; the worker that holds it         *)
(* listens.  A worker with too many connections stops listening, frees the *)
(* lock and writes to an eventfd meant to be the next worker's; a worker   *)
(* whose eventfd is readable tries to take the lock.  A step is what one   *)
(* process does between two accesses to the shared byte or to an eventfd.  *)
(***************************************************************************)
EXTENDS Integers

CONSTANTS
  NumWorkers,      \* processNum - 1
  MaxConnections,  \* MAX_CONNECTIONS_NUM, 512 in the code
  ConnBound,       \* bound: connections of one worker
  NotifyBudget,    \* bound: calls of MasterProcess::notify; 0 is the program as shipped
  CrashBudget      \* bound: workers killed from outside

ASSUME SchedulingAssumption ==
  /\ NumWorkers \in Nat \ {0}
  /\ MaxConnections \in Nat /\ ConnBound \in Nat
  /\ NotifyBudget \in Nat /\ CrashBudget \in Nat

Workers == 0..(NumWorkers - 1)

VARIABLES
  lock,         \* *ProcessMutex::shmAddr, shared
  owner,        \* ProcessMutex::owner of each worker
  pc,           \* where each worker process is
  listening,    \* Acceptor::listenning_, and its channel enabled
  isStart,      \* ProxyServer::isStart
  handler,      \* slot captured by notifyOtherWorkerToListen, or NoHandler
  aged,         \* time(nullptr) - TcpServer::startListenTime > 10
  nconn,        \* TcpServer::connections_.size()
  poolThreads,  \* MyThreadPool::threads.size()
  evt,          \* counter of each worker's eventfd
  notifyId,     \* MasterProcess::notifyId
  spinners,     \* children forked by checkWorkerExit that never leave its loop
  reaped,       \* workers whose exit the master has collected
  crashes,      \* workers killed so far
  holder        \* history: who made the last successful tryLock not yet undone

serverVars == <<isStart, handler, aged, nconn, poolThreads>>
masterVars == <<notifyId, spinners, reaped, crashes>>
lockVars == <<lock, owner, holder>>
vars == <<lockVars, pc, listening, serverVars, evt, masterVars>>

NoHandler == -1    \* an empty std::function
Nobody == -1
Free == 0
Taken == 1

PcValues == {"unborn", "start", "enable", "loop", "notifyNext", "unlock", "free", "write", "dead"}

TypeOK ==
  /\ lock \in {Free, Taken}
  /\ owner \in [Workers -> BOOLEAN]
  /\ pc \in [Workers -> PcValues]
  /\ listening \in [Workers -> BOOLEAN]
  /\ isStart \in [Workers -> BOOLEAN]
  /\ handler \in [Workers -> 0..NumWorkers \cup {NoHandler}]
  /\ aged \in [Workers -> BOOLEAN]
  /\ nconn \in [Workers -> 0..ConnBound]
  /\ poolThreads \in [Workers -> Nat]
  /\ evt \in [Workers -> Nat]
  /\ notifyId \in 0..NotifyBudget
  /\ spinners \in Nat
  /\ reaped \in [Workers -> BOOLEAN]
  /\ crashes \in 0..CrashBudget
  /\ holder \in Workers \cup {Nobody}

\* The worker's ProcessMutex constructor leaves owner unset and the TcpServer
\* constructor startListenTime: both start with any value.
Init ==
  /\ lock = Free
  /\ owner \in [Workers -> BOOLEAN]
  /\ pc = [w \in Workers |-> "unborn"]
  /\ listening = [w \in Workers |-> FALSE]
  /\ isStart = [w \in Workers |-> FALSE]
  /\ handler = [w \in Workers |-> NoHandler]
  /\ aged \in [Workers -> BOOLEAN]
  /\ nconn = [w \in Workers |-> 0]
  /\ poolThreads = [w \in Workers |-> 0]
  /\ evt = [w \in Workers |-> 0]
  /\ notifyId = 0
  /\ spinners = 0
  /\ reaped = [w \in Workers |-> FALSE]
  /\ crashes = 0
  /\ holder = Nobody

Alive(w) == pc[w] \notin {"unborn", "dead"}
AllForked == \A w \in Workers : pc[w] # "unborn"
Goto(w, label) == pc' = [pc EXCEPT ![w] = label]

-----------------------------------------------------------------------------
(* MasterProcess *)

\* The loop of MasterProcess::start forks the workers in order; each constructs its
\* WorkerProcess and calls start(), up to ProxyServer::start.
Fork(w) ==
  /\ pc[w] = "unborn"
  /\ \A v \in Workers : v < w => pc[v] # "unborn"
  /\ Goto(w, "start")
  /\ UNCHANGED <<lockVars, listening, serverVars, evt, masterVars>>

\* notify() wakes the workers in turn.  No code calls it.
Notify ==
  /\ AllForked /\ notifyId < NotifyBudget
  /\ evt' = [evt EXCEPT ![notifyId % NumWorkers] = @ + 1]
  /\ notifyId' = notifyId + 1
  /\ UNCHANGED <<lockVars, pc, listening, serverVars, spinners, reaped, crashes>>

\* One turn of checkWorkerExit: the test after the fork is on the pid of the dead
\* worker, so parent and child both go round again; the child has nothing to wait for.
CheckWorkerExit(w) ==
  /\ AllForked /\ pc[w] = "dead" /\ ~reaped[w]
  /\ reaped' = [reaped EXCEPT ![w] = TRUE]
  /\ spinners' = spinners + 1
  /\ UNCHANGED <<lockVars, pc, listening, serverVars, evt, notifyId, crashes>>

-----------------------------------------------------------------------------
(* The end of a worker process: the kernel closes its sockets; the shared byte *)
(* stays as it is.                                                             *)

Die(w) ==
  /\ Goto(w, "dead")
  /\ listening' = [listening EXCEPT ![w] = FALSE]
  /\ nconn' = [nconn EXCEPT ![w] = 0]

Crash(w) ==
  /\ Alive(w) /\ crashes < CrashBudget
  /\ Die(w)
  /\ crashes' = crashes + 1
  /\ UNCHANGED <<lockVars, isStart, handler, aged, poolThreads, evt, notifyId, spinners, reaped>>

-----------------------------------------------------------------------------
(* ProxyServer::start: four more pool threads, tryLock, enableListen. *)

\* Broken variant: the result of the compare-and-swap is not looked at.
CanLockAlways == TRUE

CanLock == lock = Free

\* Broken variant: owner is not set.
TakeLockUnowned(w) == lock' = Taken /\ holder' = w /\ UNCHANGED owner

TakeLock(w) == lock' = Taken /\ holder' = w /\ owner' = [owner EXCEPT ![w] = TRUE]

\* Broken variant: the loser of the race gives the lock back too.
StartReleasing(w) ==
  /\ pc[w] = "start"
  /\ poolThreads' = [poolThreads EXCEPT ![w] = @ + 4]
  /\ \/ CanLock /\ TakeLock(w) /\ Goto(w, "enable")
     \/ ~CanLock /\ UNCHANGED lockVars /\ Goto(w, "unlock")
  /\ UNCHANGED <<listening, isStart, handler, aged, nconn, evt, masterVars>>

Start(w) ==
  /\ pc[w] = "start"
  /\ poolThreads' = [poolThreads EXCEPT ![w] = @ + 4]
  /\ \/ CanLock /\ TakeLock(w) /\ Goto(w, "enable")
     \/ ~CanLock /\ UNCHANGED lockVars /\ Goto(w, "loop")
  /\ UNCHANGED <<listening, isStart, handler, aged, nconn, evt, masterVars>>

\* Broken variant: it only ever enables.
EnableOnly(w) == listening' = [listening EXCEPT ![w] = TRUE] /\ UNCHANGED aged

\* TcpServer::acceptorSchedulingHandler: a toggle.
AcceptorSchedulingHandler(w) ==
  \/ /\ listening[w]
     /\ listening' = [listening EXCEPT ![w] = FALSE]
     /\ UNCHANGED aged
  \/ /\ ~listening[w]
     /\ listening' = [listening EXCEPT ![w] = TRUE]
     /\ aged' = [aged EXCEPT ![w] = FALSE]

\* Broken variant: the channel is not enabled.
ListenNot(w) == UNCHANGED listening

\* TcpServer::start and Acceptor::listen, the first time.
Listen(w) == listening' = [listening EXCEPT ![w] = TRUE]

EnableListen(w) ==
  /\ pc[w] = "enable"
  /\ \/ ~isStart[w] /\ Listen(w) /\ isStart' = [isStart EXCEPT ![w] = TRUE] /\ UNCHANGED aged
     \/ isStart[w] /\ AcceptorSchedulingHandler(w) /\ UNCHANGED isStart
  /\ Goto(w, "loop")
  /\ UNCHANGED <<lockVars, handler, nconn, poolThreads, evt, masterVars>>

-----------------------------------------------------------------------------
(* The event loop of a worker. *)

\* Time goes by while w listens.
Age(w) ==
  /\ listening[w] /\ ~aged[w]
  /\ aged' = [aged EXCEPT ![w] = TRUE]
  /\ UNCHANGED <<lockVars, pc, listening, isStart, handler, nconn, poolThreads, evt, masterVars>>

\* Acceptor::handleRead and TcpServer::newConnection; the connection that is one too
\* many makes the worker stop listening.
NewConnection(w) ==
  /\ pc[w] = "loop" /\ listening[w] /\ nconn[w] < ConnBound
  /\ nconn' = [nconn EXCEPT ![w] = @ + 1]
  /\ IF nconn[w] + 1 > MaxConnections /\ aged[w]
     THEN AcceptorSchedulingHandler(w) /\ Goto(w, "notifyNext")
     ELSE UNCHANGED <<listening, aged, pc>>
  /\ UNCHANGED <<lockVars, isStart, handler, poolThreads, evt, masterVars>>

\* Broken variant: a connection may be removed twice.
RemoveTwice(w) ==
  /\ pc[w] = "loop"
  /\ nconn' = [nconn EXCEPT ![w] = @ - 1]
  /\ UNCHANGED <<lockVars, pc, listening, isStart, handler, aged, poolThreads, evt, masterVars>>

RemoveConnection(w) ==
  /\ pc[w] = "loop" /\ nconn[w] > 0
  /\ nconn' = [nconn EXCEPT ![w] = @ - 1]
  /\ UNCHANGED <<lockVars, pc, listening, isStart, handler, aged, poolThreads, evt, masterVars>>

\* The slot of shmAddr that EventHandler captures.  The array has NumWorkers slots,
\* the modulus is processNum = NumWorkers + 1: the last worker reads beyond it.
NextSlot(w) == (w + 1) % (NumWorkers + 1)

\* Broken variant: the worker is woken up but does not call start().
EventHandlerIdle(w) ==
  /\ pc[w] = "loop" /\ evt[w] > 0
  /\ evt' = [evt EXCEPT ![w] = 0]
  /\ handler' = [handler EXCEPT ![w] = NextSlot(w)]
  /\ UNCHANGED <<lockVars, pc, listening, isStart, aged, nconn, poolThreads, masterVars>>

\* WorkerProcess::EventHandler: read the eventfd, set the handler, call start().
EventHandler(w) ==
  /\ pc[w] = "loop" /\ evt[w] > 0
  /\ evt' = [evt EXCEPT ![w] = 0]
  /\ handler' = [handler EXCEPT ![w] = NextSlot(w)]
  /\ Goto(w, "start")
  /\ UNCHANGED <<lockVars, listening, isStart, aged, nconn, poolThreads, masterVars>>

-----------------------------------------------------------------------------
(* The hand-over: notifyOtherWorkerToListen, set to acceptorScheduling. *)

\* Calling an empty std::function throws, and nothing catches it.
NotifyOtherWorkerToListen(w) ==
  /\ pc[w] = "notifyNext"
  /\ \/ handler[w] = NoHandler /\ Die(w)
     \/ handler[w] # NoHandler /\ Goto(w, "unlock") /\ UNCHANGED <<listening, nconn>>
  /\ UNCHANGED <<lockVars, isStart, handler, aged, poolThreads, evt, masterVars>>

\* ProcessMutex::unlock as far as owner = false.
AssertOwner(w) ==
  /\ pc[w] = "unlock"
  /\ IF owner[w] /\ lock = Taken
     THEN /\ owner' = [owner EXCEPT ![w] = FALSE]
          /\ Goto(w, "free") /\ UNCHANGED <<listening, nconn>>
     ELSE Die(w) /\ UNCHANGED owner
  /\ UNCHANGED <<lock, holder, isStart, handler, aged, poolThreads, evt, masterVars>>

\* Broken variant: the compare-and-swap is forgotten.
FreeLockNot(w) ==
  /\ pc[w] = "free"
  /\ Goto(w, "write")
  /\ UNCHANGED <<lockVars, listening, serverVars, evt, masterVars>>

\* The compare-and-swap of unlock.
FreeLock(w) ==
  /\ pc[w] = "free"
  /\ lock' = Free
  /\ holder' = Nobody
  /\ Goto(w, "write")
  /\ UNCHANGED <<owner, listening, serverVars, evt, masterVars>>

\* The eventfds a worker has: those the master created before forking it.  Any other
\* number read from shmAddr is something else in this process, or nothing.
Inherited(w) == 0..w

\* write(eventFd, &shmId): adds the worker's own number to the counter.
WriteEventFd(w) ==
  /\ pc[w] = "write"
  /\ evt' = IF handler[w] \in Inherited(w) THEN [evt EXCEPT ![handler[w]] = @ + w] ELSE evt
  /\ Goto(w, "loop")
  /\ UNCHANGED <<lockVars, listening, serverVars, masterVars>>

-----------------------------------------------------------------------------
WorkerStep(w) ==
  \/ Start(w) \/ EnableListen(w) \/ EventHandler(w)
  \/ NotifyOtherWorkerToListen(w) \/ AssertOwner(w) \/ FreeLock(w) \/ WriteEventFd(w)

Next ==
  \/ Notify
  \/ \E w \in Workers :
       \/ Fork(w) \/ CheckWorkerExit(w) \/ Crash(w) \/ Age(w)
       \/ NewConnection(w) \/ RemoveConnection(w) \/ WorkerStep(w)

Spec == Init /\ [][Next]_vars

\* The master forks and reaps; a live worker goes on with what it is doing, and its
\* event loop serves a readable eventfd.  Clients, kills and notify() owe nothing.
Fairness ==
  \A w \in Workers :
    /\ WF_vars(Fork(w)) /\ WF_vars(CheckWorkerExit(w))
    /\ WF_vars(Start(w)) /\ WF_vars(EnableListen(w)) /\ WF_vars(EventHandler(w))
    /\ WF_vars(NotifyOtherWorkerToListen(w)) /\ WF_vars(AssertOwner(w))
    /\ WF_vars(FreeLock(w)) /\ WF_vars(WriteEventFd(w))

FairSpec == Spec /\ Fairness

-----------------------------------------------------------------------------
(* Properties. *)

\* The worker is between its successful tryLock and the compare-and-swap of unlock.
InTenure(w) == listening[w] \/ pc[w] \in {"enable", "notifyNext", "unlock", "free"}

\* At most one worker accepts connections, whatever notifications, hand-overs, kills
\* and uninitialised owner flags come together: what the lock and the eventfds are for
\* (MasterProcess.h, "tackle thundering herd of the acceptor").
AtMostOneListening ==
  \A v, w \in Workers : listening[v] /\ listening[w] => v = w

\* The assertion of ProcessMutex::unlock holds whenever it is reached, although the
\* constructor used by workers does not initialise owner.
UnlockAssertion ==
  \A w \in Workers : pc[w] = "unlock" => owner[w] /\ lock = Taken

\* enableListen is only reached with listening off, so the toggle it calls always
\* enables: a notification that finds its worker listening must not switch it off.
EnableFindsDisabled == \A w \in Workers : pc[w] = "enable" => ~listening[w]

\* A live worker never leaves its tenure with the byte still set: the lock is taken
\* only by a worker in its tenure or by one that died in it.
NoLeakedLock ==
  lock = Taken => holder # Nobody /\ (InTenure(holder) \/ pc[holder] = "dead")

\* Only the worker that took the lock frees it, in unlock; in particular nobody ever
\* frees the lock of a dead worker.
OnlyHolderFrees ==
  [][lock = Taken /\ lock' = Free => holder # Nobody /\ pc[holder] = "free"]_vars

\* At start-up some worker wins the race and listens, unless one dies.
StartupListens == <>(\E w \in Workers : listening[w] \/ pc[w] = "dead")

\* A notification that arrives while the lock is free puts somebody in charge, unless
\* the worker it is for dies.
NotificationTakesOver ==
  \A w \in Workers :
    (evt[w] > 0 /\ lock = Free) ~> ((\E v \in Workers : listening[v]) \/ pc[w] = "dead"
                                    \/ (lock = Taken /\ pc[holder] = "dead"))

\* After a hand-over some worker listens: acceptorScheduling is to "unlock" and to
\* "notify next proxy server to start listening".
HandOverListens ==
  \A w \in Workers : (pc[w] = "notifyNext") ~> (\E v \in Workers : listening[v])
=============================================================================
