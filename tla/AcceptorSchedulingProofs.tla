---------------------- MODULE AcceptorSchedulingProofs ----------------------
(***************************************************************************)
(* Proofs about AcceptorScheduling, for every number of workers, limit on  *)
(* connections, number of notifications and number of kills.               *)
(***************************************************************************)
EXTENDS AcceptorScheduling, TLAPS

(* The inductive invariant, in named parts. *)

\* The byte is set exactly while some tryLock has not been undone.
LockInv == lock = Taken <=> holder # Nobody

\* Whoever is in its tenure is the holder, and the holder is in its tenure or dead.
TenureInv ==
  /\ \A w \in Workers : InTenure(w) => holder = w
  /\ holder # Nobody => InTenure(holder) \/ pc[holder] = "dead"

\* Listening goes with the event loop, or with a wake-up that will find the byte set.
ListenInv == \A w \in Workers : listening[w] => pc[w] \in {"loop", "start"}

\* The uninitialised owner flag has been set by the time unlock reads it.
OwnerInv == \A w \in Workers : InTenure(w) /\ pc[w] # "free" => owner[w]

SInv == TypeOK /\ LockInv /\ TenureInv /\ ListenInv /\ OwnerInv

-----------------------------------------------------------------------------
LEMMA WorkerSlots ==
  /\ NumWorkers \in Nat /\ 0 < NumWorkers
  /\ \A n \in Nat : n % NumWorkers \in Workers
  /\ \A w \in Workers : NextSlot(w) \in 0..NumWorkers /\ Inherited(w) \subseteq Workers
  /\ Nobody \notin Workers
  BY SchedulingAssumption DEF Workers, NextSlot, Inherited, Nobody

LEMMA DieType ==
  ASSUME TypeOK, NEW w \in Workers, Die(w)
  PROVE  /\ pc' \in [Workers -> PcValues]
         /\ listening' \in [Workers -> BOOLEAN]
         /\ nconn' \in [Workers -> 0..ConnBound]
  BY SchedulingAssumption DEF TypeOK, Die, Goto, PcValues

LEMMA ToggleType ==
  ASSUME TypeOK, NEW w \in Workers, AcceptorSchedulingHandler(w)
  PROVE  listening' \in [Workers -> BOOLEAN] /\ aged' \in [Workers -> BOOLEAN]
  BY DEF TypeOK, AcceptorSchedulingHandler

\* Every step of the master, of a worker or of the environment keeps the state well
\* typed.
LEMMA TypeStep == TypeOK /\ [Next]_vars => TypeOK'
<1> SUFFICES ASSUME TypeOK, [Next]_vars PROVE TypeOK'
  OBVIOUS
<1>1. CASE Notify
  <2>1. evt' \in [Workers -> Nat]
    <3>1. notifyId \in Nat /\ notifyId % NumWorkers \in Workers
      BY WorkerSlots DEF TypeOK
    <3> QED BY <1>1, <3>1 DEF Notify, TypeOK
  <2>2. notifyId' \in 0..NotifyBudget
    BY <1>1, SchedulingAssumption DEF Notify, TypeOK
  <2> QED BY <1>1, <2>1, <2>2 DEF TypeOK, Notify, lockVars, serverVars
<1>2. ASSUME NEW w \in Workers, Fork(w) PROVE TypeOK'
  BY <1>2 DEF TypeOK, Fork, Goto, PcValues, lockVars, serverVars, masterVars
<1>3. ASSUME NEW w \in Workers, CheckWorkerExit(w) PROVE TypeOK'
  BY <1>3 DEF TypeOK, CheckWorkerExit, lockVars, serverVars
<1>4. ASSUME NEW w \in Workers, Crash(w) PROVE TypeOK'
  <2>1. crashes' \in 0..CrashBudget
    BY <1>4, SchedulingAssumption DEF Crash, TypeOK
  <2> QED BY <1>4, <2>1, DieType DEF TypeOK, Crash, lockVars
<1>5. ASSUME NEW w \in Workers, Age(w) PROVE TypeOK'
  BY <1>5 DEF TypeOK, Age, lockVars, masterVars
<1>6. ASSUME NEW w \in Workers, NewConnection(w) PROVE TypeOK'
  <2>1. nconn' \in [Workers -> 0..ConnBound]
    BY <1>6, SchedulingAssumption DEF NewConnection, TypeOK
  <2>2. /\ listening' \in [Workers -> BOOLEAN] /\ aged' \in [Workers -> BOOLEAN]
        /\ pc' \in [Workers -> PcValues]
    <3>1. CASE nconn[w] + 1 > MaxConnections /\ aged[w]
      BY <1>6, <3>1, ToggleType DEF NewConnection, Goto, PcValues, TypeOK
    <3>2. CASE ~(nconn[w] + 1 > MaxConnections /\ aged[w])
      BY <1>6, <3>2 DEF NewConnection, TypeOK
    <3> QED BY <3>1, <3>2
  <2> QED BY <1>6, <2>1, <2>2 DEF TypeOK, NewConnection, lockVars, masterVars
<1>7. ASSUME NEW w \in Workers, RemoveConnection(w) PROVE TypeOK'
  <2>1. nconn' \in [Workers -> 0..ConnBound]
    BY <1>7, SchedulingAssumption DEF RemoveConnection, TypeOK
  <2> QED BY <1>7, <2>1 DEF TypeOK, RemoveConnection, lockVars, masterVars
<1>8. ASSUME NEW w \in Workers, Start(w) PROVE TypeOK'
  <2>1. poolThreads' \in [Workers -> Nat]
    BY <1>8 DEF Start, TypeOK
  <2>2. /\ lock' \in {Free, Taken} /\ holder' \in Workers \cup {Nobody}
        /\ owner' \in [Workers -> BOOLEAN] /\ pc' \in [Workers -> PcValues]
    BY <1>8 DEF Start, TakeLock, Goto, PcValues, TypeOK, lockVars
  <2> QED BY <1>8, <2>1, <2>2 DEF TypeOK, Start, masterVars
<1>9. ASSUME NEW w \in Workers, EnableListen(w) PROVE TypeOK'
  <2>1. /\ listening' \in [Workers -> BOOLEAN] /\ aged' \in [Workers -> BOOLEAN]
        /\ isStart' \in [Workers -> BOOLEAN]
    BY <1>9, ToggleType DEF EnableListen, Listen, TypeOK
  <2> QED BY <1>9, <2>1 DEF TypeOK, EnableListen, Goto, PcValues, lockVars, masterVars
<1>10. ASSUME NEW w \in Workers, EventHandler(w) PROVE TypeOK'
  <2>1. handler' \in [Workers -> 0..NumWorkers \cup {NoHandler}]
    BY <1>10, WorkerSlots DEF EventHandler, TypeOK
  <2> QED BY <1>10, <2>1 DEF TypeOK, EventHandler, Goto, PcValues, lockVars, masterVars
<1>11. ASSUME NEW w \in Workers, NotifyOtherWorkerToListen(w) PROVE TypeOK'
  <2>1. /\ pc' \in [Workers -> PcValues] /\ listening' \in [Workers -> BOOLEAN]
        /\ nconn' \in [Workers -> 0..ConnBound]
    BY <1>11, DieType DEF NotifyOtherWorkerToListen, Goto, PcValues, TypeOK
  <2> QED BY <1>11, <2>1 DEF TypeOK, NotifyOtherWorkerToListen, lockVars, masterVars
<1>12. ASSUME NEW w \in Workers, AssertOwner(w) PROVE TypeOK'
  <2>1. /\ pc' \in [Workers -> PcValues] /\ listening' \in [Workers -> BOOLEAN]
        /\ nconn' \in [Workers -> 0..ConnBound] /\ owner' \in [Workers -> BOOLEAN]
    BY <1>12, DieType DEF AssertOwner, Goto, PcValues, TypeOK
  <2> QED BY <1>12, <2>1 DEF TypeOK, AssertOwner, masterVars
<1>13. ASSUME NEW w \in Workers, FreeLock(w) PROVE TypeOK'
  BY <1>13 DEF TypeOK, FreeLock, Goto, PcValues, serverVars, masterVars
<1>14. ASSUME NEW w \in Workers, WriteEventFd(w) PROVE TypeOK'
  <2>1. evt' \in [Workers -> Nat]
    <3>1. w \in Nat
      BY DEF Workers
    <3>2. CASE handler[w] \in Inherited(w)
      <4>1. handler[w] \in Workers
        BY <3>2, WorkerSlots
      <4>2. evt' = [evt EXCEPT ![handler[w]] = @ + w]
        BY <1>14, <3>2 DEF WriteEventFd
      <4>3. evt \in [Workers -> Nat]
        BY DEF TypeOK
      <4>4. \A h \in Workers : [evt EXCEPT ![h] = @ + w] \in [Workers -> Nat]
        BY <3>1, <4>3
      <4> QED BY <4>1, <4>2, <4>4
    <3>3. CASE handler[w] \notin Inherited(w)
      BY <1>14, <3>3 DEF WriteEventFd, TypeOK
    <3> QED BY <3>2, <3>3
  <2> QED BY <1>14, <2>1 DEF TypeOK, WriteEventFd, Goto, PcValues, lockVars, serverVars, masterVars
<1>15. CASE UNCHANGED vars
  BY <1>15 DEF TypeOK, vars, lockVars, serverVars, masterVars
<1> QED BY <1>1, <1>2, <1>3, <1>4, <1>5, <1>6, <1>7, <1>8, <1>9, <1>10, <1>11, <1>12, <1>13,
           <1>14, <1>15 DEF Next, WorkerStep

LEMMA TypeInit == Init => TypeOK
  BY SchedulingAssumption DEF Init, TypeOK, PcValues, NoHandler, Nobody

\* The state of the master, the workers and the shared memory stays well typed: in
\* particular a worker's count of connections never drops below zero.
THEOREM TypeCorrect == Spec => []TypeOK
  BY TypeInit, TypeStep, PTL DEF Spec

-----------------------------------------------------------------------------
\* The steps that touch neither the lock nor the listening flag and stay out of the
\* tenure.
LEMMA FrameKeeps ==
  ASSUME SInv, TypeOK', UNCHANGED <<lock, owner, holder, listening>>,
         NEW w \in Workers,
         \A v \in Workers \ {w} : pc'[v] = pc[v],
         pc'[w] = pc[w] \/ (pc[w] \in {"unborn", "start", "loop", "write"}
                            /\ pc'[w] \in {"start", "loop"})
  PROVE  SInv'
<1>1. \A v \in Workers : InTenure(v)' <=> InTenure(v)
  BY DEF InTenure
<1>2. \A v \in Workers : (pc'[v] = "dead" <=> pc[v] = "dead") /\ (pc'[v] = "free" <=> pc[v] = "free")
  OBVIOUS
<1>3. ListenInv'
  BY DEF SInv, ListenInv
<1>4. LockInv' /\ TenureInv' /\ OwnerInv'
  BY <1>1, <1>2, WorkerSlots DEF SInv, LockInv, TenureInv, OwnerInv, TypeOK
<1> QED BY <1>3, <1>4 DEF SInv

\* The end of a process, from outside or from its own hand-over.
LEMMA DeathKeeps ==
  ASSUME SInv, TypeOK', NEW w \in Workers, Die(w), UNCHANGED <<lock, owner, holder>>
  PROVE  SInv'
<1>1. /\ pc'[w] = "dead" /\ ~listening'[w]
      /\ \A v \in Workers \ {w} : pc'[v] = pc[v] /\ listening'[v] = listening[v]
  BY DEF SInv, TypeOK, Die, Goto
<1>2. ~InTenure(w)' /\ \A v \in Workers \ {w} : InTenure(v)' <=> InTenure(v)
  BY <1>1 DEF InTenure
<1> QED BY <1>1, <1>2 DEF SInv, LockInv, TenureInv, ListenInv, OwnerInv, TypeOK

LEMMA SInvStep == SInv /\ [Next]_vars => SInv'
<1> SUFFICES ASSUME SInv, [Next]_vars PROVE SInv'
  OBVIOUS
<1>0. TypeOK /\ TypeOK'
  BY TypeStep DEF SInv
<1>1. CASE Notify
  <2>1. 0 \in Workers
    BY WorkerSlots DEF Workers
  <2> QED BY <1>0, <1>1, <2>1, FrameKeeps DEF Notify, lockVars
<1>2. ASSUME NEW w \in Workers, Fork(w) PROVE SInv'
  BY <1>0, <1>2, FrameKeeps DEF Fork, Goto, TypeOK, lockVars
<1>3. ASSUME NEW w \in Workers, CheckWorkerExit(w) PROVE SInv'
  BY <1>0, <1>3, FrameKeeps DEF CheckWorkerExit, lockVars
<1>4. ASSUME NEW w \in Workers, Crash(w) PROVE SInv'
  BY <1>0, <1>4, DeathKeeps DEF Crash, lockVars
<1>5. ASSUME NEW w \in Workers, Age(w) PROVE SInv'
  BY <1>0, <1>5, FrameKeeps DEF Age, lockVars
<1>6. ASSUME NEW w \in Workers, NewConnection(w) PROVE SInv'
  <2>1. CASE nconn[w] + 1 > MaxConnections /\ aged[w]
    <3>1. /\ pc'[w] = "notifyNext" /\ ~listening'[w] /\ UNCHANGED <<lock, owner, holder>>
          /\ \A v \in Workers \ {w} : pc'[v] = pc[v] /\ listening'[v] = listening[v]
          /\ InTenure(w) /\ pc[w] = "loop"
      BY <1>0, <1>6, <2>1 DEF NewConnection, AcceptorSchedulingHandler, Goto, TypeOK, lockVars,
                               InTenure
    <3>2. \A v \in Workers : InTenure(v)' <=> InTenure(v)
      BY <3>1 DEF InTenure
    <3> QED BY <1>0, <3>1, <3>2 DEF SInv, LockInv, TenureInv, ListenInv, OwnerInv, TypeOK
  <2>2. CASE ~(nconn[w] + 1 > MaxConnections /\ aged[w])
    BY <1>0, <1>6, <2>2, FrameKeeps DEF NewConnection, lockVars
  <2> QED BY <2>1, <2>2
<1>7. ASSUME NEW w \in Workers, RemoveConnection(w) PROVE SInv'
  BY <1>0, <1>7, FrameKeeps DEF RemoveConnection, lockVars
<1>8. ASSUME NEW w \in Workers, Start(w) PROVE SInv'
  <2>1. CASE lock = Free
    <3>1. holder = Nobody /\ \A v \in Workers : ~InTenure(v)
      BY <2>1, WorkerSlots DEF SInv, LockInv, TenureInv, Free, Taken
    <3>2. /\ lock' = Taken /\ holder' = w /\ owner'[w] /\ pc'[w] = "enable" /\ UNCHANGED listening
          /\ \A v \in Workers \ {w} : pc'[v] = pc[v] /\ owner'[v] = owner[v]
      BY <1>0, <1>8, <2>1 DEF Start, CanLock, TakeLock, Goto, TypeOK
    <3>3. InTenure(w)' /\ \A v \in Workers \ {w} : ~InTenure(v)'
      BY <3>1, <3>2 DEF InTenure
    <3>4. \A v \in Workers : ~listening'[v]
      BY <3>1, <3>2 DEF InTenure
    <3> QED BY <1>0, <3>2, <3>3, <3>4, WorkerSlots
            DEF SInv, LockInv, TenureInv, ListenInv, OwnerInv
  <2>2. CASE lock # Free
    BY <1>0, <1>8, <2>2, FrameKeeps DEF Start, CanLock, Goto, TypeOK, lockVars
  <2> QED BY <2>1, <2>2
<1>9. ASSUME NEW w \in Workers, EnableListen(w) PROVE SInv'
  <2>1. InTenure(w) /\ ~listening[w] /\ pc[w] = "enable"
    BY <1>9 DEF EnableListen, InTenure, SInv, ListenInv
  <2>2. /\ listening'[w] /\ pc'[w] = "loop" /\ UNCHANGED <<lock, owner, holder>>
        /\ \A v \in Workers \ {w} : pc'[v] = pc[v] /\ listening'[v] = listening[v]
    BY <1>0, <1>9, <2>1 DEF EnableListen, Listen, AcceptorSchedulingHandler, Goto, TypeOK, lockVars
  <2>3. \A v \in Workers : InTenure(v)' <=> InTenure(v)
    BY <2>1, <2>2 DEF InTenure
  <2> QED BY <1>0, <2>1, <2>2, <2>3 DEF SInv, LockInv, TenureInv, ListenInv, OwnerInv, TypeOK
<1>10. ASSUME NEW w \in Workers, EventHandler(w) PROVE SInv'
  BY <1>0, <1>10, FrameKeeps DEF EventHandler, Goto, TypeOK, lockVars
<1>11. ASSUME NEW w \in Workers, NotifyOtherWorkerToListen(w) PROVE SInv'
  <2>1. CASE handler[w] = NoHandler
    BY <1>0, <1>11, <2>1, DeathKeeps DEF NotifyOtherWorkerToListen, lockVars
  <2>2. CASE handler[w] # NoHandler
    <3>1. /\ pc[w] = "notifyNext" /\ pc'[w] = "unlock" /\ UNCHANGED <<lock, owner, holder, listening>>
          /\ \A v \in Workers \ {w} : pc'[v] = pc[v]
      BY <1>0, <1>11, <2>2 DEF NotifyOtherWorkerToListen, Goto, TypeOK, lockVars
    <3>2. \A v \in Workers : InTenure(v)' <=> InTenure(v)
      BY <3>1 DEF InTenure
    <3> QED BY <1>0, <3>1, <3>2 DEF SInv, LockInv, TenureInv, ListenInv, OwnerInv, TypeOK
  <2> QED BY <2>1, <2>2
<1>12. ASSUME NEW w \in Workers, AssertOwner(w) PROVE SInv'
  <2>1. InTenure(w) /\ owner[w] /\ lock = Taken /\ pc[w] = "unlock"
    BY <1>12, WorkerSlots DEF AssertOwner, InTenure, SInv, OwnerInv, TenureInv, LockInv
  <2>2. /\ pc'[w] = "free" /\ UNCHANGED <<lock, holder, listening>>
        /\ \A v \in Workers \ {w} : pc'[v] = pc[v] /\ owner'[v] = owner[v]
    BY <1>0, <1>12, <2>1 DEF AssertOwner, Goto, TypeOK
  <2>3. \A v \in Workers : InTenure(v)' <=> InTenure(v)
    BY <2>1, <2>2 DEF InTenure
  <2> QED BY <1>0, <2>1, <2>2, <2>3 DEF SInv, LockInv, TenureInv, ListenInv, OwnerInv, TypeOK
<1>13. ASSUME NEW w \in Workers, FreeLock(w) PROVE SInv'
  <2>1. InTenure(w) /\ holder = w /\ ~listening[w]
    BY <1>13 DEF FreeLock, InTenure, SInv, TenureInv, ListenInv
  <2>2. /\ pc'[w] = "write" /\ lock' = Free /\ holder' = Nobody /\ UNCHANGED <<owner, listening>>
        /\ \A v \in Workers \ {w} : pc'[v] = pc[v]
    BY <1>0, <1>13 DEF FreeLock, Goto, TypeOK
  <2>3. \A v \in Workers : ~InTenure(v)'
    BY <2>1, <2>2 DEF InTenure, SInv, TenureInv
  <2> QED BY <1>0, <2>1, <2>2, <2>3 DEF SInv, LockInv, TenureInv, ListenInv, OwnerInv, Free, Taken
<1>14. ASSUME NEW w \in Workers, WriteEventFd(w) PROVE SInv'
  BY <1>0, <1>14, FrameKeeps DEF WriteEventFd, Goto, TypeOK, lockVars
<1>15. CASE UNCHANGED vars
  <2>1. 0 \in Workers
    BY WorkerSlots DEF Workers
  <2> QED BY <1>0, <1>15, <2>1, FrameKeeps DEF vars, lockVars
<1> QED BY <1>1, <1>2, <1>3, <1>4, <1>5, <1>6, <1>7, <1>8, <1>9, <1>10, <1>11, <1>12, <1>13,
           <1>14, <1>15 DEF Next, WorkerStep

\* The inductive invariant holds in every run of master and workers.
THEOREM SchedulingInvariant == Spec => []SInv
<1>1. Init => SInv
  <2> SUFFICES ASSUME Init PROVE SInv
    OBVIOUS
  <2>1. TypeOK
    BY TypeInit
  <2>2. \A w \in Workers : ~InTenure(w) /\ ~listening[w]
    BY DEF Init, InTenure
  <2> QED BY <2>1, <2>2 DEF Init, SInv, LockInv, TenureInv, ListenInv, OwnerInv, Free, Taken
<1> QED BY <1>1, SInvStep, PTL DEF Spec

\* At most one worker process accepts connections, for any number of workers,
\* notifications and kills, and whatever the uninitialised owner flags hold.
THEOREM MutualExclusion == Spec => []AtMostOneListening
<1>1. SInv => AtMostOneListening
  BY DEF SInv, TenureInv, InTenure, AtMostOneListening
<1> QED BY <1>1, SchedulingInvariant, PTL

\* The assertion in ProcessMutex::unlock never fails.
THEOREM UnlockIsOwners == Spec => []UnlockAssertion
<1>1. SInv => UnlockAssertion
  BY WorkerSlots DEF SInv, LockInv, TenureInv, OwnerInv, InTenure, UnlockAssertion
<1> QED BY <1>1, SchedulingInvariant, PTL

\* The toggle called by enableListen never switches a listening worker off.
THEOREM ToggleEnables == Spec => []EnableFindsDisabled
<1>1. SInv => EnableFindsDisabled
  BY DEF SInv, ListenInv, EnableFindsDisabled
<1> QED BY <1>1, SchedulingInvariant, PTL

\* A live worker never leaves its tenure with the lock byte still set.
THEOREM LockIsNotLeaked == Spec => []NoLeakedLock
<1>1. SInv => NoLeakedLock
  BY DEF SInv, LockInv, TenureInv, NoLeakedLock
<1> QED BY <1>1, SchedulingInvariant, PTL

\* Only the worker that took the lock ever frees it; the lock of a worker that died
\* with it stays taken.
THEOREM HolderFrees == Spec => OnlyHolderFrees
<1>1. SInv /\ [Next]_vars =>
        [lock = Taken /\ lock' = Free => holder # Nobody /\ pc[holder] = "free"]_vars
  <2> SUFFICES ASSUME SInv, Next, lock = Taken, lock' = Free
               PROVE  holder # Nobody /\ pc[holder] = "free"
    OBVIOUS
  <2>1. PICK w \in Workers : FreeLock(w)
    <3>1. lock' # lock
      BY DEF Free, Taken
    <3> QED BY <3>1 DEF Next, WorkerStep, Notify, Fork, CheckWorkerExit, Crash, Age, NewConnection,
                        RemoveConnection, Start, CanLock, TakeLock, EnableListen, EventHandler,
                        NotifyOtherWorkerToListen, AssertOwner, WriteEventFd, lockVars
  <2>2. InTenure(w) /\ holder = w
    BY <2>1 DEF FreeLock, InTenure, SInv, TenureInv
  <2> QED BY <2>1, <2>2, WorkerSlots DEF FreeLock
<1> QED BY <1>1, SchedulingInvariant, PTL DEF Spec, OnlyHolderFrees
=============================================================================
