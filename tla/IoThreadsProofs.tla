--------------------------- MODULE IoThreadsProofs ---------------------------
(***************************************************************************)
(* Proofs about IoThreads, for every number of I/O threads, connections    *)
(* and descriptors.                                                        *)
(***************************************************************************)
EXTENDS IoThreads, ListFacts, TLAPS

(* The inductive invariant, in named parts. *)

\* start() brings the threads up one after the other: those in loops_ run, the next one
\* may be on its way, the others do not exist.
StartInv ==
  /\ Len(loops) <= numThreads
  /\ \A i \in 1..Len(loops) : loops[i] = i /\ thread[i] = "looping"
  /\ producerMap = 1..Len(loops)
  /\ basePc \in {"spawn", "test", "sleep", "push"} => Len(loops) < numThreads
  /\ basePc \notin {"spawn", "test", "sleep", "push"} => Len(loops) = numThreads
  /\ \A l \in Loops :
       /\ thread[l] = "looping" => loopPtr[l] = l
       /\ thread[l] # "looping" => loopPtr[l] = None
       /\ l = Base \/ l > Current \/ (l = Current /\ basePc = "spawn") => thread[l] = "none"
  /\ basePc = "push" => thread[Current] = "looping"
  /\ next < Len(loops) \/ next = 0

\* Connections are dealt once start() is over, and each has a name of its own.
DealInv ==
  /\ nextConnId = accepted + 1
  /\ \A c \in Conns : state[c] = "none" <=> c > accepted
  /\ \A c \in Conns : c <= accepted => name[c] = c
  /\ accepted > 0 => basePc \in {"loop", "accept", "close", "open"}

Live(c) == state[c] \notin {"none", "destroyed"}

\* A connection has a descriptor of its own until it is destroyed.
FdInv ==
  /\ \A c \in Conns : Live(c) => fdOf[c] \in Fds /\ fds[fdOf[c]] = "conn"
  /\ \A c, d \in Conns : Live(c) /\ Live(d) /\ c # d => fdOf[c] # fdOf[d]

\* Where a functor may wait, and what it finds when it runs.
Queued(f, l) ==
  /\ f.do = "established" => l = loopOf[f.conn] /\ state[f.conn] = "connecting"
  /\ f.do = "remove" =>
       l = Base /\ state[f.conn] = "disconnected" /\ connections[f.conn] = f.conn
  /\ f.do = "destroyed" =>
       l = loopOf[f.conn] /\ state[f.conn] = "disconnected" /\ connections[f.conn] = None

\* No functor is queued twice.
QueueInv ==
  \A l \in Loops :
    /\ Distinct(queue[l])
    /\ \A f \in Functors : IsIn(f, queue[l]) => Queued(f, l)

\* Who keeps a connection alive.
HeldInv ==
  /\ fault # "eraseAssertion"
  /\ \A c \in Conns :
       /\ state[c] \in {"connecting", "connected"} => connections[c] = c
       /\ state[c] = "disconnected" =>
            connections[c] = c \/ IsIn(Functor("destroyed", c), queue[loopOf[c]])

IInv == TypeOK /\ StartInv /\ DealInv /\ FdInv /\ QueueInv /\ HeldInv /\ IdleFdIsOwn

-----------------------------------------------------------------------------
(* Steps of start() and of the new threads. *)

Starting == {"spawn", "test", "sleep", "push"}
Serving == {"loop", "accept", "close", "open"}

LEMMA IoInit == Init => IInv
<1> SUFFICES ASSUME Init PROVE IInv
  OBVIOUS
<1> USE IoAssumption DEF Loops, Base, Conns, Names, Fds, None, NoFd, FirstFd
<1>0. Len(<<>>) = 0 /\ <<>> \in Seq(Loops) /\ <<>> \in Seq(Functors)
  BY EmptySeq
<1>1. TypeOK
  BY <1>0 DEF Init, TypeOK
<1>2. StartInv
  BY <1>0 DEF Init, StartInv, Current
<1>3. DealInv /\ FdInv /\ HeldInv
  BY DEF Init, DealInv, FdInv, HeldInv, Live
<1>4. QueueInv
  BY EmptyFacts DEF Init, QueueInv
<1>5. IdleFdIsOwn
  BY DEF Init, IdleFdIsOwn
<1> QED BY <1>1, <1>2, <1>3, <1>4, <1>5 DEF IInv

\* What concerns connections only is untouched.
LEMMA ConnsUntouched ==
  ASSUME IInv, UNCHANGED <<connVars, fds, queue, fault>>
  PROVE  FdInv' /\ QueueInv' /\ HeldInv'
<1>1. UNCHANGED <<next, nextConnId, accepted, name, loopOf, fdOf, connections, state>>
  BY DEF connVars, dealVars
<1>2. FdInv'
  BY <1>1 DEF IInv, FdInv, Live
<1>3. QueueInv'
  BY <1>1 DEF IInv, QueueInv, Queued
<1>4. HeldInv'
  BY <1>1 DEF IInv, HeldInv
<1> QED BY <1>2, <1>3, <1>4

\* Where start() is, nothing has been dealt.
LEMMA StartStep ==
  ASSUME IInv, Start \/ WakeSpuriously
  PROVE  IInv'
<1> USE IoAssumption DEF Loops, Base, None
<1>0. UNCHANGED <<numThreads, loopPtr, connVars, fds, idleFd, queue, fault>>
  BY DEF Start, WakeSpuriously, SpawnThread, TestLoop, PushLoop, Listen, startVars
<1>1. UNCHANGED <<next, nextConnId, accepted, name, loopOf, fdOf, connections, state>>
  BY <1>0 DEF connVars, dealVars
<1>2. FdInv' /\ QueueInv' /\ HeldInv'
  BY <1>0, ConnsUntouched
<1>3. basePc \in Starting \cup {"listen"} /\ basePc' \in Starting \cup {"listen", "loop"}
  BY DEF Start, WakeSpuriously, SpawnThread, TestLoop, PushLoop, Listen, Goes, Starting
<1>4. DealInv'
  BY <1>1, <1>3 DEF IInv, DealInv, Starting, TypeOK
<1>5. IdleFdIsOwn'
  BY <1>0, <1>3 DEF IInv, IdleFdIsOwn, Starting
<1>6. numThreads \in 0..MaxThreads /\ loops \in Seq(Loops) /\ Len(loops) \in Nat
  BY DEF IInv, TypeOK
<1>7. basePc \in Starting => Current \in Loops /\ Current = Len(loops) + 1 /\ Current <= numThreads
  BY <1>6 DEF IInv, StartInv, Starting, Current
<1>8. CASE SpawnThread
  <2>1. /\ basePc = "spawn" /\ basePc' = "test" /\ thread' = [thread EXCEPT ![Current] = "init"]
        /\ UNCHANGED <<numThreads, loopPtr, loops, producerMap>>
    BY <1>8 DEF SpawnThread, Goes
  <2>2. Current' = Current /\ Current \in Loops
    BY <1>7, <2>1 DEF Current, Starting
  <2>3. TypeOK'
    BY <1>0, <1>1, <2>1, <2>2 DEF IInv, TypeOK
  <2>4. /\ thread'[Current] = "init" /\ thread[Current] = "none"
        /\ \A k \in Loops \ {Current} : thread'[k] = thread[k]
    BY <2>1, <2>2 DEF IInv, TypeOK, StartInv
  <2>5. \A i \in 1..Len(loops) : i \in Loops \ {Current}
    BY <1>6, <1>7, <2>1 DEF Starting
  <2>6. \A k \in Loops :
          /\ thread'[k] = "looping" => loopPtr[k] = k
          /\ thread'[k] # "looping" => loopPtr[k] = None
          /\ k = Base \/ k > Current => thread'[k] = "none"
    BY <1>6, <1>7, <2>1, <2>2, <2>4 DEF IInv, StartInv, Starting
  <2>7. StartInv'
    BY <1>1, <1>7, <2>1, <2>2, <2>4, <2>5, <2>6 DEF IInv, StartInv, Starting
  <2> QED BY <1>2, <1>4, <1>5, <2>3, <2>7 DEF IInv
<1>9. CASE TestLoop \/ WakeSpuriously \/ Listen
  <2>1. UNCHANGED <<numThreads, loopPtr, loops, producerMap, thread>>
    BY <1>9 DEF TestLoop, WakeSpuriously, Listen, startVars
  <2>2. \/ basePc \in {"test", "sleep"} /\ basePc' \in {"test", "sleep"}
        \/ basePc = "test" /\ basePc' = "push" /\ loopPtr[Current] # None
        \/ basePc = "listen" /\ basePc' = "loop"
    BY <1>9 DEF TestLoop, WakeSpuriously, Listen, Goes
  <2>3. TypeOK'
    BY <1>0, <1>1, <2>1, <2>2 DEF IInv, TypeOK
  <2>4. StartInv'
    BY <1>1, <1>6, <1>7, <2>1, <2>2 DEF IInv, StartInv, TypeOK, Starting, Current
  <2> QED BY <1>2, <1>4, <1>5, <2>3, <2>4 DEF IInv
<1>10. CASE PushLoop
  <2>1. /\ basePc = "push" /\ UNCHANGED <<numThreads, loopPtr, thread>>
        /\ basePc' = IF Len(loops) + 1 >= numThreads THEN "listen" ELSE "spawn"
        /\ loops' = Append(loops, Current) /\ producerMap' = producerMap \cup {Current}
    BY <1>10 DEF PushLoop, Goes, AllStarted
  <2>2. Current \in Loops /\ Current = Len(loops) + 1 /\ Current <= numThreads
    BY <1>7, <2>1 DEF Starting
  <2>3. /\ loops' \in Seq(Loops) /\ Len(loops') = Len(loops) + 1 /\ loops' # <<>>
        /\ \A i \in 1..Len(loops) : loops'[i] = loops[i]
        /\ loops'[Len(loops) + 1] = Current
    BY <1>6, <2>1, <2>2, AppendProperties
  <2>4. producerMap' = 1..Len(loops')
    BY <1>6, <2>1, <2>2, <2>3 DEF IInv, StartInv
  <2>5. \A i \in 1..Len(loops') : i \in 1..Len(loops) \/ i = Len(loops) + 1
    BY <1>6, <2>3
  <2>6. \A i \in 1..Len(loops') : loops'[i] = i /\ thread'[i] = "looping"
    BY <2>1, <2>2, <2>3, <2>5 DEF IInv, StartInv
  <2>7. TypeOK'
    <3>1. next' \in Nat /\ next' < Len(loops')
      BY <1>1, <1>6, <2>3 DEF IInv, TypeOK, StartInv
    <3>2. producerMap' \subseteq Loops
      BY <2>1, <2>2 DEF IInv, TypeOK
    <3> QED BY <1>0, <1>1, <2>1, <2>3, <3>1, <3>2 DEF IInv, TypeOK
  <2>8. StartInv'
    <3>1. Len(loops') <= numThreads /\ Current' = Len(loops) + 2
      BY <1>6, <2>2, <2>3 DEF Current
    <3>2. \A l \in Loops : l = Base \/ l > Current' \/ l = Current' => thread[l] = "none"
      BY <1>6, <2>2, <3>1 DEF IInv, StartInv
    <3>3. next' < Len(loops')
      BY <1>1, <1>6, <2>3 DEF IInv, TypeOK, StartInv
    <3> QED BY <1>0, <1>1, <1>6, <2>1, <2>2, <2>3, <2>4, <2>6, <3>1, <3>2, <3>3
            DEF IInv, StartInv
  <2> QED BY <1>2, <1>4, <1>5, <2>7, <2>8 DEF IInv
<1> QED BY <1>8, <1>9, <1>10 DEF Start

\* The thread start() waits for publishes its loop, whether it is awaited yet or not.
LEMMA ThreadStep ==
  ASSUME IInv, NEW l \in Loops, ThreadFunc(l)
  PROVE  IInv'
<1> USE IoAssumption DEF Loops, Base, None
<1>0. UNCHANGED <<numThreads, loops, producerMap, connVars, fds, idleFd, queue, fault>>
  BY DEF ThreadFunc, ThreadInit, PublishLoop
<1>1. UNCHANGED <<next, nextConnId, accepted, name, loopOf, fdOf, connections, state>>
  BY <1>0 DEF connVars, dealVars
<1>2. FdInv' /\ QueueInv' /\ HeldInv'
  BY <1>0, ConnsUntouched
<1>3. basePc' = basePc \/ (basePc = "sleep" /\ basePc' = "test")
  BY DEF ThreadFunc, ThreadInit, PublishLoop
<1>4. DealInv' /\ IdleFdIsOwn'
  BY <1>0, <1>1, <1>3 DEF IInv, DealInv, IdleFdIsOwn
<1>5. \/ /\ thread[l] = "init" /\ thread' = [thread EXCEPT ![l] = "publish"]
         /\ loopPtr' = loopPtr
      \/ /\ thread[l] = "publish" /\ thread' = [thread EXCEPT ![l] = "looping"]
         /\ loopPtr' = [loopPtr EXCEPT ![l] = l]
  BY DEF ThreadFunc, ThreadInit, PublishLoop
<1>6. TypeOK'
  <2>0. /\ thread \in [Loops -> {"none", "init", "publish", "looping"}]
        /\ loopPtr \in [Loops -> Loops]
    BY DEF IInv, TypeOK
  <2>1. /\ thread' \in [Loops -> {"none", "init", "publish", "looping"}]
        /\ loopPtr' \in [Loops -> Loops]
    <3> HIDE DEF Loops
    <3>1. CASE thread[l] = "init"
      BY <1>5, <2>0, <3>1
    <3>2. CASE thread[l] = "publish"
      BY <1>5, <2>0, <3>2
    <3> QED BY <1>5, <3>1, <3>2
  <2> QED BY <1>0, <1>1, <1>3, <2>1 DEF IInv, TypeOK
<1>7. loops \in Seq(Loops) /\ Len(loops) \in Nat /\ Current' = Current
      /\ numThreads \in 0..MaxThreads
  BY <1>0 DEF IInv, TypeOK, Current
<1>8. StartInv'
  <2>0. /\ DOMAIN thread = Loops /\ DOMAIN loopPtr = Loops
        /\ \A k \in Loops : thread[k] = "looping" => loopPtr[k] = k
        /\ \A k \in Loops : thread[k] # "looping" => loopPtr[k] = None
    BY DEF IInv, TypeOK, StartInv
  <2>1. /\ \A k \in Loops : thread[k] = "looping" => thread'[k] = "looping"
        /\ \A k \in Loops : thread[k] = "none" => thread'[k] = "none"
        /\ \A k \in Loops :
             /\ thread'[k] = "looping" => loopPtr'[k] = k
             /\ thread'[k] # "looping" => loopPtr'[k] = None
    BY <1>5, <2>0
  <2>2. \A i \in 1..Len(loops) : i \in Loops
    BY <1>7 DEF IInv, StartInv
  <2>3. basePc = "push" => Current \in Loops
    BY <1>7 DEF IInv, StartInv, Current
  <2>4. \A k \in Loops :
          k = Base \/ k > Current \/ (k = Current /\ basePc' = "spawn") => thread'[k] = "none"
    BY <1>3, <2>1 DEF IInv, StartInv
  <2> QED BY <1>0, <1>1, <1>3, <1>7, <2>1, <2>2, <2>3, <2>4 DEF IInv, StartInv
<1> QED BY <1>2, <1>4, <1>6, <1>8 DEF IInv

-----------------------------------------------------------------------------
(* Steps of the Acceptor. *)

\* start() is over and stays over.
LEMMA StartUntouched ==
  ASSUME IInv, UNCHANGED <<startVars, next>>,
         basePc' = basePc \/ (basePc \in Serving /\ basePc' \in Serving)
  PROVE  StartInv'
<1>1. UNCHANGED <<numThreads, thread, loopPtr, loops, producerMap, next>> /\ Current' = Current
  BY DEF startVars, Current
<1> QED BY <1>1 DEF IInv, StartInv, Serving

\* The lowest free descriptor is a free one.
LEMMA MinFree ==
  ASSUME AcceptSucceeds
  PROVE  Min(FreeFds) \in Fds /\ fds[Min(FreeFds)] = "free"
<1>1. FreeFds \subseteq Nat /\ FreeFds # {}
  BY IoAssumption DEF FreeFds, Fds, AcceptSucceeds
<1>2. Min(FreeFds) \in FreeFds
  BY <1>1, MinIsMember
<1> QED BY <1>2 DEF FreeFds

\* Descriptors change hands, but none that a connection has.
LEMMA FdStep ==
  ASSUME IInv, UNCHANGED <<startVars, connVars, queue, fault>>,
         basePc' = basePc \/ (basePc \in Serving /\ basePc' \in Serving),
         idleFd' \in Fds \cup {NoFd}, IdleFdIsOwn',
         fds' = fds \/ \E f \in Fds, use \in {"free", "idle", "refused", "other"} :
                         fds[f] # "conn" /\ fds' = [fds EXCEPT ![f] = use]
  PROVE  IInv'
<1>1. UNCHANGED <<numThreads, thread, loopPtr, loops, producerMap, next, nextConnId, accepted,
                  name, loopOf, fdOf, connections, state>>
  BY DEF startVars, connVars, dealVars
<1>2. StartInv'
  BY <1>1, StartUntouched
<1>3. /\ fds' \in [Fds -> {"free", "idle", "conn", "refused", "other"}]
      /\ \A f \in Fds : fds[f] = "conn" => fds'[f] = "conn"
  <2>1. fds \in [Fds -> {"free", "idle", "conn", "refused", "other"}]
    BY DEF IInv, TypeOK
  <2>2. CASE fds' = fds
    BY <2>1, <2>2
  <2>3. CASE fds' # fds
    <3>1. PICK f \in Fds, use \in {"free", "idle", "refused", "other"} :
                 fds[f] # "conn" /\ fds' = [fds EXCEPT ![f] = use]
      BY <2>3
    <3> QED BY <2>1, <3>1
  <2> QED BY <2>2, <2>3
<1>4. TypeOK'
  BY <1>1, <1>3 DEF IInv, TypeOK, Serving
<1>5. DealInv' /\ HeldInv'
  BY <1>1 DEF IInv, DealInv, HeldInv, Serving
<1>6. QueueInv'
  BY <1>1 DEF IInv, QueueInv, Queued
<1>7. FdInv'
  BY <1>1, <1>3 DEF IInv, FdInv, Live
<1> QED BY <1>2, <1>4, <1>5, <1>6, <1>7 DEF IInv

LEMMA NoFdIsNone == NoFd \notin Fds
  BY IoAssumption DEF NoFd, Fds

LEMMA HandleReadFullStep == ASSUME IInv, HandleReadFull PROVE IInv'
<1>1. /\ basePc = "loop" /\ basePc' = "accept" /\ fds' = Closed(idleFd) /\ idleFd' = idleFd
      /\ UNCHANGED <<startVars, connVars, queue, fault>>
  BY DEF HandleReadFull, Goes
<1>2. idleFd \in Fds \cup {NoFd} /\ (idleFd # NoFd => fds[idleFd] = "idle")
  BY <1>1 DEF IInv, TypeOK, IdleFdIsOwn
<1>3. fds' = fds \/ \E f \in Fds, use \in {"free", "idle", "refused", "other"} :
                      fds[f] # "conn" /\ fds' = [fds EXCEPT ![f] = use]
  BY <1>1, <1>2 DEF Closed
<1>4. IdleFdIsOwn'
  BY <1>1 DEF IdleFdIsOwn
<1> QED BY <1>1, <1>2, <1>3, <1>4, FdStep DEF Serving

\* What IdleFor leaves.
LEMMA IdleForFacts ==
  ASSUME IInv, NEW use \in {"idle", "refused"}, IdleFor(use)
  PROVE  /\ idleFd' \in Fds /\ fds'[idleFd'] = use
         /\ \E f \in Fds, u \in {"free", "idle", "refused", "other"} :
              fds[f] # "conn" /\ fds' = [fds EXCEPT ![f] = u]
<1>1. /\ Min(FreeFds) \in Fds /\ fds[Min(FreeFds)] = "free" /\ idleFd' = Min(FreeFds)
      /\ fds' = [fds EXCEPT ![Min(FreeFds)] = use]
  BY MinFree DEF IdleFor
<1>2. DOMAIN fds = Fds
  BY DEF IInv, TypeOK
<1> QED BY <1>1, <1>2

LEMMA HandleReadRestStep == ASSUME IInv, HandleReadRest PROVE IInv'
<1>0. UNCHANGED <<startVars, connVars, queue, fault>>
  BY DEF HandleReadRest, AcceptRefused, CloseRefused, OpenIdle
<1> DEFINE Swap == fds' = fds \/ \E f \in Fds, use \in {"free", "idle", "refused", "other"} :
                                   fds[f] # "conn" /\ fds' = [fds EXCEPT ![f] = use]
<1>1. CASE AcceptRefused
  <2>1. basePc = "accept" /\ basePc' = "close" /\ (IdleFor("refused") \/ IdleLost)
    BY <1>1 DEF AcceptRefused, Goes
  <2>2. idleFd' \in Fds \cup {NoFd} /\ (idleFd' # NoFd => fds'[idleFd'] = "refused") /\ Swap
    BY <2>1, IdleForFacts DEF IdleLost
  <2>3. IdleFdIsOwn'
    BY <2>1, <2>2 DEF IdleFdIsOwn
  <2> QED BY <1>0, <2>1, <2>2, <2>3, FdStep DEF Serving
<1>2. CASE CloseRefused
  <2>1. basePc = "close" /\ basePc' = "open" /\ fds' = Closed(idleFd) /\ idleFd' = idleFd
    BY <1>2 DEF CloseRefused, Goes
  <2>2. idleFd \in Fds \cup {NoFd} /\ (idleFd # NoFd => fds[idleFd] = "refused")
    BY <2>1 DEF IInv, TypeOK, IdleFdIsOwn
  <2>3. Swap
    BY <2>1, <2>2 DEF Closed
  <2>4. IdleFdIsOwn'
    BY <2>1 DEF IdleFdIsOwn
  <2> QED BY <1>0, <2>1, <2>2, <2>3, <2>4, FdStep DEF Serving
<1>3. CASE OpenIdle
  <2>1. basePc = "open" /\ basePc' = "loop" /\ (IdleFor("idle") \/ IdleLost)
    BY <1>3 DEF OpenIdle, Goes
  <2>2. idleFd' \in Fds \cup {NoFd} /\ (idleFd' # NoFd => fds'[idleFd'] = "idle") /\ Swap
    BY <2>1, IdleForFacts DEF IdleLost
  <2>3. IdleFdIsOwn'
    BY <2>1, <2>2 DEF IdleFdIsOwn
  <2> QED BY <1>0, <2>1, <2>2, <2>3, FdStep DEF Serving
<1> QED BY <1>1, <1>2, <1>3 DEF HandleReadRest

LEMMA OtherFdStep == ASSUME IInv, NEW f \in Fds, OtherFd(f) PROVE IInv'
<1>0. UNCHANGED <<startVars, connVars, basePc, idleFd, queue, fault>>
  BY DEF OtherFd
<1>1. fds \in [Fds -> {"free", "idle", "conn", "refused", "other"}] /\ idleFd \in Fds \cup {NoFd}
  BY DEF IInv, TypeOK
<1>2. PICK use \in {"free", "other"} :
        fds[f] \in {"free", "other"} /\ fds' = [fds EXCEPT ![f] = use]
  BY MinFree DEF OtherFd, AcceptSucceeds
<1>3. IdleFdIsOwn'
  BY <1>0, <1>1, <1>2 DEF IInv, IdleFdIsOwn
<1> QED BY <1>0, <1>1, <1>2, <1>3, FdStep

LEMMA OnServerMessageStep == ASSUME IInv, NEW c \in Conns, OnServerMessage(c) PROVE IInv'
<1>1. /\ UNCHANGED <<numThreads, thread, loopPtr, loops, producerMap, basePc, fds, idleFd, queue>>
      /\ UNCHANGED <<next, nextConnId, accepted, name, loopOf, fdOf, connections, state>>
      /\ fault' \in {fault, "wildProducer"}
  BY DEF OnServerMessage, Die, vars, startVars, connVars, dealVars
<1>2. TypeOK'
  BY <1>1 DEF IInv, TypeOK
<1>3. StartInv' /\ DealInv' /\ FdInv' /\ HeldInv' /\ IdleFdIsOwn'
  BY <1>1 DEF IInv, StartInv, DealInv, FdInv, HeldInv, IdleFdIsOwn, Live, Current
<1>4. QueueInv'
  BY <1>1 DEF IInv, QueueInv, Queued
<1> QED BY <1>2, <1>3, <1>4 DEF IInv

-----------------------------------------------------------------------------
(* Connections. *)

LEMMA FunctorFacts ==
  ASSUME NEW do \in {"established", "remove", "destroyed"}, NEW c \in Conns
  PROVE  /\ Functor(do, c) \in Functors /\ Functor(do, c).do = do /\ Functor(do, c).conn = c
         /\ \A g \in Functors : g.do = do /\ g.conn = c => g = Functor(do, c)
  BY DEF Functor, Functors

\* The queues hold nothing about the connection c but what Queued allows, and what they
\* hold about others is as it was.
LEMMA QueueStep ==
  ASSUME IInv, NEW c \in Conns,
         \A d \in Conns \ {c} : /\ state'[d] = state[d] /\ loopOf'[d] = loopOf[d]
                                /\ connections'[d] = connections[d],
         \A k \in Loops : Distinct(queue'[k]),
         \A k \in Loops : \A g \in Functors : IsIn(g, queue'[k]) =>
           IF g.conn = c THEN Queued(g, k)' ELSE IsIn(g, queue[k])
  PROVE  QueueInv'
<1> SUFFICES ASSUME NEW k \in Loops, NEW g \in Functors, IsIn(g, queue'[k])
             PROVE  Queued(g, k)'
  BY DEF QueueInv
<1>1. CASE g.conn = c
  BY <1>1
<1>2. CASE g.conn # c
  <2>1. Queued(g, k) /\ g.conn \in Conns \ {c}
    BY <1>2 DEF IInv, QueueInv, Functors
  <2> QED BY <2>1 DEF Queued
<1> QED BY <1>1, <1>2

\* getNextLoop gives a loop of the pool, and next_ stays within it.
LEMMA NextLoopFacts ==
  ASSUME IInv
  PROVE  /\ NextLoop \in Loops
         /\ loops = <<>> => next = 0
         /\ loops # <<>> => NextIndex \in Nat /\ NextIndex < Len(loops)
<1>1. loops \in Seq(Loops) /\ next \in Nat /\ Len(loops) \in Nat
  BY DEF IInv, TypeOK
<1>2. CASE loops = <<>>
  <2>1. Len(loops) = 0
    BY <1>2, EmptySeq
  <2> QED BY <1>1, <1>2, <2>1, IoAssumption DEF IInv, StartInv, NextLoop, Loops, Base
<1>3. CASE loops # <<>>
  <2>1. Len(loops) > 0 /\ next < Len(loops)
    BY <1>1, <1>3, EmptySeq DEF IInv, TypeOK
  <2>2. next + 1 \in 1..Len(loops)
    BY <1>1, <2>1
  <2>3. loops[next + 1] \in Loops
    BY <1>1, <2>2, ElementOfSeq
  <2> QED BY <1>1, <1>3, <2>1, <2>3 DEF NextLoop, NextIndex
<1> QED BY <1>2, <1>3

LEMMA NewConnectionStep == ASSUME IInv, NewConnection PROVE IInv'
<1> DEFINE c == accepted + 1
           f == Min(FreeFds)
           st == IF NextLoop = Base THEN "connected" ELSE "connecting"
<1>1. /\ basePc = "loop" /\ accepted < MaxConns /\ AcceptSucceeds
      /\ accepted' = c /\ fds' = [fds EXCEPT ![f] = "conn"]
      /\ fdOf' = [fdOf EXCEPT ![c] = f] /\ loopOf' = [loopOf EXCEPT ![c] = NextLoop]
      /\ next' = IF loops = <<>> THEN next ELSE NextIndex
      /\ name' = [name EXCEPT ![c] = nextConnId] /\ nextConnId' = nextConnId + 1
      /\ connections' = [connections EXCEPT ![nextConnId] = c]
      /\ state' = [state EXCEPT ![c] = st]
      /\ queue' = IF NextLoop = Base THEN queue
                  ELSE [queue EXCEPT ![NextLoop] = Append(@, Functor("established", c))]
      /\ UNCHANGED <<startVars, basePc, idleFd, fault>>
  BY DEF NewConnection, NextId
<1>2. UNCHANGED <<numThreads, thread, loopPtr, loops, producerMap, basePc, idleFd, fault>>
      /\ Current' = Current
  BY <1>1 DEF startVars, Current
<1>3. c \in Conns /\ c \in Names /\ nextConnId = c /\ accepted \in Nat
  BY <1>1, IoAssumption DEF IInv, TypeOK, DealInv, Conns, Names
<1>4. state[c] = "none"
  BY <1>3 DEF IInv, DealInv
<1>5. f \in Fds /\ fds[f] = "free"
  BY <1>1, MinFree
<1>6. NextLoop \in Loops
  BY NextLoopFacts
<1>7. /\ st \in {"connected", "connecting"} /\ state'[c] = st
      /\ loopOf'[c] = NextLoop /\ connections'[c] = c /\ fdOf'[c] = f /\ name'[c] = c
      /\ \A d \in Conns \ {c} :
           /\ state'[d] = state[d] /\ loopOf'[d] = loopOf[d] /\ connections'[d] = connections[d]
           /\ fdOf'[d] = fdOf[d] /\ name'[d] = name[d]
  BY <1>1, <1>3 DEF IInv, TypeOK, Conns, Names
<1>8. fds'[f] = "conn" /\ \A x \in Fds \ {f} : fds'[x] = fds[x]
  BY <1>1, <1>5 DEF IInv, TypeOK
<1> DEFINE g == Functor("established", c)
<1>9. /\ g \in Functors /\ g.do = "established" /\ g.conn = c
  BY <1>3, FunctorFacts
<1>10. \A k \in Loops : \A h \in Functors : IsIn(h, queue[k]) => h.conn # c
  BY <1>3, <1>4 DEF IInv, QueueInv, Queued, Functors
<1> HIDE DEF c, f, st, g
<1>11. /\ queue' \in [Loops -> Seq(Functors)] /\ \A k \in Loops : Distinct(queue'[k])
       /\ \A k \in Loops : \A h \in Functors : IsIn(h, queue[k]) => IsIn(h, queue'[k])
       /\ \A k \in Loops : \A h \in Functors : IsIn(h, queue'[k]) =>
            IsIn(h, queue[k]) \/ (NextLoop # Base /\ k = NextLoop /\ h = g)
  <2>0. queue \in [Loops -> Seq(Functors)] /\ \A k \in Loops : Distinct(queue[k])
    BY DEF IInv, TypeOK, QueueInv
  <2>1. CASE NextLoop = Base
    BY <1>1, <2>0, <2>1
  <2>2. CASE NextLoop # Base
    <3> DEFINE q == Append(queue[NextLoop], g)
    <3>1. queue' = [queue EXCEPT ![NextLoop] = q]
      BY <1>1, <2>2 DEF g
    <3>2. /\ q \in Seq(Functors) /\ Distinct(q)
          /\ \A h : IsIn(h, q) <=> IsIn(h, queue[NextLoop]) \/ h = g
      BY <1>6, <1>9, <1>10, <2>0, AppendFacts
    <3> HIDE DEF q
    <3>3. queue'[NextLoop] = q /\ \A k \in Loops \ {NextLoop} : queue'[k] = queue[k]
      BY <1>6, <2>0, <3>1
    <3> QED BY <1>6, <2>0, <2>2, <3>1, <3>2, <3>3
  <2> QED BY <2>1, <2>2
<1>12. TypeOK'
  <2>1. next' \in Nat /\ (loops' # <<>> => next' < Len(loops'))
    BY <1>1, <1>2, NextLoopFacts DEF IInv, TypeOK
  <2>2. /\ nextConnId' \in 1..(MaxConns + 1) /\ accepted' \in 0..MaxConns
    BY <1>1, <1>3, IoAssumption DEF c
  <2>3. /\ connections' \in [Names -> Conns \cup {None}]
        /\ name' \in [Conns -> Names \cup {None}] /\ loopOf' \in [Conns -> Loops]
        /\ fdOf' \in [Conns -> Fds \cup {NoFd}]
        /\ fds' \in [Fds -> {"free", "idle", "conn", "refused", "other"}]
    BY <1>1, <1>3, <1>5, <1>6 DEF IInv, TypeOK
  <2>4. state' \in [Conns -> {"none", "connecting", "connected", "disconnected", "destroyed"}]
    BY <1>1, <1>3, <1>7 DEF IInv, TypeOK
  <2> QED BY <1>2, <1>11, <2>1, <2>2, <2>3, <2>4 DEF IInv, TypeOK
<1>13. StartInv'
  <2>1. next' < Len(loops') \/ next' = 0
    BY <1>1, <1>2, NextLoopFacts
  <2> QED BY <1>2, <2>1 DEF IInv, StartInv
<1>14. DealInv'
  <2>1. nextConnId' = accepted' + 1
    BY <1>1, <1>3
  <2>2. \A d \in Conns : d <= c <=> d <= accepted \/ d = c
    BY <1>3 DEF c, Conns
  <2>3. \A d \in Conns : d > c <=> ~(d <= c)
    BY <1>3 DEF c, Conns
  <2>4. \A d \in Conns : d > accepted <=> ~(d <= accepted)
    BY <1>3 DEF Conns
  <2>5. \A d \in Conns : state'[d] = "none" <=> d > accepted'
    BY <1>1, <1>7, <2>2, <2>3, <2>4 DEF IInv, DealInv
  <2>6. \A d \in Conns : d <= accepted' => name'[d] = d
    BY <1>1, <1>7, <2>2 DEF IInv, DealInv
  <2> QED BY <1>1, <1>2, <2>1, <2>5, <2>6 DEF DealInv
<1>15. FdInv'
  <2>1. \A d \in Conns \ {c} : Live(d)' <=> Live(d)
    BY <1>7 DEF Live
  <2>2. \A d \in Conns \ {c} : Live(d) => fdOf[d] \in Fds \ {f} /\ fds'[fdOf[d]] = "conn"
    BY <1>5, <1>8 DEF IInv, FdInv
  <2> QED BY <1>5, <1>7, <1>8, <2>1, <2>2 DEF IInv, FdInv
<1>16. QueueInv'
  <2>1. ASSUME NEW k \in Loops, NEW h \in Functors, IsIn(h, queue'[k])
        PROVE  IF h.conn = c THEN Queued(h, k)' ELSE IsIn(h, queue[k])
    <3>1. CASE IsIn(h, queue[k])
      BY <1>10, <3>1
    <3>2. CASE NextLoop # Base /\ k = NextLoop /\ h = g
      BY <1>7, <1>9, <3>2 DEF Queued, st
    <3> QED BY <1>11, <2>1, <3>1, <3>2
  <2> QED BY <1>3, <1>7, <1>11, <2>1, QueueStep
<1>17. HeldInv'
  <2>1. ASSUME NEW d \in Conns
        PROVE  /\ state'[d] \in {"connecting", "connected"} => connections'[d] = d
               /\ state'[d] = "disconnected" =>
                    connections'[d] = d \/ IsIn(Functor("destroyed", d), queue'[loopOf'[d]])
    <3>1. CASE d = c
      BY <1>7, <3>1
    <3>2. CASE d # c
      <4>1. Functor("destroyed", d) \in Functors /\ loopOf[d] \in Loops
        BY FunctorFacts DEF IInv, TypeOK
      <4> QED BY <1>7, <1>11, <3>2, <4>1 DEF IInv, HeldInv
    <3> QED BY <3>1, <3>2
  <2> QED BY <1>2, <2>1 DEF IInv, HeldInv
<1>18. IdleFdIsOwn'
  BY <1>1, <1>2, <1>5, <1>8 DEF IInv, TypeOK, IdleFdIsOwn
<1> QED BY <1>12, <1>13, <1>14, <1>15, <1>16, <1>17, <1>18 DEF IInv

\* The functor a loop runs may run, and it is queued once.
LEMMA HeadFacts ==
  ASSUME IInv, NEW l \in Loops, NEW c \in Conns,
         NEW do \in {"established", "remove", "destroyed"}, Runs(Functor(do, c), l)
  PROVE  /\ Queued(Functor(do, c), l)
         /\ Tail(queue[l]) \in Seq(Functors) /\ Distinct(Tail(queue[l]))
         /\ \A x : IsIn(x, Tail(queue[l])) <=> IsIn(x, queue[l]) /\ x # Functor(do, c)
<1>1. queue[l] \in Seq(Functors) /\ Distinct(queue[l]) /\ queue[l] # <<>>
      /\ Head(queue[l]) = Functor(do, c)
  BY DEF IInv, TypeOK, QueueInv, Runs
<1>2. /\ Head(queue[l]) \in Functors /\ IsIn(Head(queue[l]), queue[l])
      /\ Tail(queue[l]) \in Seq(Functors) /\ Distinct(Tail(queue[l]))
      /\ \A x : IsIn(x, Tail(queue[l])) <=> IsIn(x, queue[l]) /\ x # Head(queue[l])
  BY <1>1, TailFacts
<1>3. Queued(Functor(do, c), l)
  BY <1>1, <1>2 DEF IInv, QueueInv
<1> QED BY <1>1, <1>2, <1>3

\* A step of a connection that is there: the start and the dealing are untouched.
LEMMA ConnectionStep ==
  ASSUME IInv, NEW c \in Conns, state[c] # "none",
         UNCHANGED <<startVars, dealVars, basePc>>,
         NEW st \in {"connected", "disconnected", "destroyed"},
         state' = [state EXCEPT ![c] = st]
  PROVE  /\ UNCHANGED <<numThreads, thread, loopPtr, loops, producerMap, next, nextConnId,
                        accepted, name, loopOf, fdOf>>
         /\ StartInv' /\ DealInv'
         /\ state'[c] = st /\ \A d \in Conns \ {c} : state'[d] = state[d]
         /\ state' \in [Conns -> {"none", "connecting", "connected", "disconnected", "destroyed"}]
<1>1. UNCHANGED <<numThreads, thread, loopPtr, loops, producerMap, next, nextConnId,
                  accepted, name, loopOf, fdOf>>
  BY DEF startVars, dealVars
<1>2. StartInv'
  BY <1>1, StartUntouched
<1>3. /\ state'[c] = st /\ \A d \in Conns \ {c} : state'[d] = state[d]
      /\ state' \in [Conns -> {"none", "connecting", "connected", "disconnected", "destroyed"}]
  BY DEF IInv, TypeOK
<1>4. DealInv'
  BY <1>1, <1>3 DEF IInv, DealInv
<1> QED BY <1>1, <1>2, <1>3, <1>4

LEMMA ConnectEstablishedStep ==
  ASSUME IInv, NEW l \in Loops, NEW c \in Conns, ConnectEstablished(l, c)
  PROVE  IInv'
<1> DEFINE g == Functor("established", c)
           q == Tail(queue[l])
<1>1. /\ Runs(g, l) /\ state' = [state EXCEPT ![c] = "connected"]
      /\ queue' = [queue EXCEPT ![l] = q]
      /\ UNCHANGED <<startVars, dealVars, basePc, connections, fds, idleFd, fault>>
  BY DEF ConnectEstablished
<1>2. /\ Queued(g, l) /\ q \in Seq(Functors) /\ Distinct(q)
      /\ \A x : IsIn(x, q) <=> IsIn(x, queue[l]) /\ x # g
  BY <1>1, HeadFacts
<1>3. /\ g \in Functors /\ g.do = "established" /\ g.conn = c
      /\ \A h \in Functors : h.do = "established" /\ h.conn = c => h = g
  BY FunctorFacts
<1> HIDE DEF g, q
<1>4. state[c] = "connecting" /\ loopOf[c] = l
  BY <1>2, <1>3 DEF Queued
<1>5. /\ UNCHANGED <<numThreads, thread, loopPtr, loops, producerMap, next, nextConnId,
                     accepted, name, loopOf, fdOf>>
      /\ StartInv' /\ DealInv'
      /\ state'[c] = "connected" /\ \A d \in Conns \ {c} : state'[d] = state[d]
      /\ state' \in [Conns -> {"none", "connecting", "connected", "disconnected", "destroyed"}]
  BY <1>1, <1>4, ConnectionStep
<1>6. /\ queue' \in [Loops -> Seq(Functors)] /\ queue'[l] = q
      /\ \A k \in Loops \ {l} : queue'[k] = queue[k]
  BY <1>1, <1>2 DEF IInv, TypeOK
<1>7. TypeOK'
  BY <1>1, <1>5, <1>6 DEF IInv, TypeOK
<1>8. FdInv'
  BY <1>1, <1>4, <1>5 DEF IInv, FdInv, Live
<1>9. QueueInv'
  <2>1. \A k \in Loops : Distinct(queue'[k])
    BY <1>2, <1>6 DEF IInv, QueueInv
  <2>2. ASSUME NEW k \in Loops, NEW h \in Functors, IsIn(h, queue'[k])
        PROVE  IsIn(h, queue[k]) /\ h.conn # c
    <3>1. IsIn(h, queue[k]) /\ (k = l => h # g)
      BY <1>2, <1>6, <2>2
    <3>2. Queued(h, k) /\ h.do \in {"established", "remove", "destroyed"}
      BY <3>1 DEF IInv, QueueInv, Functors
    <3> QED BY <1>3, <1>4, <3>1, <3>2 DEF Queued
  <2> QED BY <1>1, <1>5, <2>1, <2>2, QueueStep
<1>10. HeldInv'
  <2>1. ASSUME NEW d \in Conns, IsIn(Functor("destroyed", d), queue[loopOf[d]])
        PROVE  IsIn(Functor("destroyed", d), queue'[loopOf[d]])
    <3>1. Functor("destroyed", d).do = "destroyed" /\ loopOf[d] \in Loops
      BY FunctorFacts DEF IInv, TypeOK
    <3> QED BY <1>2, <1>3, <1>6, <2>1, <3>1
  <2> QED BY <1>1, <1>4, <1>5, <2>1 DEF IInv, HeldInv
<1>11. IdleFdIsOwn'
  BY <1>1 DEF IInv, IdleFdIsOwn
<1> QED BY <1>5, <1>7, <1>8, <1>9, <1>10, <1>11 DEF IInv

LEMMA ConnectDestroyedStep ==
  ASSUME IInv, NEW l \in Loops, NEW c \in Conns, ConnectDestroyed(l, c)
  PROVE  IInv'
<1> DEFINE g == Functor("destroyed", c)
           q == Tail(queue[l])
<1>1. /\ Runs(g, l) /\ state' = [state EXCEPT ![c] = "destroyed"]
      /\ queue' = [queue EXCEPT ![l] = q]
      /\ UNCHANGED <<startVars, dealVars, basePc, connections, idleFd, fault>>
  BY DEF ConnectDestroyed
<1>2. PICK holder \in {"free", "other"} : fds' = [fds EXCEPT ![fdOf[c]] = holder]
  BY DEF ConnectDestroyed
<1>3. /\ Queued(g, l) /\ q \in Seq(Functors) /\ Distinct(q)
      /\ \A x : IsIn(x, q) <=> IsIn(x, queue[l]) /\ x # g
  BY <1>1, HeadFacts
<1>4. /\ g \in Functors /\ g.do = "destroyed" /\ g.conn = c
      /\ \A h \in Functors : h.do = "destroyed" /\ h.conn = c => h = g
  BY FunctorFacts
<1> HIDE DEF g, q
<1>5. state[c] = "disconnected" /\ loopOf[c] = l /\ connections[c] = None
  BY <1>3, <1>4 DEF Queued
<1>6. fdOf[c] \in Fds /\ fds[fdOf[c]] = "conn"
  BY <1>5 DEF IInv, FdInv, Live
<1>7. /\ UNCHANGED <<numThreads, thread, loopPtr, loops, producerMap, next, nextConnId,
                     accepted, name, loopOf, fdOf>>
      /\ StartInv' /\ DealInv'
      /\ state'[c] = "destroyed" /\ \A d \in Conns \ {c} : state'[d] = state[d]
      /\ state' \in [Conns -> {"none", "connecting", "connected", "disconnected", "destroyed"}]
  BY <1>1, <1>5, ConnectionStep
<1>8. /\ queue' \in [Loops -> Seq(Functors)] /\ queue'[l] = q
      /\ \A k \in Loops \ {l} : queue'[k] = queue[k]
  BY <1>1, <1>3 DEF IInv, TypeOK
<1>9. /\ fds' \in [Fds -> {"free", "idle", "conn", "refused", "other"}]
      /\ \A x \in Fds \ {fdOf[c]} : fds'[x] = fds[x]
  BY <1>2, <1>6 DEF IInv, TypeOK
<1>10. TypeOK'
  BY <1>1, <1>7, <1>8, <1>9 DEF IInv, TypeOK
<1>11. FdInv'
  <2>1. \A d \in Conns : Live(d)' => Live(d) /\ d # c /\ fdOf[d] \in Fds \ {fdOf[c]}
    BY <1>5, <1>7 DEF IInv, FdInv, Live
  <2> QED BY <1>7, <1>9, <2>1 DEF IInv, FdInv
<1>12. QueueInv'
  <2>1. \A k \in Loops : Distinct(queue'[k])
    BY <1>3, <1>8 DEF IInv, QueueInv
  <2>2. ASSUME NEW k \in Loops, NEW h \in Functors, IsIn(h, queue'[k])
        PROVE  IsIn(h, queue[k]) /\ h.conn # c
    <3>1. IsIn(h, queue[k]) /\ (k = l => h # g)
      BY <1>3, <1>8, <2>2
    <3>2. Queued(h, k) /\ h.do \in {"established", "remove", "destroyed"}
      BY <3>1 DEF IInv, QueueInv, Functors
    <3>3. connections[c] # c
      BY <1>5 DEF Conns, None
    <3> QED BY <1>4, <1>5, <3>1, <3>2, <3>3 DEF Queued
  <2> QED BY <1>1, <1>7, <2>1, <2>2, QueueStep
<1>13. HeldInv'
  <2>1. ASSUME NEW d \in Conns \ {c}, IsIn(Functor("destroyed", d), queue[loopOf[d]])
        PROVE  IsIn(Functor("destroyed", d), queue'[loopOf[d]])
    <3>1. Functor("destroyed", d).conn = d /\ loopOf[d] \in Loops
      BY FunctorFacts DEF IInv, TypeOK
    <3> QED BY <1>3, <1>4, <1>8, <2>1, <3>1
  <2> QED BY <1>1, <1>7, <2>1 DEF IInv, HeldInv
<1>14. IdleFdIsOwn'
  BY <1>1, <1>6, <1>9 DEF IInv, TypeOK, IdleFdIsOwn
<1> QED BY <1>7, <1>10, <1>11, <1>12, <1>13, <1>14 DEF IInv

\* The queues q hold what the queues hold, except what is about c.
Without(q, c) ==
  /\ q \in [Loops -> Seq(Functors)] /\ \A k \in Loops : Distinct(q[k])
  /\ \A k \in Loops : \A h \in Functors : IsIn(h, q[k]) <=> IsIn(h, queue[k]) /\ h.conn # c

Posted(q, l, g) == queue' = [q EXCEPT ![l] = Append(@, g)]

\* The functor g waits on loop l, and nothing else about its connection anywhere.
Joined(l, g) ==
  /\ queue' \in [Loops -> Seq(Functors)]
  /\ \A k \in Loops : Distinct(queue'[k])
  /\ IsIn(g, queue'[l])
  /\ \A k \in Loops : \A h \in Functors :
       IsIn(h, queue'[k]) <=> (IsIn(h, queue[k]) /\ h.conn # g.conn) \/ (k = l /\ h = g)

LEMMA PostFacts ==
  ASSUME NEW q, NEW l \in Loops, NEW g \in Functors, Without(q, g.conn), Posted(q, l, g)
  PROVE  Joined(l, g)
<1> DEFINE r == Append(q[l], g)
<1>1. q \in [Loops -> Seq(Functors)] /\ q[l] \in Seq(Functors) /\ Distinct(q[l]) /\ ~IsIn(g, q[l])
  BY DEF Without
<1>2. r \in Seq(Functors) /\ Distinct(r) /\ \A x : IsIn(x, r) <=> IsIn(x, q[l]) \/ x = g
  BY <1>1, AppendFacts
<1>3. queue' = [q EXCEPT ![l] = r]
  BY DEF Posted
<1> HIDE DEF r
<1>4. /\ queue' \in [Loops -> Seq(Functors)] /\ queue'[l] = r
      /\ \A k \in Loops \ {l} : queue'[k] = q[k]
  BY <1>1, <1>2, <1>3
<1> QED BY <1>2, <1>4 DEF Without, Joined

\* What every part of the invariant needs to know of a removal, wherever it runs: c is
\* disconnected now, and what waits for it is the functor g alone.
LEMMA RemovalStep ==
  ASSUME IInv, NEW c \in Conns, state[c] \in {"connected", "disconnected"},
         state' = [state EXCEPT ![c] = "disconnected"],
         UNCHANGED <<startVars, dealVars, basePc, fds, idleFd, fault>>,
         NEW l \in Loops, NEW g \in Functors, g.conn = c, Joined(l, g),
         connections' \in [Names -> Conns \cup {None}],
         \A d \in Conns \ {c} : connections'[d] = connections[d],
         Queued(g, l)',
         connections'[c] = c \/ (l = loopOf[c] /\ g = Functor("destroyed", c))
  PROVE  IInv'
<1>1. /\ queue' \in [Loops -> Seq(Functors)]
      /\ \A k \in Loops : Distinct(queue'[k])
      /\ IsIn(g, queue'[l])
      /\ \A k \in Loops : \A h \in Functors :
           IsIn(h, queue'[k]) <=> (IsIn(h, queue[k]) /\ h.conn # c) \/ (k = l /\ h = g)
  BY DEF Joined
<1>2. /\ UNCHANGED <<numThreads, thread, loopPtr, loops, producerMap, next, nextConnId,
                     accepted, name, loopOf, fdOf>>
      /\ StartInv' /\ DealInv'
      /\ state'[c] = "disconnected" /\ \A d \in Conns \ {c} : state'[d] = state[d]
      /\ state' \in [Conns -> {"none", "connecting", "connected", "disconnected", "destroyed"}]
  BY ConnectionStep
<1>3. TypeOK'
  BY <1>1, <1>2 DEF IInv, TypeOK
<1>4. FdInv'
  BY <1>2 DEF IInv, FdInv, Live
<1>5. QueueInv'
  <2>1. ASSUME NEW k \in Loops, NEW h \in Functors, IsIn(h, queue'[k])
        PROVE  IF h.conn = c THEN Queued(h, k)' ELSE IsIn(h, queue[k])
    BY <1>1, <2>1
  <2> QED BY <1>1, <1>2, <2>1, QueueStep
<1>6. HeldInv'
  <2>1. ASSUME NEW d \in Conns \ {c}, IsIn(Functor("destroyed", d), queue[loopOf[d]])
        PROVE  IsIn(Functor("destroyed", d), queue'[loopOf[d]])
    <3>1. /\ Functor("destroyed", d) \in Functors /\ Functor("destroyed", d).conn = d
          /\ loopOf[d] \in Loops
      BY FunctorFacts DEF IInv, TypeOK
    <3> QED BY <1>1, <2>1, <3>1
  <2>2. connections'[c] = c \/ IsIn(Functor("destroyed", c), queue'[loopOf[c]])
    BY <1>1
  <2> QED BY <1>2, <2>1, <2>2 DEF IInv, HeldInv
<1>7. IdleFdIsOwn'
  BY DEF IInv, IdleFdIsOwn
<1> QED BY <1>2, <1>3, <1>4, <1>5, <1>6, <1>7 DEF IInv

\* The erase finds the connection under its own name: the assertion holds.
LEMMA RemoveInLoopStep ==
  ASSUME IInv, NEW c \in Conns, state[c] \in {"connected", "disconnected"}, connections[c] = c,
         state' = [state EXCEPT ![c] = "disconnected"],
         UNCHANGED <<startVars, dealVars, basePc, fds, idleFd>>,
         NEW q, Without(q, c), RemoveConnectionInLoop(c, q)
  PROVE  IInv'
<1> DEFINE g == Functor("destroyed", c)
<1>1. name[c] = c /\ c \in Names /\ c # None /\ loopOf[c] \in Loops
  <2>1. c <= accepted
    BY DEF IInv, TypeOK, DealInv, Conns
  <2> QED BY <2>1 DEF IInv, TypeOK, DealInv, Conns, Names, None
<1>2. /\ connections' = [connections EXCEPT ![c] = None] /\ fault' = fault
      /\ Posted(q, loopOf[c], g)
  BY <1>1 DEF RemoveConnectionInLoop, Posted
<1>3. /\ connections' \in [Names -> Conns \cup {None}] /\ connections'[c] = None
      /\ \A d \in Conns \ {c} : connections'[d] = connections[d]
  BY <1>1, <1>2 DEF IInv, TypeOK, Conns, Names
<1>4. g \in Functors /\ g.do = "destroyed" /\ g.conn = c
  BY FunctorFacts
<1>5. state'[c] = "disconnected" /\ loopOf' = loopOf
  BY DEF IInv, TypeOK, dealVars
<1>6. PICK l \in Loops : l = loopOf[c]
  BY <1>1
<1>7. Joined(l, g)
  BY <1>2, <1>4, <1>6, PostFacts
<1> HIDE DEF g
<1>8. Queued(g, l)'
  BY <1>3, <1>4, <1>5, <1>6 DEF Queued
<1>9. UNCHANGED <<startVars, dealVars, basePc, fds, idleFd, fault>>
  BY <1>2
<1>10. g = Functor("destroyed", c)
  BY DEF g
<1> QED BY <1>3, <1>4, <1>6, <1>7, <1>8, <1>9, <1>10, RemovalStep

LEMMA RemoveConnectionStep == ASSUME IInv, NEW c \in Conns, RemoveConnection(c) PROVE IInv'
<1>1. /\ state[c] = "connected" /\ state' = [state EXCEPT ![c] = "disconnected"]
      /\ UNCHANGED <<startVars, dealVars, basePc, fds, idleFd>>
  BY DEF RemoveConnection
<1>2. connections[c] = c
  BY <1>1 DEF IInv, HeldInv
<1>3. Without(queue, c)
  BY <1>1 DEF IInv, TypeOK, QueueInv, Queued, Functors, Without
<1>4. CASE loopOf[c] = Base
  <2>1. RemoveConnectionInLoop(c, queue)
    BY <1>4 DEF RemoveConnection
  <2> QED BY <1>1, <1>2, <1>3, <2>1, RemoveInLoopStep
<1>5. CASE loopOf[c] # Base
  <2> DEFINE g == Functor("remove", c)
  <2>1. Posted(queue, Base, g) /\ UNCHANGED <<connections, fault>>
    BY <1>5 DEF RemoveConnection, Posted
  <2>2. g \in Functors /\ g.do = "remove" /\ g.conn = c
    BY FunctorFacts
  <2> HIDE DEF g
  <2>3. Base \in Loops /\ connections \in [Names -> Conns \cup {None}]
    BY IoAssumption DEF Base, Loops, IInv, TypeOK
  <2>4. state'[c] = "disconnected"
    BY <1>1 DEF IInv, TypeOK
  <2>5. Queued(g, Base)'
    BY <1>2, <2>1, <2>2, <2>4 DEF Queued
  <2>6. Joined(Base, g)
    BY <1>3, <2>1, <2>2, <2>3, PostFacts
  <2> QED BY <1>1, <1>2, <2>1, <2>2, <2>3, <2>5, <2>6, RemovalStep
<1> QED BY <1>4, <1>5

LEMMA RunRemoveStep == ASSUME IInv, NEW c \in Conns, RunRemove(c) PROVE IInv'
<1> DEFINE g == Functor("remove", c)
           q == [queue EXCEPT ![Base] = Tail(@)]
<1>0. Base \in Loops
  BY IoAssumption DEF Base, Loops
<1>1. /\ Runs(g, Base) /\ RemoveConnectionInLoop(c, q)
      /\ UNCHANGED <<startVars, dealVars, basePc, state, fds, idleFd>>
  BY DEF RunRemove
<1>2. /\ Queued(g, Base) /\ Tail(queue[Base]) \in Seq(Functors) /\ Distinct(Tail(queue[Base]))
      /\ \A x : IsIn(x, Tail(queue[Base])) <=> IsIn(x, queue[Base]) /\ x # g
  BY <1>0, <1>1, HeadFacts
<1>3. /\ g \in Functors /\ g.do = "remove" /\ g.conn = c
      /\ \A h \in Functors : h.do = "remove" /\ h.conn = c => h = g
  BY FunctorFacts
<1> HIDE DEF g
<1>4. state[c] = "disconnected" /\ connections[c] = c /\ c # None
  BY <1>2, <1>3 DEF Queued, Conns, None
<1>5. state' = [state EXCEPT ![c] = "disconnected"]
  BY <1>1, <1>4 DEF IInv, TypeOK
<1>6. Without(q, c)
  <2>1. /\ q \in [Loops -> Seq(Functors)] /\ q[Base] = Tail(queue[Base])
        /\ \A k \in Loops \ {Base} : q[k] = queue[k]
    BY <1>0, <1>2 DEF IInv, TypeOK
  <2> HIDE DEF q
  <2>2. \A k \in Loops : Distinct(q[k])
    BY <1>2, <2>1 DEF IInv, QueueInv
  <2>3. ASSUME NEW k \in Loops, NEW h \in Functors, IsIn(h, queue[k]), h.conn = c
        PROVE  k = Base /\ h = g
    <3>1. Queued(h, k) /\ h.do \in {"established", "remove", "destroyed"}
      BY <2>3 DEF IInv, QueueInv, Functors
    <3> QED BY <1>3, <1>4, <2>3, <3>1 DEF Queued
  <2> QED BY <1>2, <1>3, <2>1, <2>2, <2>3 DEF Without
<1> HIDE DEF q
<1> QED BY <1>1, <1>4, <1>5, <1>6, RemoveInLoopStep

-----------------------------------------------------------------------------
(* Theorems *)

LEMMA IoStep == IInv /\ [Next]_vars => IInv'
<1> SUFFICES ASSUME IInv, [Next]_vars PROVE IInv'
  OBVIOUS
<1>1. ASSUME UNCHANGED vars PROVE IInv'
  <2>1. /\ UNCHANGED <<numThreads, thread, loopPtr, loops, producerMap, basePc, fds, idleFd>>
        /\ UNCHANGED <<next, nextConnId, accepted, name, loopOf, fdOf, connections, state>>
        /\ UNCHANGED <<queue, fault>>
    BY <1>1 DEF vars, startVars, connVars, dealVars
  <2>2. TypeOK'
    BY <2>1 DEF IInv, TypeOK
  <2>3. StartInv' /\ DealInv' /\ FdInv' /\ HeldInv' /\ IdleFdIsOwn'
    BY <2>1 DEF IInv, StartInv, DealInv, FdInv, HeldInv, IdleFdIsOwn, Live, Current
  <2>4. QueueInv'
    BY <2>1 DEF IInv, QueueInv, Queued
  <2> QED BY <2>2, <2>3, <2>4 DEF IInv
<1>2. ASSUME NEW l \in Loops, RunPending(l) PROVE IInv'
  BY <1>2, ConnectEstablishedStep, ConnectDestroyedStep, RunRemoveStep DEF RunPending
<1> QED BY <1>1, <1>2, StartStep, ThreadStep, NewConnectionStep, HandleReadFullStep,
           HandleReadRestStep, OtherFdStep, OnServerMessageStep, RemoveConnectionStep DEF Next

\* The inductive invariant holds in every state a worker's I/O threads can reach.
THEOREM IoInvariant == Spec => []IInv
  BY IoInit, IoStep, PTL DEF Spec

\* Every reachable state is well typed: in particular next_ is an index of loops_ whenever
\* getNextLoop uses it.
THEOREM TypeCorrect == Spec => []TypeOK
<1>1. IInv => TypeOK
  BY DEF IInv
<1> QED BY <1>1, IoInvariant, PTL

\* EventLoopThread::startLoop returns a loop that runs, for every number of threads.
THEOREM LoopsAreLive == Spec => []OnlyLiveLoops
<1>1. IInv => OnlyLiveLoops
  <2> SUFFICES ASSUME IInv, NEW l \in Range(loops)
               PROVE  thread[l] = "looping" /\ loopPtr[l] = l
    BY DEF OnlyLiveLoops
  <2>1. loops \in Seq(Loops) /\ DOMAIN loops = 1..Len(loops)
    BY LenProperties DEF IInv, TypeOK
  <2>2. PICK i \in 1..Len(loops) : loops[i] = l
    BY <2>1 DEF Range
  <2>3. l \in Loops /\ l = i
    BY <2>1, <2>2, ElementOfSeq DEF IInv, StartInv
  <2> QED BY <2>2, <2>3 DEF IInv, StartInv
<1> QED BY <1>1, IoInvariant, PTL

\* ProducerMap_ is complete before the first connection exists, so I/O threads may look it
\* up without a lock.
THEOREM ProducerMapSettles == Spec => []MapSettled
<1>1. IInv => MapSettled
  <2> SUFFICES ASSUME IInv, Dealt # {}
               PROVE  /\ basePc \in {"loop", "accept", "close", "open"}
                      /\ Len(loops) = numThreads /\ producerMap = Range(loops)
    BY DEF MapSettled
  <2>1. PICK c \in Conns : state[c] # "none"
    BY DEF Dealt
  <2>2. accepted > 0
    BY <2>1 DEF IInv, TypeOK, DealInv, Conns
  <2>3. basePc \in {"loop", "accept", "close", "open"} /\ Len(loops) = numThreads
    BY <2>2 DEF IInv, DealInv, StartInv
  <2>4. DOMAIN loops = 1..Len(loops)
    BY LenProperties DEF IInv, TypeOK
  <2>5. producerMap = Range(loops)
    BY <2>4 DEF IInv, StartInv, Range
  <2> QED BY <2>3, <2>5
<1> QED BY <1>1, IoInvariant, PTL

\* TcpServer::removeConnectionInLoop erases every connection once, under its own name, and
\* until connectDestroyed has run somebody has a reference to it, for any number of loops.
THEOREM HeldUntilTheEnd == Spec => []HeldUntilDestroyed
<1>1. IInv => HeldUntilDestroyed
  <2> SUFFICES ASSUME IInv
               PROVE  /\ fault # "eraseAssertion"
                      /\ \A c \in Dealt :
                           \/ state[c] = "destroyed" \/ c \in Range(connections)
                           \/ \E l \in Loops : \E f \in Range(queue[l]) :
                                f.conn = c /\ f.do = "destroyed"
    BY DEF HeldUntilDestroyed
  <2>1. ASSUME NEW c \in Dealt, state[c] # "destroyed", connections[c] # c
        PROVE  \E l \in Loops : \E f \in Range(queue[l]) : f.conn = c /\ f.do = "destroyed"
    <3>1. c \in Conns /\ state[c] = "disconnected"
      BY <2>1 DEF Dealt, IInv, TypeOK, HeldInv
    <3>2. IsIn(Functor("destroyed", c), queue[loopOf[c]]) /\ loopOf[c] \in Loops
      BY <2>1, <3>1 DEF IInv, TypeOK, HeldInv
    <3>3. DOMAIN queue[loopOf[c]] = 1..Len(queue[loopOf[c]])
      BY <3>2, LenProperties DEF IInv, TypeOK
    <3>4. Functor("destroyed", c) \in Range(queue[loopOf[c]])
      BY <3>2, <3>3 DEF IsIn, Range
    <3> QED BY <3>1, <3>2, <3>4, FunctorFacts
  <2>2. \A c \in Conns : connections[c] = c => c \in Range(connections)
    BY DEF IInv, TypeOK, Range, Conns, Names
  <2> QED BY <2>1, <2>2 DEF Dealt, IInv, HeldInv
<1> QED BY <1>1, IoInvariant, PTL

\* Acceptor::handleRead closes no descriptor but its own.
THEOREM ClosesOnlyItsOwn == Spec => []IdleFdIsOwn
<1>1. IInv => IdleFdIsOwn
  BY DEF IInv
<1> QED BY <1>1, IoInvariant, PTL
=============================================================================
