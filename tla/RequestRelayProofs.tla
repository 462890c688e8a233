------------------------- MODULE RequestRelayProofs -------------------------
(***************************************************************************)
(* Proofs about RequestRelay, for every number of pool threads and         *)
(* tunnels, every size of request and every amount of input.               *)
(***************************************************************************)
EXTENDS RequestRelay, TLAPS

(* The inductive invariant, in named parts. *)

\* Where solveOnMessage is inside the body of its loop.
Body == {"cache", "route", "context", "cast", "send", "copy", "retrieve", "assert"}

\* A copy never shrinks below the request being dealt with; isCheck, which keeps the loop
\* from looking at the copy, is set for a request that was complete.
CopyInv ==
  /\ \A task \in accepted : task[1] <= task[2]
  /\ \A h \in Threads :
       /\ from[h] <= to[h]
       /\ isCheck[h] \/ pc[h] \in Body => Complete(h)
       /\ pc[h] = "end" => ~isCheck[h]

\* A task is known by the end of its copy, for every read moves the end of the buffer.
TaskInv ==
  /\ \A task \in accepted : task[2] <= wr
  /\ \A s, t \in accepted : s[2] = t[2] => s = t
  /\ \A h \in Threads :
       /\ to[h] <= wr /\ http_[h][2] <= wr
       /\ pc[h] # "idle" => \E task \in done : task[2] = to[h]
       /\ pc[h] \in {"retrieve", "assert"} => to[h] <= http_[h][2]

\* Threads that run different tasks have copies with different ends.
ApartInv ==
  ~twice => \A g, h \in Threads : g # h /\ pc[g] # "idle" /\ pc[h] # "idle" => to[g] # to[h]

\* The buffer is only taken from by retrieves that nothing tore.
Sound == ~torn /\ answered = {}

\* No copy starts with a request that is still behind others in the input buffer.
BehindInv ==
  Sound => /\ \A task \in accepted : task[1] <= rd
           /\ \A h \in Threads :
                /\ from[h] <= rd
                /\ pc[h] = "retrieve" => from[h] <= http_[h][1] /\ http_[h][1] <= rd
                /\ pc[h] = "assert" => from[h] <= http_[h][1] /\ http_[h][1] + Parts <= rd

InOrder(n) == \A i \in 1..n : handed[i] = Parts * (i - 1)

\* Sent, and not yet retrieved.
Untaken(h) == pc[h] \in {"copy", "retrieve"}

\* The buffer has lost what was handed over.
AllTaken ==
  /\ \A h \in Threads : ~Untaken(h)
  /\ rd = Parts * Len(handed) /\ InOrder(Len(handed))

\* It still has the last request handed over, and one thread is about to take it.
OneUntaken ==
  \E h \in Threads :
    /\ Untaken(h) /\ \A g \in Threads \ {h} : ~Untaken(g)
    /\ Len(handed) > 0 /\ handed[Len(handed)] = from[h]
    /\ rd = Parts * (Len(handed) - 1) /\ InOrder(Len(handed) - 1)
    /\ pc[h] = "retrieve" => http_[h][1] = rd

\* The buffer does not hold, or did not hold, the thread's request alone: the assertion
\* will stop the worker.
DoomedAt(h) ==
  \/ pc[h] = "copy" /\ (from[h] < rd \/ from[h] + Parts < wr)
  \/ pc[h] \in {"retrieve", "assert"} /\ http_[h] # <<from[h], from[h] + Parts>>

Doomed == \E h \in Threads : DoomedAt(h)

HandedInv ==
  Running /\ Sound /\ ~twice /\ Distinct => AllTaken \/ OneUntaken \/ Doomed

RInv == TypeOK /\ CopyInv /\ TaskInv /\ ApartInv /\ BehindInv /\ HandedInv

-----------------------------------------------------------------------------
LEMMA Numbers == Parts \in Nat /\ Parts > 0 /\ MaxUnits \in Nat
  BY RelayAssumption

LEMMA NextMultiple == \A n \in Nat : n > 0 => Parts * (n - 1) + Parts = Parts * n
  BY RelayAssumption

\* NextRequest stays inside the copy.
LEMMA NextRequestType ==
  ASSUME TypeOK, CopyInv, NEW h \in Threads, pc[h] \in Body, NextRequest(h)
  PROVE  /\ pc' \in [Threads -> {"idle", "test", "again", "cache", "route", "context", "cast",
                                "send", "copy", "retrieve", "assert", "end"}]
         /\ from' \in [Threads -> Units] /\ to' \in [Threads -> Units]
         /\ isCheck' \in [Threads -> BOOLEAN] /\ UNCHANGED <<to, backend>>
<1>1. from[h] + Parts \in Units
  <2>1. from[h] \in 0..MaxUnits /\ to[h] \in 0..MaxUnits /\ to[h] - from[h] >= Parts
    BY DEF TypeOK, CopyInv, Complete, Units
  <2> QED BY <2>1, Numbers DEF Units
<1> QED BY <1>1 DEF TypeOK, NextRequest, Goto

LEMMA DieType == ASSUME TypeOK, NEW cause \in {"assertion", "nullTunnel", "badCast",
                          "danglingContext", "cache", "emptyQueue", "overrun"}, Die(cause)
                 PROVE  TypeOK'
  BY DEF TypeOK, Die, connVars, threadVars, tunnelVars, history

LEMMA DisconnectType ==
  ASSUME TypeOK, NEW t \in Tunnels \cup {NoTunnel}, Disconnect(t)
  PROVE  tunnel' \in [Tunnels -> {"unused", "connecting", "up", "closing", "teardown", "down"}]
  BY DEF TypeOK, Disconnect

\* Every step of the I/O thread, the pool threads and the base loop keeps the state well
\* typed, given that requests end within their copies.
LEMMA TypeStep == TypeOK /\ CopyInv /\ [Next]_vars => TypeOK'
<1> SUFFICES ASSUME TypeOK, CopyInv, [Next]_vars PROVE TypeOK'
  OBVIOUS
<1> USE Numbers
<1>1. ASSUME NEW n \in 1..MaxUnits, OnServerMessage(n) PROVE TypeOK'
  <2>1. wr' \in Units /\ rd' \in Units /\ rd' <= wr'
    BY <1>1 DEF OnServerMessage, TypeOK, Units
  <2>2. accepted' \subseteq Units \X Units /\ done' \subseteq accepted'
    <3>1. <<rd, wr + n>> \in Units \X Units
      BY <1>1, <2>1 DEF OnServerMessage, TypeOK
    <3> QED BY <1>1, <3>1 DEF OnServerMessage, Pool!Accept, TypeOK
  <2> QED BY <1>1, <2>1, <2>2 DEF OnServerMessage, TypeOK, threadVars, tunnelVars, history
<1>2. CASE OnServerDisconnection
  <2>1. tunnel' \in [Tunnels -> {"unused", "connecting", "up", "closing", "teardown", "down"}]
    BY <1>2, DisconnectType DEF OnServerDisconnection, TypeOK
  <2> QED BY <1>2, <2>1 DEF OnServerDisconnection, TypeOK, threadVars, history
<1>3. ASSUME NEW h \in Threads, NEW task \in accepted, SolveOnMessage(h, task) PROVE TypeOK'
  <2>1. task[1] \in Units /\ task[2] \in Units
    BY DEF TypeOK
  <2> QED BY <1>3, <2>1 DEF SolveOnMessage, Pool!Run, Goto, TypeOK, tunnelVars
<1>4. ASSUME NEW h \in Threads, LoopTest(h) PROVE TypeOK'
  BY <1>4 DEF LoopTest, Goto, TypeOK, connVars, tunnelVars, history
<1>5. ASSUME NEW h \in Threads, ReadCache(h) PROVE TypeOK'
  <2>1. CASE Die("assertion") \/ Die("cache")
    BY <2>1, DieType
  <2>2. CASE wr - rd >= Parts /\ rd' = rd + Parts /\ NextRequest(h)
             /\ answered' = answered \cup {from[h]}
             /\ UNCHANGED <<wr, torn, client, accepted, done, http_, tunnelVars, fault, handed, twice>>
    <3>1. rd' \in Units /\ rd' <= wr
      BY <2>2 DEF TypeOK, Units
    <3>2. pc[h] \in Body
      BY <1>5 DEF ReadCache, Body
    <3>3. answered' \subseteq Units
      BY <2>2 DEF TypeOK
    <3>4. /\ UNCHANGED <<wr, torn, client, accepted, done, http_, fault, handed, twice, to, backend>>
          /\ UNCHANGED <<context, tunnel, mapped, pushed>>
      BY <2>2 DEF NextRequest, tunnelVars
    <3>5. /\ pc' \in [Threads -> {"idle", "test", "again", "cache", "route", "context", "cast",
                                  "send", "copy", "retrieve", "assert", "end"}]
          /\ from' \in [Threads -> Units] /\ to' \in [Threads -> Units]
          /\ isCheck' \in [Threads -> BOOLEAN]
      BY <2>2, <3>2, NextRequestType
    <3> QED BY <3>1, <3>3, <3>4, <3>5 DEF TypeOK
  <2>3. CASE Goto(h, "route") /\ UNCHANGED <<connVars, from, to, isCheck, http_, backend, tunnelVars,
                                             fault, history>>
    BY <2>3 DEF Goto, TypeOK, connVars, tunnelVars, history
  <2> QED BY <1>5, <2>1, <2>2, <2>3 DEF ReadCache
<1>6. ASSUME NEW h \in Threads, CreateTunnel(h) PROVE TypeOK'
  BY <1>6 DEF CreateTunnel, Goto, TypeOK, connVars, history
<1>7. ASSUME NEW h \in Threads, HasContext(h) PROVE TypeOK'
  BY <1>7 DEF HasContext, Goto, TypeOK, connVars, tunnelVars, history
<1>8. ASSUME NEW h \in Threads, TestContext(h) PROVE TypeOK'
  BY <1>8 DEF TestContext, Goto, TypeOK, connVars, tunnelVars, history
<1>9. ASSUME NEW h \in Threads, PickBackend(h) PROVE TypeOK'
  <2>1. CASE Die("badCast") \/ Die("nullTunnel")
    BY <2>1, DieType
  <2>2. CASE ~(Die("badCast") \/ Die("nullTunnel"))
    <3>1. /\ context # NoTunnel /\ mapped # NoTunnel
          /\ backend' = [backend EXCEPT ![h] = context] /\ pushed' = pushed \cup {mapped}
          /\ pc' = [pc EXCEPT ![h] = "send"]
          /\ UNCHANGED <<connVars, from, to, isCheck, http_, context, tunnel, mapped, fault, history>>
      BY <1>9, <2>2 DEF PickBackend, Goto
    <3>2. backend' \in [Threads -> Tunnels \cup {NoTunnel}] /\ pushed' \subseteq Tunnels
      BY <3>1 DEF TypeOK
    <3>3. pc' \in [Threads -> {"idle", "test", "again", "cache", "route", "context", "cast",
                               "send", "copy", "retrieve", "assert", "end"}]
      BY <3>1 DEF TypeOK
    <3> QED BY <3>1, <3>2, <3>3 DEF TypeOK, connVars, history
  <2> QED BY <2>1, <2>2
<1>10. ASSUME NEW h \in Threads, Send(h) PROVE TypeOK'
  <2>1. CASE Die("danglingContext")
    BY <2>1, DieType
  <2>2. CASE ~Die("danglingContext")
    <3>1. handed' = Append(handed, from[h]) /\ handed \in Seq(Units) /\ from[h] \in Units
      BY <1>10, <2>2 DEF Send, TypeOK
    <3>2. handed' \in Seq(Units)
      BY <3>1
    <3> QED BY <1>10, <2>2, <3>2 DEF Send, Goto, TypeOK, connVars, tunnelVars, history
  <2> QED BY <2>1, <2>2
<1>11. ASSUME NEW h \in Threads, CopyBuffer(h) PROVE TypeOK'
  BY <1>11 DEF CopyBuffer, Goto, TypeOK, connVars, tunnelVars, history
<1>12. ASSUME NEW h \in Threads, Retrieve(h) PROVE TypeOK'
  <2>1. CASE Die("assertion")
    BY <2>1, DieType
  <2>2. CASE ~Die("assertion")
    <3>1. rd' \in Units /\ rd' <= wr
      BY <1>12, <2>2 DEF Retrieve, TypeOK, Units
    <3> QED BY <1>12, <2>2, <3>1 DEF Retrieve, Goto, TypeOK, tunnelVars, history
  <2> QED BY <2>1, <2>2
<1>17. ASSUME NEW h \in Threads, NEW n \in 1..MaxUnits, TornRetrieve(h, n) PROVE TypeOK'
  <2>1. rd' \in Units /\ wr' \in Units /\ rd' <= wr'
    BY <1>17 DEF TornRetrieve, TypeOK, Units
  <2> QED BY <1>17, <2>1 DEF TornRetrieve, Goto, TypeOK, tunnelVars, history
<1>18. ASSUME NEW h \in Threads, NEW g \in Threads, RacingRetrieves(g, h) PROVE TypeOK'
  <2>1. CASE Die("overrun")
    BY <2>1, DieType
  <2>2. CASE ~Die("overrun")
    <3>1. rd' \in Units /\ rd' <= wr
      BY <1>18, <2>2 DEF RacingRetrieves, TypeOK, Units
    <3>2. pc' = [pc EXCEPT ![g] = "assert", ![h] = "assert"]
      BY <1>18, <2>2 DEF RacingRetrieves
    <3>3. pc' \in [Threads -> {"idle", "test", "again", "cache", "route", "context", "cast",
                               "send", "copy", "retrieve", "assert", "end"}]
      BY <3>2 DEF TypeOK
    <3> QED BY <1>18, <2>2, <3>1, <3>3 DEF RacingRetrieves, TypeOK, tunnelVars, history
  <2> QED BY <2>1, <2>2
<1>19. ASSUME NEW h \in Threads, AssertSame(h) PROVE TypeOK'
  <2>1. CASE Die("assertion")
    BY <2>1, DieType
  <2>2. CASE ~Die("assertion")
    <3>1. pc[h] \in Body /\ NextRequest(h)
      BY <1>19, <2>2 DEF AssertSame, Body
    <3>2. http_' \in [Threads -> Units \X Units]
      <4>1. <<0, 0>> \in Units \X Units
        BY DEF Units
      <4> QED BY <1>19, <2>2, <4>1 DEF AssertSame, TypeOK
    <3> QED BY <1>19, <2>2, <3>1, <3>2, NextRequestType
            DEF AssertSame, TypeOK, connVars, tunnelVars, history
  <2> QED BY <2>1, <2>2
<1>13. ASSUME NEW h \in Threads, CloseIfDirty(h) PROVE TypeOK'
  <2>1. tunnel' \in [Tunnels -> {"unused", "connecting", "up", "closing", "teardown", "down"}]
    BY <1>13, DisconnectType DEF CloseIfDirty, TypeOK
  <2>2. 0 \in Units
    BY DEF Units
  <2> QED BY <1>13, <2>1, <2>2 DEF CloseIfDirty, Goto, TypeOK, history
<1>14. ASSUME NEW t \in Tunnels, TunnelUp(t) \/ TunnelDown(t) \/ ShutdownClient(t) PROVE TypeOK'
  BY <1>14 DEF TunnelUp, TunnelDown, Teardown, ShutdownClient, TypeOK, connVars, threadVars,
                 history
<1>15. ASSUME NEW t \in Tunnels, OnClientMessage(t) PROVE TypeOK'
  BY <1>15, DieType DEF OnClientMessage
<1>16. CASE UNCHANGED vars
  BY <1>16 DEF TypeOK, vars, connVars, threadVars, tunnelVars, history
<1> QED BY <1>1, <1>2, <1>3, <1>4, <1>5, <1>6, <1>7, <1>8, <1>9, <1>10, <1>11, <1>12, <1>13,
           <1>14, <1>15, <1>16, <1>17, <1>18, <1>19 DEF Next, PoolThread

\* How a thread's step shows in what CopyInv looks at.
LEMMA CopyStep == TypeOK /\ CopyInv /\ [Next]_vars => CopyInv'
<1> SUFFICES ASSUME TypeOK, CopyInv, [Next]_vars PROVE CopyInv'
  OBVIOUS
<1> USE Numbers
<1>0. /\ rd \in Nat /\ wr \in Nat /\ rd <= wr
      /\ \A h \in Threads : from[h] \in Nat /\ to[h] \in Nat
      /\ \A task \in accepted : task[1] \in Nat /\ task[2] \in Nat
  BY DEF TypeOK, Units
<1>1. ASSUME NEW n \in 1..MaxUnits, OnServerMessage(n) PROVE CopyInv'
  <2>1. \A task \in accepted' : task[1] <= task[2]
    BY <1>0, <1>1 DEF OnServerMessage, Pool!Accept, CopyInv
  <2> QED BY <1>1, <2>1 DEF OnServerMessage, CopyInv, Complete, threadVars
<1>2. ASSUME UNCHANGED <<accepted, pc, from, to, isCheck>> PROVE CopyInv'
  BY <1>2 DEF CopyInv, Complete
<1>3. ASSUME NEW h \in Threads, NEW task \in accepted, SolveOnMessage(h, task) PROVE CopyInv'
  BY <1>0, <1>3 DEF SolveOnMessage, Pool!Run, Goto, CopyInv, Complete, TypeOK, Body
<1>4. ASSUME NEW h \in Threads, LoopTest(h) PROVE CopyInv'
  BY <1>0, <1>4 DEF LoopTest, Goto, CopyInv, Complete, TypeOK, Body, connVars
<1>5. ASSUME NEW h \in Threads, pc[h] \in Body, NextRequest(h), UNCHANGED accepted PROVE CopyInv'
  <2>1. from[h] + Parts <= to[h]
    BY <1>0, <1>5 DEF CopyInv, Complete
  <2> QED BY <1>0, <1>5, <2>1 DEF NextRequest, Goto, CopyInv, Complete, TypeOK, Body
<1>6. ASSUME NEW h \in Threads, NEW label \in Body \cup {"test", "again"},
             pc[h] \in Body, Goto(h, label), UNCHANGED <<accepted, from, to, isCheck>>
      PROVE  CopyInv'
  BY <1>0, <1>6 DEF Goto, CopyInv, Complete, TypeOK, Body
<1>7. ASSUME NEW h \in Threads, ReadCache(h) PROVE CopyInv'
  BY <1>2, <1>5, <1>6, <1>7 DEF ReadCache, Die, Body, connVars, threadVars
<1>8. ASSUME NEW h \in Threads, CreateTunnel(h) PROVE CopyInv'
  BY <1>0, <1>8 DEF CreateTunnel, Goto, CopyInv, Complete, TypeOK, Body, connVars
<1>9. ASSUME NEW h \in Threads, HasContext(h) PROVE CopyInv'
  BY <1>6, <1>9 DEF HasContext, Body, connVars
<1>10. ASSUME NEW h \in Threads, TestContext(h) PROVE CopyInv'
  BY <1>6, <1>10 DEF TestContext, Body, connVars
<1>11. ASSUME NEW h \in Threads, PickBackend(h) PROVE CopyInv'
  BY <1>2, <1>6, <1>11 DEF PickBackend, Die, Body, connVars, threadVars
<1>12. ASSUME NEW h \in Threads, Send(h) PROVE CopyInv'
  BY <1>2, <1>6, <1>12 DEF Send, Die, Body, connVars, threadVars
<1>13. ASSUME NEW h \in Threads, CopyBuffer(h) \/ Retrieve(h) PROVE CopyInv'
  BY <1>2, <1>6, <1>13 DEF CopyBuffer, Retrieve, Die, Body, connVars, threadVars
<1>14. ASSUME NEW h \in Threads, NEW n \in 1..MaxUnits, TornRetrieve(h, n) PROVE CopyInv'
  BY <1>6, <1>14 DEF TornRetrieve, Body
<1>19. ASSUME NEW h \in Threads, NEW g \in Threads, RacingRetrieves(g, h) PROVE CopyInv'
  <2>1. CASE Die("overrun")
    BY <1>2, <2>1 DEF Die, connVars, threadVars
  <2>2. CASE ~Die("overrun")
    <3>1. /\ pc[g] = "retrieve" /\ pc[h] = "retrieve" /\ UNCHANGED <<accepted, from, to, isCheck>>
          /\ pc' = [pc EXCEPT ![g] = "assert", ![h] = "assert"]
      BY <1>19, <2>2 DEF RacingRetrieves
    <3>2. \A k \in Threads : pc'[k] = pc[k] \/ (pc[k] = "retrieve" /\ pc'[k] = "assert")
      BY <3>1 DEF TypeOK
    <3> QED BY <3>1, <3>2 DEF CopyInv, Complete, Body
  <2> QED BY <2>1, <2>2
<1>20. ASSUME NEW h \in Threads, AssertSame(h) PROVE CopyInv'
  BY <1>2, <1>5, <1>20 DEF AssertSame, Die, Body, connVars, threadVars
<1>15. ASSUME NEW h \in Threads, CloseIfDirty(h) PROVE CopyInv'
  BY <1>0, <1>15 DEF CloseIfDirty, Goto, CopyInv, Complete, TypeOK, Body
<1>16. CASE OnServerDisconnection
  BY <1>2, <1>16 DEF OnServerDisconnection, threadVars
<1>17. ASSUME NEW t \in Tunnels,
              TunnelUp(t) \/ TunnelDown(t) \/ ShutdownClient(t) \/ OnClientMessage(t)
       PROVE  CopyInv'
  BY <1>2, <1>17 DEF TunnelUp, TunnelDown, ShutdownClient, OnClientMessage, Die, connVars, threadVars
<1>18. CASE UNCHANGED vars
  BY <1>2, <1>18 DEF vars, connVars, threadVars
<1> QED BY <1>1, <1>3, <1>4, <1>7, <1>8, <1>9, <1>10, <1>11, <1>12, <1>13, <1>14, <1>15, <1>16,
           <1>17, <1>18, <1>19, <1>20 DEF Next, PoolThread

-----------------------------------------------------------------------------
(* What a step does to the buffer, the copies and the account, seen by thread. *)

Early == {"test", "again", "cache", "route", "context", "cast", "send", "end"}

\* A thread that stays where it is, moves before its send, or ends its task.
Rests(h) ==
  \/ pc'[h] = pc[h] /\ from'[h] = from[h] /\ to'[h] = to[h]
  \/ pc[h] \in Early /\ pc'[h] \in Early /\ from'[h] = from[h] /\ to'[h] = to[h]
  \/ pc[h] = "end" /\ pc'[h] = "idle" /\ from'[h] = 0 /\ to'[h] = 0

Quiet ==
  /\ Running' => Running
  /\ UNCHANGED <<rd, wr, torn, accepted, done, http_, handed, answered, twice>>
  /\ \A h \in Threads : Rests(h)

Others(h) == \A g \in Threads \ {h} : pc'[g] = pc[g] /\ from'[g] = from[g] /\ to'[g] = to[g]
                                      /\ http_'[g] = http_[g]

Move(h, label) == pc'[h] = label /\ to'[h] = to[h] /\ Others(h)

Starts(h, task) ==
  /\ pc[h] = "idle" /\ pc'[h] = "test" /\ from'[h] = task[1] /\ to'[h] = task[2]
  /\ Others(h) /\ http_'[h] = http_[h]
  /\ done' = done \cup {task} /\ twice' = (twice \/ task \in done)
  /\ UNCHANGED <<rd, wr, torn, accepted, handed, answered>>

Hits(h) ==
  /\ pc[h] = "cache" /\ Move(h, "test") /\ http_'[h] = http_[h] /\ answered' # {}
  /\ UNCHANGED <<wr, accepted, done, twice>>

Sends(h) ==
  /\ pc[h] = "send" /\ Move(h, "copy") /\ from'[h] = from[h] /\ http_'[h] = http_[h]
  /\ handed' = Append(handed, from[h])
  /\ UNCHANGED <<rd, wr, torn, accepted, done, answered, twice>>

Copies(h) ==
  /\ pc[h] = "copy" /\ Move(h, "retrieve") /\ from'[h] = from[h] /\ http_'[h] = <<rd, wr>>
  /\ UNCHANGED <<rd, wr, torn, accepted, done, handed, answered, twice>>

Takes(h) ==
  /\ pc[h] = "retrieve" /\ Move(h, "assert") /\ from'[h] = from[h] /\ http_'[h] = http_[h]
  /\ rd' = rd + Parts
  /\ UNCHANGED <<wr, torn, accepted, done, handed, answered, twice>>

Tears(h, n) ==
  /\ pc[h] = "retrieve" /\ Move(h, "assert") /\ http_'[h] = http_[h]
  /\ wr' \in {wr, wr + n} /\ torn'
  /\ UNCHANGED <<accepted, done, twice>>

Races(g, h) ==
  /\ pc[g] = "retrieve" /\ pc[h] = "retrieve" /\ rd' = rd + Parts
  /\ \A k \in Threads : pc'[k] = pc[k] \/ (pc[k] = "retrieve" /\ pc'[k] = "assert")
  /\ UNCHANGED <<wr, torn, accepted, done, from, to, http_, handed, answered, twice>>

Passes(h) ==
  /\ pc[h] = "assert" /\ SameBytes(h) /\ Move(h, "test")
  /\ from'[h] = from[h] + Parts /\ http_'[h] = <<0, 0>>
  /\ UNCHANGED <<rd, wr, torn, accepted, done, handed, answered, twice>>

Reads(n) ==
  /\ wr' = wr + n
  /\ \/ accepted' = accepted \cup {<<rd, wr + n>>} /\ done' = done
     \/ UNCHANGED <<accepted, done>>
  /\ UNCHANGED <<rd, torn, pc, from, to, http_, handed, answered, twice>>

ThreadStep(h) ==
  \/ \E task \in accepted : Starts(h, task)
  \/ Hits(h) \/ Sends(h) \/ Copies(h) \/ Takes(h) \/ Passes(h)
  \/ \E n \in 1..MaxUnits : Tears(h, n)
  \/ \E g \in Threads \ {h} : Races(g, h)

\* Every step is one of these, and none brings a dead worker back.
LEMMA Kinds ==
  ASSUME TypeOK, [Next]_vars
  PROVE  /\ Running' => Running
         /\ Quiet \/ (\E n \in 1..MaxUnits : Reads(n)) \/ (\E h \in Threads : ThreadStep(h))
<1>1. Running' => Running
  BY DEF Next, PoolThread, OnServerMessage, OnServerDisconnection, SolveOnMessage, LoopTest,
         ReadCache, CreateTunnel, HasContext, TestContext, PickBackend, Send, CopyBuffer, Retrieve,
         TornRetrieve, RacingRetrieves, AssertSame, CloseIfDirty, TunnelUp, TunnelDown,
         ShutdownClient, OnClientMessage, Running, vars
<1>2. ASSUME UNCHANGED <<connVars, threadVars, history>> PROVE Quiet
  BY <1>1, <1>2 DEF Quiet, Rests, connVars, threadVars, history
<1>3. ASSUME NEW h \in Threads, NEW label \in Early, pc[h] \in Early, Goto(h, label),
             UNCHANGED <<connVars, from, to, http_, history>>
      PROVE  Quiet
  <2>1. \A g \in Threads : pc'[g] = pc[g] \/ (pc[g] \in Early /\ pc'[g] \in Early)
    BY <1>3 DEF Goto, TypeOK
  <2> QED BY <1>1, <1>3, <2>1 DEF Quiet, Rests, connVars, history
<1>4. ASSUME NEW n \in 1..MaxUnits, OnServerMessage(n) PROVE Reads(n)
  BY <1>4 DEF OnServerMessage, Pool!Accept, Reads, threadVars, history
<1>5. CASE OnServerDisconnection
  <2>1. Quiet
    BY <1>1, <1>5 DEF OnServerDisconnection, Quiet, Rests, threadVars, history
  <2> QED BY <1>1, <2>1
<1>6. ASSUME NEW h \in Threads, NEW task \in accepted, SolveOnMessage(h, task) PROVE Starts(h, task)
  BY <1>6 DEF SolveOnMessage, Pool!Run, Goto, Starts, Others, TypeOK
<1>7. ASSUME NEW h \in Threads, LoopTest(h) PROVE Quiet
  BY <1>3, <1>7 DEF LoopTest, Early
<1>8. ASSUME NEW h \in Threads, ReadCache(h) PROVE Quiet \/ Hits(h)
  <2>1. CASE Die("assertion") \/ Die("cache")
    BY <1>2, <2>1 DEF Die
  <2>2. CASE Goto(h, "route") /\ UNCHANGED <<connVars, from, to, isCheck, http_, backend, tunnelVars,
                                             fault, history>>
    BY <1>3, <1>8, <2>2 DEF ReadCache, Early
  <2>3. CASE /\ NextRequest(h) /\ answered' = answered \cup {from[h]}
             /\ UNCHANGED <<wr, torn, client, accepted, done, http_, tunnelVars, fault, handed, twice>>
    BY <1>8, <2>3 DEF ReadCache, NextRequest, Goto, Hits, Move, Others, TypeOK
  <2> QED BY <1>8, <2>1, <2>2, <2>3 DEF ReadCache
<1>9. ASSUME NEW h \in Threads, CreateTunnel(h) \/ HasContext(h) \/ TestContext(h) PROVE Quiet
  <2>1. PICK label \in Early : Goto(h, label)
    BY <1>9 DEF CreateTunnel, HasContext, TestContext, Early
  <2>2. pc[h] \in Early /\ UNCHANGED <<connVars, from, to, http_, history>>
    BY <1>9 DEF CreateTunnel, HasContext, TestContext, Early
  <2> QED BY <1>3, <2>1, <2>2
<1>10. ASSUME NEW h \in Threads, PickBackend(h) PROVE Quiet
  BY <1>2, <1>3, <1>10 DEF PickBackend, Die, Early
<1>11. ASSUME NEW h \in Threads, Send(h) PROVE Quiet \/ Sends(h)
  BY <1>2, <1>11 DEF Send, Die, Goto, Sends, Move, Others, TypeOK, connVars
<1>12. ASSUME NEW h \in Threads, CopyBuffer(h) PROVE Copies(h)
  BY <1>12 DEF CopyBuffer, Goto, Copies, Move, Others, TypeOK, connVars, history
<1>13. ASSUME NEW h \in Threads, Retrieve(h) PROVE Quiet \/ Takes(h)
  BY <1>2, <1>13 DEF Retrieve, Die, Goto, Takes, Move, Others, TypeOK, history
<1>14. ASSUME NEW h \in Threads, NEW n \in 1..MaxUnits, TornRetrieve(h, n) PROVE Tears(h, n)
  BY <1>14 DEF TornRetrieve, Goto, Tears, Move, Others, TypeOK, history
<1>15. ASSUME NEW h \in Threads, NEW g \in Threads, RacingRetrieves(g, h) PROVE Quiet \/ Races(g, h)
  BY <1>2, <1>15 DEF RacingRetrieves, Die, Races, TypeOK, history
<1>16. ASSUME NEW h \in Threads, AssertSame(h) PROVE Quiet \/ Passes(h)
  BY <1>2, <1>16 DEF AssertSame, Die, NextRequest, Goto, Passes, Move, Others, TypeOK, connVars, history
<1>17. ASSUME NEW h \in Threads, CloseIfDirty(h) PROVE Quiet
  BY <1>1, <1>17 DEF CloseIfDirty, Goto, Quiet, Rests, TypeOK, history
<1>18. ASSUME NEW t \in Tunnels,
              TunnelUp(t) \/ TunnelDown(t) \/ OnClientMessage(t)
       PROVE  Quiet
  BY <1>2, <1>18 DEF TunnelUp, TunnelDown, OnClientMessage, Die
<1>19. ASSUME NEW t \in Tunnels, ShutdownClient(t) PROVE Quiet
  BY <1>1, <1>19 DEF ShutdownClient, Quiet, Rests, threadVars, history
<1>20. CASE UNCHANGED vars
  BY <1>1, <1>2, <1>20 DEF vars
<1>21. ASSUME NEW h \in Threads, PoolThread(h) PROVE Quiet \/ ThreadStep(h)
  BY <1>6, <1>7, <1>8, <1>9, <1>10, <1>11, <1>12, <1>13, <1>14, <1>15, <1>16, <1>17, <1>21
     DEF PoolThread, ThreadStep
<1> QED BY <1>1, <1>4, <1>5, <1>18, <1>19, <1>20, <1>21 DEF Next

\* Reads number the tasks by the ends of their copies, and a task that starts keeps its end.
LEMMA TaskStep == TypeOK /\ CopyInv /\ TaskInv /\ [Next]_vars => TaskInv'
<1> SUFFICES ASSUME TypeOK, CopyInv, TaskInv, [Next]_vars PROVE TaskInv'
  OBVIOUS
<1> USE Numbers
<1>0. /\ rd \in Nat /\ wr \in Nat
      /\ \A h \in Threads : from[h] \in Nat /\ to[h] \in Nat /\ http_[h][2] \in Nat
      /\ \A task \in accepted : task \in Nat \X Nat
      /\ done \subseteq accepted
  BY DEF TypeOK, Units
<1>1. CASE Quiet
  <2>1. \A h \in Threads : to'[h] <= wr' /\ http_'[h][2] <= wr'
    BY <1>0, <1>1 DEF Quiet, Rests, TaskInv
  <2>2. ASSUME NEW h \in Threads, pc'[h] # "idle" PROVE \E task \in done' : task[2] = to'[h]
    BY <1>1, <2>2 DEF Quiet, Rests, TaskInv, Early
  <2>3. ASSUME NEW h \in Threads, pc'[h] \in {"retrieve", "assert"} PROVE to'[h] <= http_'[h][2]
    BY <1>1, <2>3 DEF Quiet, Rests, TaskInv, Early
  <2> QED BY <1>1, <2>1, <2>2, <2>3 DEF Quiet, TaskInv
<1>2. ASSUME NEW n \in 1..MaxUnits, Reads(n) PROVE TaskInv'
  <2>1. \A task \in accepted' : task[2] <= wr'
    BY <1>0, <1>2 DEF Reads, TaskInv
  <2>2. \A s, t \in accepted' : s[2] = t[2] => s = t
    <3>1. CASE UNCHANGED accepted
      BY <3>1 DEF TaskInv
    <3>2. CASE accepted' = accepted \cup {<<rd, wr + n>>}
      <4>1. \A task \in accepted : task[2] # wr + n
        BY <1>0 DEF TaskInv
      <4> QED BY <3>2, <4>1 DEF TaskInv
    <3> QED BY <1>2, <3>1, <3>2 DEF Reads
  <2>3. \A h \in Threads : to'[h] <= wr' /\ http_'[h][2] <= wr'
    BY <1>0, <1>2 DEF Reads, TaskInv
  <2>4. done' = done
    BY <1>2 DEF Reads
  <2> QED BY <1>2, <2>1, <2>2, <2>3, <2>4 DEF Reads, TaskInv
<1>3. ASSUME NEW h \in Threads, NEW task \in accepted, Starts(h, task) PROVE TaskInv'
  <2>1. to'[h] <= wr' /\ \E t \in done' : t[2] = to'[h]
    BY <1>3 DEF Starts, TaskInv
  <2>2. \A g \in Threads \ {h} : pc'[g] # "idle" => \E t \in done' : t[2] = to'[g]
    BY <1>3 DEF Starts, Others, TaskInv
  <2> QED BY <1>3, <2>1, <2>2 DEF Starts, Others, TaskInv
<1>4. ASSUME NEW h \in Threads, Hits(h) \/ Sends(h) \/ Takes(h) PROVE TaskInv'
  <2>1. /\ UNCHANGED <<wr, accepted, done>> /\ to'[h] = to[h] /\ http_'[h] = http_[h] /\ Others(h)
        /\ pc[h] # "idle"
        /\ pc'[h] \in {"retrieve", "assert"} => pc[h] \in {"retrieve", "assert"}
    BY <1>4 DEF Hits, Sends, Takes, Move
  <2> QED BY <2>1 DEF Others, TaskInv
<1>5. ASSUME NEW h \in Threads, Copies(h) PROVE TaskInv'
  <2>1. /\ UNCHANGED <<wr, accepted, done>> /\ to'[h] = to[h] /\ http_'[h][2] = wr /\ Others(h)
        /\ pc[h] # "idle"
    BY <1>5 DEF Copies, Move
  <2>2. to'[h] <= http_'[h][2] /\ http_'[h][2] <= wr'
    BY <1>0, <2>1 DEF TaskInv
  <2> QED BY <2>1, <2>2 DEF Others, TaskInv
<1>6. ASSUME NEW h \in Threads, Passes(h) PROVE TaskInv'
  <2>1. /\ UNCHANGED <<wr, accepted, done>> /\ to'[h] = to[h] /\ http_'[h][2] = 0 /\ Others(h)
        /\ pc[h] # "idle" /\ pc'[h] = "test"
    BY <1>6 DEF Passes, Move
  <2>2. http_'[h][2] <= wr'
    BY <1>0, <2>1
  <2> QED BY <2>1, <2>2 DEF Others, TaskInv
<1>7. ASSUME NEW h \in Threads, NEW n \in 1..MaxUnits, Tears(h, n) PROVE TaskInv'
  <2>1. /\ UNCHANGED <<accepted, done>> /\ to'[h] = to[h] /\ http_'[h] = http_[h] /\ Others(h)
        /\ pc[h] = "retrieve" /\ wr' \in {wr, wr + n}
    BY <1>7 DEF Tears, Move
  <2>2. wr <= wr' /\ wr' \in Nat
    BY <1>0, <2>1
  <2>3. \A g \in Threads : to'[g] = to[g] /\ http_'[g] = http_[g]
    BY <2>1 DEF Others
  <2>4. \A g \in Threads : to'[g] <= wr' /\ http_'[g][2] <= wr'
    BY <1>0, <2>2, <2>3 DEF TaskInv
  <2>5. \A task \in accepted' : task[2] <= wr'
    BY <1>0, <2>1, <2>2 DEF TaskInv
  <2> QED BY <2>1, <2>3, <2>4, <2>5 DEF Others, TaskInv
<1>8. ASSUME NEW h \in Threads, NEW g \in Threads, Races(g, h) PROVE TaskInv'
  BY <1>8 DEF Races, TaskInv
<1> QED BY <1>1, <1>2, <1>3, <1>4, <1>5, <1>6, <1>7, <1>8, Kinds DEF ThreadStep

\* A task that has not run before has a copy unlike those of the running ones.
LEMMA ApartStep == TypeOK /\ TaskInv /\ ApartInv /\ [Next]_vars => ApartInv'
<1> SUFFICES ASSUME TypeOK, TaskInv, ApartInv, [Next]_vars, ~twice' PROVE ApartInv'
  BY DEF ApartInv
<1>1. ASSUME NEW h \in Threads, NEW task \in accepted, Starts(h, task) PROVE ApartInv'
  <2>1. ~twice /\ task \notin done /\ to'[h] = task[2] /\ Others(h)
    BY <1>1 DEF Starts
  <2>2. ASSUME NEW g \in Threads \ {h}, pc[g] # "idle" PROVE to[g] # task[2]
    <3>1. PICK t \in done : t[2] = to[g]
      BY <2>2 DEF TaskInv
    <3>2. t \in accepted
      BY DEF TypeOK
    <3> QED BY <2>1, <3>1, <3>2 DEF TaskInv
  <2> QED BY <2>1, <2>2 DEF ApartInv, Others
<1>2. ASSUME UNCHANGED twice,
             \A h \in Threads : pc'[h] # "idle" => pc[h] # "idle" /\ to'[h] = to[h]
      PROVE  ApartInv'
  BY <1>2 DEF ApartInv
<1>3. CASE Quiet
  BY <1>2, <1>3 DEF Quiet, Rests, Early
<1>4. ASSUME NEW n \in 1..MaxUnits, Reads(n) PROVE ApartInv'
  BY <1>2, <1>4 DEF Reads
<1>5. ASSUME NEW h \in Threads,
             Hits(h) \/ Sends(h) \/ Copies(h) \/ Takes(h) \/ Passes(h) \/ \E n \in 1..MaxUnits : Tears(h, n)
      PROVE  ApartInv'
  <2>1. UNCHANGED twice /\ pc[h] # "idle" /\ to'[h] = to[h] /\ Others(h)
    BY <1>5 DEF Hits, Sends, Copies, Takes, Passes, Tears, Move
  <2> QED BY <1>2, <2>1 DEF Others
<1>6. ASSUME NEW h \in Threads, NEW g \in Threads, Races(g, h) PROVE ApartInv'
  BY <1>2, <1>6 DEF Races
<1> QED BY <1>1, <1>3, <1>4, <1>5, <1>6, Kinds DEF ThreadStep

\* No copy gets ahead of the input buffer: a request is erased from a copy when it has
\* been taken out of the buffer.
LEMMA BehindStep == TypeOK /\ BehindInv /\ [Next]_vars => BehindInv'
<1> SUFFICES ASSUME TypeOK, BehindInv, [Next]_vars, Sound' PROVE BehindInv'
  BY DEF BehindInv
<1> USE Numbers
<1>0. /\ rd \in Nat /\ wr \in Nat /\ rd <= wr
      /\ \A h \in Threads : from[h] \in Nat /\ http_[h][1] \in Nat
      /\ \A task \in accepted : task[1] \in Nat
  BY DEF TypeOK, Units
<1>1. CASE Quiet
  <2>1. \A h \in Threads : from'[h] = from[h] \/ (from'[h] = 0 /\ pc'[h] = "idle")
    BY <1>1 DEF Quiet, Rests
  <2>2. \A h \in Threads : pc'[h] \in {"retrieve", "assert"} => pc'[h] = pc[h] /\ from'[h] = from[h]
    BY <1>1 DEF Quiet, Rests, Early
  <2>3. UNCHANGED <<rd, accepted, http_>> /\ Sound
    BY <1>1 DEF Quiet, Sound
  <2> QED BY <1>0, <2>1, <2>2, <2>3 DEF BehindInv
<1>2. ASSUME NEW n \in 1..MaxUnits, Reads(n) PROVE BehindInv'
  <2>1. Sound /\ UNCHANGED <<rd, pc, from, http_>>
    BY <1>2 DEF Reads, Sound
  <2>2. \A task \in accepted' : task[1] <= rd
    BY <1>0, <1>2, <2>1 DEF Reads, BehindInv
  <2> QED BY <2>1, <2>2 DEF BehindInv
<1>3. ASSUME NEW h \in Threads, NEW task \in accepted, Starts(h, task) PROVE BehindInv'
  BY <1>3 DEF Starts, Others, BehindInv, Sound
<1>4. ASSUME NEW h \in Threads, Sends(h) PROVE BehindInv'
  BY <1>4 DEF Sends, Move, Others, BehindInv, Sound
<1>5. ASSUME NEW h \in Threads, Copies(h) PROVE BehindInv'
  <2>1. Sound /\ UNCHANGED <<rd, accepted>> /\ Others(h) /\ from'[h] = from[h]
        /\ pc'[h] = "retrieve" /\ http_'[h][1] = rd
    BY <1>5 DEF Copies, Move, Sound
  <2>2. from[h] <= rd /\ rd <= rd
    BY <1>0, <2>1 DEF BehindInv
  <2> QED BY <2>1, <2>2 DEF Others, BehindInv
<1>6. ASSUME NEW h \in Threads, Takes(h) PROVE BehindInv'
  <2>1. Sound /\ UNCHANGED accepted /\ rd' = rd + Parts /\ Others(h) /\ from'[h] = from[h]
        /\ pc[h] = "retrieve" /\ pc'[h] = "assert" /\ http_'[h] = http_[h]
    BY <1>6 DEF Takes, Move, Sound
  <2>2. \A g \in Threads : from'[g] = from[g] /\ http_'[g] = http_[g]
    BY <2>1 DEF Others
  <2> QED BY <1>0, <2>1, <2>2 DEF Others, BehindInv
<1>7. ASSUME NEW h \in Threads, NEW g \in Threads, Races(g, h) PROVE BehindInv'
  <2>1. Sound /\ UNCHANGED <<accepted, from, http_>> /\ rd' = rd + Parts
        /\ \A k \in Threads : pc'[k] = pc[k] \/ (pc[k] = "retrieve" /\ pc'[k] = "assert")
    BY <1>7 DEF Races, Sound
  <2> QED BY <1>0, <2>1 DEF BehindInv
<1>8. ASSUME NEW h \in Threads, Passes(h) PROVE BehindInv'
  <2>1. Sound /\ UNCHANGED <<rd, accepted>> /\ Others(h) /\ from'[h] = from[h] + Parts
        /\ pc[h] = "assert" /\ pc'[h] = "test"
    BY <1>8 DEF Passes, Move, Sound
  <2>2. from[h] + Parts <= rd
    BY <1>0, <2>1 DEF BehindInv
  <2> QED BY <2>1, <2>2 DEF Others, BehindInv
<1>9. ASSUME NEW h \in Threads, Hits(h) \/ \E n \in 1..MaxUnits : Tears(h, n) PROVE BehindInv'
  BY <1>9 DEF Hits, Tears, Sound
<1> QED BY <1>1, <1>2, <1>3, <1>4, <1>5, <1>6, <1>7, <1>8, <1>9, Kinds DEF ThreadStep

\* A thread that is doomed stays so until the assertion, which it does not pass.
LEMMA DoomedStays ==
  ASSUME TypeOK, CopyInv, TaskInv, Distinct, NEW g \in Threads, DoomedAt(g),
         NEW h \in Threads, Sends(h) \/ Copies(h) \/ Takes(h) \/ Passes(h)
  PROVE  DoomedAt(g)'
<1> USE Numbers
<1>0. /\ rd \in Nat /\ wr \in Nat /\ \A k \in Threads : from[k] \in Nat /\ to[k] \in Nat
      /\ \A k \in Threads : http_[k] \in Nat \X Nat
  BY DEF TypeOK, Units
<1>1. CASE g # h
  <2>1. pc'[g] = pc[g] /\ from'[g] = from[g] /\ http_'[g] = http_[g]
    BY <1>1 DEF Sends, Copies, Takes, Passes, Move, Others
  <2>2. wr' = wr /\ (rd' = rd \/ rd' = rd + Parts)
    BY DEF Sends, Copies, Takes, Passes
  <2>3. pc[g] = "copy" /\ from[g] < rd => from[g] < rd'
    BY <1>0, <2>2
  <2> QED BY <2>1, <2>2, <2>3 DEF DoomedAt
<1>2. CASE g = h /\ Sends(h)
  BY <1>2 DEF DoomedAt, Sends
<1>3. CASE g = h /\ Copies(h)
  <2>1. pc[h] = "copy" /\ (from[h] < rd \/ from[h] + Parts < wr)
    BY <1>2, <1>3 DEF DoomedAt, Copies
  <2>2. <<rd, wr>> # <<from[h], from[h] + Parts>>
    BY <1>0, <2>1
  <2>3. pc'[h] = "retrieve" /\ from'[h] = from[h] /\ http_'[h] = <<rd, wr>>
    BY <1>3 DEF Copies, Move
  <2> QED BY <1>3, <2>2, <2>3 DEF DoomedAt
<1>4. CASE g = h /\ Takes(h)
  BY <1>4 DEF DoomedAt, Takes, Move
<1>5. CASE g = h /\ Passes(h)
  <2> DEFINE a == http_[h][1]
  <2> DEFINE b == http_[h][2]
  <2>1. pc[h] = "assert" /\ b - a = Parts /\ Text[a] = Text[from[h]]
    BY <1>5 DEF Passes, SameBytes
  <2>2. a \in Nat /\ b \in Nat /\ http_[h] = <<a, b>>
    BY <1>0
  <2>3. http_[h] # <<from[h], from[h] + Parts>>
    BY <1>5, <2>1 DEF DoomedAt
  <2>4. to[h] - from[h] >= Parts /\ to[h] <= wr /\ b <= wr
    BY <2>1 DEF CopyInv, Body, Complete, TaskInv
  <2>5. a \in 0..(wr - 1) /\ from[h] \in 0..(wr - 1)
    BY <1>0, <2>1, <2>2, <2>4
  <2>6. a = from[h]
    BY <2>1, <2>5 DEF Distinct
  <2>7. b = from[h] + Parts
    BY <1>0, <2>1, <2>2, <2>6
  <2> QED BY <2>2, <2>3, <2>6, <2>7
<1> QED BY <1>1, <1>2, <1>3, <1>4, <1>5

\* A send: alone and at the front of the buffer it leaves the account open by one request;
\* a second sender whose copy ends elsewhere is doomed, or dooms the first.
LEMMA HandedSend ==
  ASSUME TypeOK, CopyInv, TaskInv, ApartInv, BehindInv, ~twice, Sound,
         AllTaken \/ OneUntaken, NEW h \in Threads, Sends(h)
  PROVE  (OneUntaken \/ Doomed)'
<1> USE Numbers
<1>0. /\ rd \in Nat /\ wr \in Nat /\ Parts \in Nat
      /\ \A k \in Threads : from[k] \in Nat /\ to[k] \in Nat
      /\ \A k \in Threads : http_[k] \in Nat \X Nat
      /\ handed \in Seq(Units) /\ from[h] \in Units
  BY DEF TypeOK, Units
<1>1. /\ pc[h] = "send" /\ pc'[h] = "copy" /\ Others(h) /\ from'[h] = from[h]
      /\ handed' = Append(handed, from[h]) /\ UNCHANGED <<rd, wr>>
  BY DEF Sends, Move
<1>2. from[h] <= rd /\ to[h] >= from[h] + Parts /\ to[h] <= wr
  BY <1>0, <1>1 DEF BehindInv, CopyInv, Body, Complete, TaskInv
<1>3. /\ Len(handed') = Len(handed) + 1 /\ handed'[Len(handed')] = from[h] /\ Len(handed) \in Nat
      /\ \A i \in 1..Len(handed) : handed'[i] = handed[i]
  BY <1>0, <1>1
<1>4. CASE from[h] < rd \/ from[h] + Parts < wr
  BY <1>1, <1>4 DEF Doomed, DoomedAt
<1>5. CASE ~(from[h] < rd \/ from[h] + Parts < wr) /\ AllTaken
  <2>1. rd' = Parts * (Len(handed') - 1)
    BY <1>1, <1>3, <1>5 DEF AllTaken
  <2>2. \A i \in 1..(Len(handed') - 1) : handed'[i] = Parts * (i - 1)
    BY <1>3, <1>5 DEF AllTaken, InOrder
  <2>3. Len(handed') > 0
    BY <1>3
  <2>4. \A g \in Threads \ {h} : ~Untaken(g)'
    BY <1>1, <1>5 DEF AllTaken, Untaken, Others
  <2> QED BY <1>1, <1>3, <2>1, <2>2, <2>3, <2>4 DEF OneUntaken, Untaken, InOrder
<1>6. CASE ~(from[h] < rd \/ from[h] + Parts < wr) /\ OneUntaken
  <2>1. PICK g \in Threads : Untaken(g)
    BY <1>6 DEF OneUntaken
  <2>2. g # h /\ pc[g] \in {"copy", "retrieve"}
    BY <1>1, <2>1 DEF Untaken
  <2>3. to[g] # to[h] /\ to[g] >= from[g] + Parts /\ to[g] <= wr
    <3>1. to[g] # to[h]
      BY <1>1, <2>2 DEF ApartInv
    <3>2. to[g] - from[g] >= Parts
      BY <2>2 DEF CopyInv, Body, Complete
    <3>3. to[g] <= wr
      BY DEF TaskInv
    <3> QED BY <1>0, <3>1, <3>2, <3>3
  <2>4. rd = from[h] /\ wr = rd + Parts /\ to[h] = wr
    <3>1. rd <= from[h] /\ wr <= from[h] + Parts
      BY <1>0, <1>6
    <3>2. rd \in Nat /\ wr \in Nat /\ from[h] \in Nat /\ to[h] \in Nat
      BY <1>0
    <3>3. rd = from[h]
      BY <1>2, <3>1, <3>2
    <3>4. to[h] = wr
      BY <1>2, <3>1, <3>2
    <3>5. wr = from[h] + Parts
      BY <1>2, <3>1, <3>2
    <3> QED BY <3>3, <3>4, <3>5
  <2>5. pc'[g] = pc[g] /\ from'[g] = from[g] /\ http_'[g] = http_[g]
    BY <1>1, <2>2 DEF Others
  <2>6. from[g] < rd
    BY <1>0, <2>3, <2>4
  <2>7. CASE pc[g] = "copy"
    BY <1>1, <2>5, <2>6, <2>7 DEF Doomed, DoomedAt
  <2>8. CASE pc[g] = "retrieve"
    <3>1. http_[g][1] = rd
      BY <1>6, <2>1, <2>8 DEF OneUntaken
    <3>2. http_[g] # <<from[g], from[g] + Parts>>
      BY <1>0, <2>6, <3>1
    <3> QED BY <2>5, <2>8, <3>2 DEF Doomed, DoomedAt
  <2> QED BY <2>2, <2>7, <2>8
<1> QED BY <1>4, <1>5, <1>6

\* A retrieve by the one thread that has sent: it takes the request it was to take, or the
\* buffer held something else and the thread is doomed.
LEMMA HandedTake ==
  ASSUME TypeOK, OneUntaken, NEW h \in Threads, Takes(h)
  PROVE  (AllTaken \/ Doomed)'
<1> USE Numbers
<1>1. /\ pc[h] = "retrieve" /\ pc'[h] = "assert" /\ Others(h) /\ from'[h] = from[h]
      /\ http_'[h] = http_[h] /\ rd' = rd + Parts /\ handed' = handed
  BY DEF Takes, Move
<1>2. /\ \A g \in Threads \ {h} : ~Untaken(g)
      /\ Len(handed) > 0 /\ handed[Len(handed)] = from[h]
      /\ rd = Parts * (Len(handed) - 1) /\ InOrder(Len(handed) - 1)
      /\ http_[h][1] = rd
  BY <1>1 DEF OneUntaken, Untaken
<1>3. Len(handed) \in Nat
  BY DEF TypeOK
<1>4. CASE http_[h] # <<from[h], from[h] + Parts>>
  BY <1>1, <1>4 DEF Doomed, DoomedAt
<1>5. CASE http_[h] = <<from[h], from[h] + Parts>>
  <2>1. rd = from[h]
    BY <1>2, <1>5
  <2>2. rd' = Parts * Len(handed')
    BY <1>1, <1>2, <1>3, NextMultiple
  <2>3. \A i \in 1..Len(handed) : handed[i] = Parts * (i - 1)
    <3>1. \A i \in 1..(Len(handed) - 1) : handed[i] = Parts * (i - 1)
      BY <1>2 DEF InOrder
    <3>2. handed[Len(handed)] = Parts * (Len(handed) - 1)
      BY <1>2, <2>1
    <3>3. \A i \in 1..Len(handed) : i = Len(handed) \/ i \in 1..(Len(handed) - 1)
      BY <1>3
    <3> QED BY <3>1, <3>2, <3>3
  <2>4. \A g \in Threads : ~Untaken(g)'
    BY <1>1, <1>2 DEF Untaken, Others
  <2> QED BY <1>1, <2>2, <2>3, <2>4 DEF AllTaken, InOrder
<1> QED BY <1>4, <1>5

\* A step after which the same threads are about to take from the same buffer.
LEMMA HandedFrame ==
  ASSUME UNCHANGED <<rd, handed>>,
         \A h \in Threads : /\ Untaken(h)' <=> Untaken(h)
                            /\ Untaken(h) => /\ pc'[h] = pc[h] /\ from'[h] = from[h]
                                             /\ http_'[h] = http_[h]
  PROVE  (AllTaken => AllTaken') /\ (OneUntaken => OneUntaken')
<1>1. AllTaken => AllTaken'
  BY DEF AllTaken, InOrder
<1>2. OneUntaken => OneUntaken'
  BY DEF OneUntaken, InOrder
<1> QED BY <1>1, <1>2

LEMMA HandedStep ==
  TypeOK /\ CopyInv /\ TaskInv /\ ApartInv /\ BehindInv /\ HandedInv /\ [Next]_vars => HandedInv'
<1> SUFFICES ASSUME TypeOK, CopyInv, TaskInv, ApartInv, BehindInv, HandedInv, [Next]_vars,
                    Running', Sound', ~twice', Distinct'
             PROVE  (AllTaken \/ OneUntaken \/ Doomed)'
  BY DEF HandedInv
<1> USE Numbers
<1>0. wr \in Nat /\ rd \in Nat /\ Running
      /\ \A k \in Threads : from[k] \in Nat /\ http_[k] \in Nat \X Nat
  BY Kinds DEF TypeOK, Units
<1>1. CASE Quiet
  <2>1. AllTaken \/ OneUntaken \/ Doomed
    BY <1>0, <1>1 DEF Quiet, HandedInv, Sound, Distinct
  <2>2. UNCHANGED <<rd, wr, handed, http_>>
    BY <1>1 DEF Quiet
  <2>3. ASSUME NEW h \in Threads
        PROVE  /\ Untaken(h)' <=> Untaken(h)
               /\ pc[h] \in {"copy", "retrieve", "assert"} => pc'[h] = pc[h] /\ from'[h] = from[h]
    BY <1>1 DEF Quiet, Rests, Early, Untaken
  <2>4. Doomed => Doomed'
    BY <2>2, <2>3 DEF Doomed, DoomedAt
  <2>5. (AllTaken => AllTaken') /\ (OneUntaken => OneUntaken')
    BY <2>2, <2>3, HandedFrame DEF Untaken
  <2> QED BY <1>0, <1>1, <2>4, <2>5 DEF Quiet, HandedInv, Sound, Distinct
<1>2. ASSUME NEW n \in 1..MaxUnits, Reads(n) PROVE (AllTaken \/ OneUntaken \/ Doomed)'
  <2>1. UNCHANGED <<rd, pc, from, http_, handed>> /\ wr' = wr + n /\ Sound /\ ~twice
    BY <1>2 DEF Reads, Sound
  <2>2. Distinct
    <3>1. 0..(wr - 1) \subseteq 0..(wr' - 1)
      BY <1>0, <2>1
    <3> QED BY <3>1 DEF Distinct
  <2>3. Doomed => Doomed'
    <3>1. \A h \in Threads : from[h] + Parts < wr => from[h] + Parts < wr'
      BY <1>0, <2>1
    <3> QED BY <2>1, <3>1 DEF Doomed, DoomedAt
  <2>4. (AllTaken => AllTaken') /\ (OneUntaken => OneUntaken')
    BY <2>1, HandedFrame DEF Untaken
  <2> QED BY <1>0, <2>1, <2>2, <2>3, <2>4 DEF HandedInv
<1>3. ASSUME NEW h \in Threads, NEW task \in accepted, Starts(h, task)
      PROVE  (AllTaken \/ OneUntaken \/ Doomed)'
  <2>1. /\ UNCHANGED <<rd, wr, handed>> /\ Sound /\ ~twice /\ Distinct
        /\ pc[h] = "idle" /\ pc'[h] = "test" /\ Others(h)
    BY <1>3 DEF Starts, Sound, Distinct
  <2>2. Doomed => Doomed'
    BY <2>1 DEF Doomed, DoomedAt, Others
  <2>3. (AllTaken => AllTaken') /\ (OneUntaken => OneUntaken')
    BY <2>1, HandedFrame DEF Untaken, Others
  <2> QED BY <1>0, <2>1, <2>2, <2>3 DEF HandedInv
<1>4. ASSUME NEW h \in Threads, Sends(h) \/ Copies(h) \/ Takes(h) \/ Passes(h)
      PROVE  (AllTaken \/ OneUntaken \/ Doomed)'
  <2>1. Sound /\ ~twice /\ Distinct
    BY <1>4 DEF Sends, Copies, Takes, Passes, Sound, Distinct
  <2>2. AllTaken \/ OneUntaken \/ Doomed
    BY <1>0, <2>1 DEF HandedInv
  <2>3. CASE Doomed
    <3>1. PICK g \in Threads : DoomedAt(g)
      BY <2>3 DEF Doomed
    <3>2. DoomedAt(g)'
      BY <1>4, <2>1, <3>1, DoomedStays
    <3> QED BY <3>2 DEF Doomed
  <2>4. CASE Sends(h) /\ ~Doomed
    BY <2>1, <2>2, <2>4, HandedSend
  <2>5. CASE Copies(h) /\ ~Doomed
    <3>1. /\ pc[h] = "copy" /\ pc'[h] = "retrieve" /\ Others(h) /\ from'[h] = from[h]
          /\ http_'[h] = <<rd, wr>> /\ UNCHANGED <<rd, handed>>
      BY <2>5 DEF Copies, Move
    <3>2. OneUntaken
      BY <2>2, <2>5, <3>1 DEF AllTaken, Untaken
    <3>3. /\ \A g \in Threads \ {h} : ~Untaken(g)
          /\ Len(handed) > 0 /\ handed[Len(handed)] = from[h]
          /\ rd = Parts * (Len(handed) - 1) /\ InOrder(Len(handed) - 1)
      BY <3>1, <3>2 DEF OneUntaken, Untaken
    <3>4. Untaken(h)' /\ \A g \in Threads \ {h} : ~Untaken(g)'
      BY <3>1, <3>3 DEF Untaken, Others
    <3>5. http_'[h][1] = rd'
      BY <3>1
    <3> QED BY <3>1, <3>3, <3>4, <3>5 DEF OneUntaken, InOrder
  <2>6. CASE Takes(h) /\ ~Doomed
    <3>1. OneUntaken
      BY <2>2, <2>6 DEF AllTaken, Untaken, Takes
    <3> QED BY <2>6, <3>1, HandedTake
  <2>7. CASE Passes(h) /\ ~Doomed
    <3>1. pc[h] = "assert" /\ pc'[h] = "test" /\ Others(h) /\ UNCHANGED <<rd, handed>>
      BY <2>7 DEF Passes, Move
    <3>2. (AllTaken => AllTaken') /\ (OneUntaken => OneUntaken')
      BY <3>1, HandedFrame DEF Untaken, Others
    <3> QED BY <2>2, <2>7, <3>2
  <2> QED BY <1>4, <2>3, <2>4, <2>5, <2>6, <2>7
<1>5. ASSUME NEW h \in Threads, NEW g \in Threads \ {h}, Races(g, h)
      PROVE  (AllTaken \/ OneUntaken \/ Doomed)'
  <2>1. /\ pc[g] = "retrieve" /\ pc[h] = "retrieve" /\ rd' = rd + Parts
        /\ \A k \in Threads : pc'[k] = pc[k] \/ (pc[k] = "retrieve" /\ pc'[k] = "assert")
        /\ UNCHANGED <<wr, from, http_>> /\ Sound /\ ~twice /\ Distinct
    BY <1>5 DEF Races, Sound, Distinct
  <2>2. ~AllTaken /\ ~OneUntaken
    BY <2>1 DEF AllTaken, OneUntaken, Untaken
  <2>3. PICK k \in Threads : DoomedAt(k)
    BY <1>0, <2>1, <2>2 DEF HandedInv, Doomed
  <2>4. from[k] < rd => from[k] < rd'
    BY <1>0, <2>1
  <2>5. DoomedAt(k)'
    BY <2>1, <2>3, <2>4 DEF DoomedAt
  <2> QED BY <2>5 DEF Doomed
<1>6. ASSUME NEW h \in Threads, Hits(h) \/ \E n \in 1..MaxUnits : Tears(h, n) PROVE FALSE
  BY <1>6 DEF Hits, Tears, Sound
<1> QED BY <1>1, <1>2, <1>3, <1>4, <1>5, <1>6, Kinds DEF ThreadStep

-----------------------------------------------------------------------------
LEMMA RInvInit == Init => RInv
<1> SUFFICES ASSUME Init PROVE RInv
  OBVIOUS
<1>1. TypeOK
  <2>1. 0 \in Units /\ handed \in Seq(Units)
    BY Numbers DEF Init, Units
  <2>2. rd <= wr /\ accepted = {} /\ done = {}
    BY DEF Init, Pool!Init
  <2> QED BY <2>1, <2>2 DEF Init, TypeOK
<1>2. CopyInv
  BY DEF Init, CopyInv, Body, Pool!Init
<1>3. BehindInv /\ TaskInv /\ ApartInv
  BY Numbers DEF Init, BehindInv, TaskInv, ApartInv, Pool!Init
<1>4. AllTaken
  <2>1. Len(handed) = 0 /\ rd = Parts * 0
    BY Numbers DEF Init
  <2> QED BY <2>1 DEF Init, AllTaken, Untaken, InOrder
<1> QED BY <1>1, <1>2, <1>3, <1>4 DEF RInv, HandedInv

\* The inductive invariant: copies hold the requests being dealt with and none is ahead of
\* the buffer, running tasks that are not repeated have copies with different ends, and the
\* account of sent and retrieved requests is settled, open by the one request its thread is
\* about to take, or a thread has a request that the assertion will not let pass.
THEOREM RelayInvariant == Spec => []RInv
<1>1. RInv /\ [Next]_vars => RInv'
  BY TypeStep, CopyStep, TaskStep, ApartStep, BehindStep, HandedStep DEF RInv
<1> QED BY <1>1, RInvInit, PTL DEF Spec

\* The state of the relay is well typed; in particular no request is erased beyond the end
\* of its copy or retrieved beyond the end of the input buffer.
THEOREM TypeCorrect == Spec => []TypeOK
<1>1. RInv => TypeOK
  BY DEF RInv
<1> QED BY <1>1, RelayInvariant, PTL

\* Whatever copies overlap or run late, and however the copy into http_, the retrieve and
\* the assertion of different threads interleave with each other and with the reads, what
\* has left the input buffer is what was handed to a backend connection, once and in order,
\* until the cache answers, an append tears a retrieve, a task runs twice or two requests
\* read the same.
THEOREM RequestsHandedOnce == Spec => []HandedOnceInOrder
<1>1. RInv => HandedOnceInOrder
  BY DEF RInv, HandedInv, Sound, AllTaken, OneUntaken, Untaken, Doomed, DoomedAt, Sending, InOrder,
         HandedOnceInOrder, Settled
<1> QED BY <1>1, RelayInvariant, PTL

\* The context of the client's connection is always an open backend connection, however
\* many tunnels racing tasks create and however they go up and down.
THEOREM ContextStaysOpen == Spec => []ContextIsOpen
<1>1. Init => ContextIsOpen
  BY DEF Init, ContextIsOpen
<1>2. TypeOK /\ ContextIsOpen /\ [Next]_vars => ContextIsOpen'
  <2> SUFFICES ASSUME TypeOK, ContextIsOpen, [Next]_vars PROVE ContextIsOpen'
    OBVIOUS
  <2>1. ASSUME UNCHANGED <<context, tunnel>> PROVE ContextIsOpen'
    BY <2>1 DEF ContextIsOpen
  <2>2. ASSUME NEW t \in Tunnels \cup {NoTunnel}, Disconnect(t), UNCHANGED context
        PROVE  ContextIsOpen'
    BY <2>2 DEF Disconnect, ContextIsOpen, TypeOK
  <2>3. ASSUME NEW n \in 1..MaxUnits, OnServerMessage(n) PROVE ContextIsOpen'
    BY <2>1, <2>3 DEF OnServerMessage, tunnelVars
  <2>4. CASE OnServerDisconnection
    BY <2>2, <2>4 DEF OnServerDisconnection, TypeOK
  <2>5. ASSUME NEW h \in Threads, PoolThread(h) PROVE ContextIsOpen'
    <3>1. CASE CreateTunnel(h)
      BY <3>1 DEF CreateTunnel, ContextIsOpen, TypeOK
    <3>2. CASE CloseIfDirty(h)
      BY <2>1, <2>2, <3>2 DEF CloseIfDirty, TypeOK
    <3>3. CASE ~CreateTunnel(h) /\ ~CloseIfDirty(h)
      <4>1. UNCHANGED <<context, tunnel>>
        BY <2>5, <3>3 DEF PoolThread, SolveOnMessage, LoopTest, ReadCache, HasContext, TestContext,
                          PickBackend, Send, CopyBuffer, Retrieve, TornRetrieve, RacingRetrieves,
                          AssertSame, Die, tunnelVars
      <4> QED BY <2>1, <4>1
    <3> QED BY <3>1, <3>2, <3>3
  <2>6. ASSUME NEW t \in Tunnels, TunnelUp(t) \/ TunnelDown(t) \/ ShutdownClient(t)
        PROVE  ContextIsOpen'
    BY <2>6 DEF TunnelUp, TunnelDown, Teardown, ShutdownClient, ContextIsOpen, TypeOK
  <2>7. ASSUME NEW t \in Tunnels, OnClientMessage(t) PROVE ContextIsOpen'
    BY <2>1, <2>7 DEF OnClientMessage, Die, tunnelVars
  <2>8. CASE UNCHANGED vars
    BY <2>1, <2>8 DEF vars, tunnelVars
  <2> QED BY <2>3, <2>4, <2>5, <2>6, <2>7, <2>8 DEF Next
<1> QED BY <1>1, <1>2, TypeCorrect, PTL DEF Spec
=============================================================================
