---------------------------- MODULE RequestRelay ----------------------------
(***************************************************************************)
(* One client connection through the proxy: ProxyServer::onServerMessage,  *)
(* solveOnMessage and onServerConnection, with the Tunnels to the web      *)
(* server that solveOnMessage creates.                                     *)
(*                                                                         *)
(* Three kinds of threads meet here.  The connection's I/O thread appends  *)
(* what arrives to its input buffer and gives the pool a task with a copy  *)
(* of the whole buffer; pool threads parse their copies, forward what is   *)
(* complete and take it out of the shared buffer; the worker's base loop   *)
(* opens and closes the tunnels.  The pool is TaskPool, what CircleQueue   *)
(* is proved to provide: a task may run late, out of order, or twice.      *)
(*                                                                         *)
(* The client's bytes are numbered by arrival in units of which Parts make *)
(* a request, so a buffer is an interval: the input buffer is rd..wr-1, a  *)
(* copy from..to-1, and a request is known by its first number; what it    *)
(* reads is Text of that number, and two requests may read the same.       *)
(***************************************************************************)
EXTENDS Integers, Sequences, FiniteSets

CONSTANTS
  Threads,      \* pool threads
  Tunnels,      \* Tunnel objects that can be created
  Parts,        \* units a request may arrive in
  Gets,         \* requests whose method is GetMethod
  Text,         \* what the request that starts with a unit reads
  DirtyLimit,   \* the 10 MB of the dirty-connection test
  MaxUnits      \* bound: units the client sends

ASSUME RelayAssumption ==
  /\ Parts \in Nat \ {0} /\ MaxUnits \in Nat /\ DirtyLimit \in Nat
  /\ Gets \subseteq Nat
  /\ DOMAIN Text = 0..MaxUnits

VARIABLES
  rd, wr,          \* input buffer of the connection
  client,          \* "up" is connected(); "closing" after shutdown
  accepted, done,  \* the pool
  pc, from, to,    \* each pool thread: where it is, and its buff
  isCheck,         \* each pool thread's isCheck
  http_,           \* each pool thread's copy of the input buffer at line 148
  backend,         \* the connection clientConn of each thread refers to
  context,         \* conn->getContext(): a backend connection, by its tunnel
  tunnel,          \* state of the TcpClient of each Tunnel
  mapped,          \* tunnels[conn->name()]
  pushed,          \* tunnels whose cacheQueue_ is not empty
  torn,            \* an append to the input buffer has overlapped a retrieve
  fault,           \* why the worker process died, or "none"
  handed,          \* history: requests passed to clientConn->send, in order
  answered,        \* history: requests answered from the cache
  twice            \* history: a task has been run again

connVars == <<rd, wr, torn, client, accepted, done>>
threadVars == <<pc, from, to, isCheck, http_, backend>>
tunnelVars == <<context, tunnel, mapped, pushed>>
history == <<handed, answered, twice>>
vars == <<connVars, threadVars, tunnelVars, fault, history>>

NoTunnel == "none"
Units == 0..MaxUnits
Pool == INSTANCE TaskPool WITH Tasks <- Units \X Units

TypeOK ==
  /\ rd \in Units /\ wr \in Units /\ rd <= wr
  /\ client \in {"up", "closing", "down"}
  /\ accepted \subseteq Units \X Units /\ done \subseteq accepted
  /\ pc \in [Threads -> {"idle", "test", "again", "cache", "route", "context", "cast", "send",
                        "copy", "retrieve", "assert", "end"}]
  /\ from \in [Threads -> Units] /\ to \in [Threads -> Units]
  /\ isCheck \in [Threads -> BOOLEAN] /\ http_ \in [Threads -> Units \X Units]
  /\ backend \in [Threads -> Tunnels \cup {NoTunnel}]
  /\ context \in Tunnels \cup {NoTunnel} /\ mapped \in Tunnels \cup {NoTunnel}
  /\ tunnel \in [Tunnels -> {"unused", "connecting", "up", "closing", "teardown", "down"}]
  /\ pushed \subseteq Tunnels /\ torn \in BOOLEAN
  /\ fault \in {"none", "assertion", "nullTunnel", "badCast", "danglingContext", "cache",
               "emptyQueue", "overrun"}
  /\ handed \in Seq(Units)
  /\ answered \subseteq Units /\ twice \in BOOLEAN

Init ==
  /\ rd = 0 /\ wr = 0
  /\ client = "up"
  /\ Pool!Init
  /\ pc = [h \in Threads |-> "idle"]
  /\ from = [h \in Threads |-> 0]
  /\ to = [h \in Threads |-> 0]
  /\ isCheck = [h \in Threads |-> FALSE]
  /\ http_ = [h \in Threads |-> <<0, 0>>]
  /\ backend = [h \in Threads |-> NoTunnel]
  /\ context = NoTunnel
  /\ tunnel = [t \in Tunnels |-> "unused"]
  /\ mapped = NoTunnel
  /\ pushed = {} /\ torn = FALSE
  /\ fault = "none"
  /\ handed = <<>>
  /\ answered = {} /\ twice = FALSE

Running == fault = "none"
Goto(h, label) == pc' = [pc EXCEPT ![h] = label]

Die(cause) ==
  /\ fault' = cause
  /\ UNCHANGED <<connVars, threadVars, tunnelVars, history>>

-----------------------------------------------------------------------------
(* The I/O thread of the connection. *)

\* A read of n units, and onServerMessage.  A write the queue refuses drops the task
\* and leaves the bytes.
OnServerMessage(n) ==
  /\ Running /\ client # "down" /\ wr + n <= MaxUnits
  /\ wr' = wr + n
  /\ Pool!Accept(<<rd, wr + n>>) \/ UNCHANGED <<accepted, done>>
  /\ UNCHANGED <<rd, torn, client, threadVars, tunnelVars, fault, history>>

\* TcpClient::disconnect shuts an established connection down and nothing else.
Disconnect(t) ==
  tunnel' = IF t # NoTunnel /\ tunnel[t] = "up" THEN [tunnel EXCEPT ![t] = "closing"] ELSE tunnel

\* onServerConnection, when the connection is down.
OnServerDisconnection ==
  /\ Running /\ client # "down"
  /\ client' = "down"
  /\ Disconnect(mapped)
  /\ mapped' = NoTunnel
  /\ UNCHANGED <<rd, wr, torn, accepted, done, threadVars, context, pushed,
                 fault, history>>

-----------------------------------------------------------------------------
(* solveOnMessage, in a pool thread. *)

SolveOnMessage(h, task) ==
  /\ Running /\ pc[h] = "idle"
  /\ Pool!Run(task)
  /\ twice' = (twice \/ task \in done)
  /\ from' = [from EXCEPT ![h] = task[1]]
  /\ to' = [to EXCEPT ![h] = task[2]]
  /\ isCheck' = [isCheck EXCEPT ![h] = FALSE]
  /\ Goto(h, "test")
  /\ UNCHANGED <<rd, wr, torn, client, http_, backend, tunnelVars, fault, handed, answered>>

\* parseRequest of the copy, which starts where a request does.
Complete(h) == to[h] - from[h] >= Parts

\* The condition of the loop; while isCheck is set neither the copy nor the connection
\* is looked at.  A request parsed again without a reset has its method doubled.
LoopTest(h) ==
  /\ Running /\ pc[h] \in {"test", "again"}
  /\ Goto(h, IF isCheck[h] \/ (client = "up" /\ Complete(h))
             THEN IF pc[h] = "test" /\ from[h] \in Gets THEN "cache" ELSE "route"
             ELSE "end")
  /\ UNCHANGED <<connVars, from, to, isCheck, http_, backend, tunnelVars, fault, history>>

\* The request is done with: erased from the copy, and back to the loop's test.
NextRequest(h) ==
  /\ from' = [from EXCEPT ![h] = @ + Parts]
  /\ isCheck' = [isCheck EXCEPT ![h] = FALSE]
  /\ Goto(h, "test")
  /\ UNCHANGED <<to, backend>>

\* readCache hits, misses or throws (ResponseCache).  After a hit the buffer gives up as
\* many bytes as the copy's request has; retrieve asserts that it has them.
ReadCache(h) ==
  /\ Running /\ pc[h] = "cache"
  /\ \/ /\ wr - rd >= Parts
        /\ rd' = rd + Parts
        /\ answered' = answered \cup {from[h]}
        /\ NextRequest(h)
        /\ UNCHANGED <<wr, torn, client, accepted, done, http_, tunnelVars, fault, handed, twice>>
     \/ wr - rd < Parts /\ Die("assertion")
     \/ /\ Goto(h, "route")
        /\ UNCHANGED <<connVars, from, to, isCheck, http_, backend, tunnelVars, fault, history>>
     \/ Die("cache")

\* No context yet: a tunnel of this thread's own, whatever other threads are doing.
CreateTunnel(h) ==
  /\ Running /\ pc[h] = "route" /\ ~isCheck[h] /\ context = NoTunnel
  /\ \E t \in Tunnels :
       /\ tunnel[t] = "unused"
       /\ tunnel' = [tunnel EXCEPT ![t] = "connecting"]
       /\ mapped' = t
  /\ isCheck' = [isCheck EXCEPT ![h] = TRUE]
  /\ Goto(h, "test")
  /\ UNCHANGED <<connVars, from, to, http_, backend, context, pushed, fault, history>>

\* The first test of the context fails, and the second follows.
HasContext(h) ==
  /\ Running /\ pc[h] = "route" /\ (isCheck[h] \/ context # NoTunnel)
  /\ Goto(h, "context")
  /\ UNCHANGED <<connVars, from, to, isCheck, http_, backend, tunnelVars, fault, history>>

\* The second test.  Without a context, because the tunnel is not up yet or because it has
\* gone down since the first, the loop goes round.
TestContext(h) ==
  /\ Running /\ pc[h] = "context"
  /\ Goto(h, IF context # NoTunnel THEN "cast" ELSE IF isCheck[h] THEN "test" ELSE "again")
  /\ UNCHANGED <<connVars, from, to, isCheck, http_, backend, tunnelVars, fault, history>>

\* clientConn is a reference into the context, if it is still there: any_cast of an empty
\* any throws, and nobody catches.  pushCache goes to the tunnel of the map,
\* which operator[] invents if it has been erased.
PickBackend(h) ==
  /\ Running /\ pc[h] = "cast"
  /\ \/ /\ context # NoTunnel /\ mapped # NoTunnel
        /\ backend' = [backend EXCEPT ![h] = context]
        /\ pushed' = pushed \cup {mapped}
        /\ Goto(h, "send")
        /\ UNCHANGED <<connVars, from, to, isCheck, http_, context, tunnel, mapped,
                       fault, history>>
     \/ context = NoTunnel /\ Die("badCast")
     \/ context # NoTunnel /\ mapped = NoTunnel /\ Die("nullTunnel")

\* The context may have been replaced under the reference.
Send(h) ==
  /\ Running /\ pc[h] = "send"
  /\ \/ /\ handed' = Append(handed, from[h])
        /\ Goto(h, "copy")
        /\ backend' = [backend EXCEPT ![h] = NoTunnel]
        /\ UNCHANGED <<connVars, from, to, isCheck, http_, tunnelVars, fault, answered, twice>>
     \/ context # backend[h] /\ Die("danglingContext")

\* http_: what the input buffer holds now.
CopyBuffer(h) ==
  /\ Running /\ pc[h] = "copy"
  /\ http_' = [http_ EXCEPT ![h] = <<rd, wr>>]
  /\ Goto(h, "retrieve")
  /\ UNCHANGED <<connVars, from, to, isCheck, backend, tunnelVars, fault, history>>

\* Broken variant: a retrieve that does not look at what there is.
RetrieveUnchecked(h) ==
  /\ Running /\ pc[h] = "retrieve"
  /\ rd' = rd + Parts
  /\ Goto(h, "assert")
  /\ UNCHANGED <<wr, torn, client, accepted, done, from, to, isCheck, http_, backend, tunnelVars,
                 fault, history>>

\* buf->retrieve takes as many bytes as the copy's request has from what the buffer holds
\* by then, and asserts that it has them.
Retrieve(h) ==
  /\ Running /\ pc[h] = "retrieve"
  /\ \/ /\ wr - rd >= Parts
        /\ rd' = rd + Parts
        /\ Goto(h, "assert")
        /\ UNCHANGED <<wr, torn, client, accepted, done, from, to, isCheck, http_, backend,
                       tunnelVars, fault, history>>
     \/ wr - rd < Parts /\ Die("assertion")

\* Buffer is not synchronised.  An append in the middle of the retrieve is undone by
\* its retrieveAll, or undoes it by moving the unread bytes to the front.
TornRetrieve(h, n) ==
  /\ Running /\ pc[h] = "retrieve" /\ wr - rd >= Parts
  /\ client # "down" /\ wr + n <= MaxUnits
  /\ torn' = TRUE
  /\ \/ wr - rd = Parts /\ rd' = rd + Parts /\ UNCHANGED wr
     \/ wr' = wr + n /\ UNCHANGED rd
  /\ Goto(h, "assert")
  /\ UNCHANGED <<client, accepted, done, from, to, isCheck, http_, backend, tunnelVars,
                 fault, history>>

\* Two retrieves at once: one of the two additions to the reader's index is lost, or both
\* pass the test of the readable bytes and the index runs past the writer's.
RacingRetrieves(g, h) ==
  /\ Running /\ pc[g] = "retrieve" /\ pc[h] = "retrieve" /\ wr - rd >= Parts
  /\ \/ /\ rd' = rd + Parts
        /\ pc' = [pc EXCEPT ![g] = "assert", ![h] = "assert"]
        /\ UNCHANGED <<wr, torn, client, accepted, done, from, to, isCheck, http_, backend,
                       tunnelVars, fault, history>>
     \/ wr - rd < 2 * Parts /\ Die("overrun")

\* http_ == http: the buffer held one request, which reads like the copy's.
SameBytes(h) ==
  /\ http_[h][2] - http_[h][1] = Parts
  /\ Text[http_[h][1]] = Text[from[h]]

\* Broken variant: the comparison is left out, as in a build without assertions.
AssertNothing(h) ==
  /\ Running /\ pc[h] = "assert"
  /\ NextRequest(h)
  /\ http_' = [http_ EXCEPT ![h] = <<0, 0>>]
  /\ UNCHANGED <<connVars, tunnelVars, fault, history>>

\* The request is erased from the copy, and must have been all there was in the buffer.
AssertSame(h) ==
  /\ Running /\ pc[h] = "assert"
  /\ \/ /\ SameBytes(h)
        /\ NextRequest(h)
        /\ http_' = [http_ EXCEPT ![h] = <<0, 0>>]
        /\ UNCHANGED <<connVars, tunnelVars, fault, history>>
     \/ ~SameBytes(h) /\ Die("assertion")

\* The end of solveOnMessage: a connection with too much unread is closed.
CloseIfDirty(h) ==
  /\ Running /\ pc[h] = "end"
  /\ IF wr - rd > DirtyLimit
     THEN /\ Disconnect(mapped)
          /\ mapped' = NoTunnel
          /\ client' = IF client = "up" THEN "closing" ELSE client
     ELSE UNCHANGED <<tunnel, mapped, client>>
  /\ Goto(h, "idle")
  /\ from' = [from EXCEPT ![h] = 0] /\ to' = [to EXCEPT ![h] = 0]
  /\ UNCHANGED <<rd, wr, torn, accepted, done, isCheck, http_, backend, context, pushed,
                 fault, history>>

-----------------------------------------------------------------------------
(* Tunnel, in the worker's base loop. *)

\* onClientConnection, up
TunnelUp(t) ==
  /\ Running /\ tunnel[t] = "connecting"
  /\ tunnel' = [tunnel EXCEPT ![t] = "up"]
  /\ context' = t
  /\ UNCHANGED <<connVars, threadVars, mapped, pushed, fault, history>>

\* Broken variant: teardown leaves the context of the client connection alone.
TeardownKeepingContext == UNCHANGED context

\* teardown: serverConn_->setContext(boost::any())
Teardown == context' = NoTunnel

\* onClientConnection, down: teardown up to the shutdown of the client.
TunnelDown(t) ==
  /\ Running /\ tunnel[t] \in {"up", "closing"}
  /\ tunnel' = [tunnel EXCEPT ![t] = "teardown"]
  /\ Teardown
  /\ UNCHANGED <<connVars, threadVars, mapped, pushed, fault, history>>

\* serverConn_->shutdown(); pool threads may have seen the connection without a context.
ShutdownClient(t) ==
  /\ Running /\ tunnel[t] = "teardown"
  /\ tunnel' = [tunnel EXCEPT ![t] = "down"]
  /\ client' = IF client = "up" THEN "closing" ELSE client
  /\ UNCHANGED <<rd, wr, torn, accepted, done, threadVars, context, mapped, pushed,
                 fault, history>>

\* onClientMessage takes the front of a queue that may be empty.  When it is not, the
\* response stays where it is, for isResponseCompelete is always false.
OnClientMessage(t) ==
  /\ Running /\ tunnel[t] = "up" /\ t \notin pushed
  /\ Die("emptyQueue")

-----------------------------------------------------------------------------
PoolThread(h) ==
  \/ \E task \in accepted : SolveOnMessage(h, task)
  \/ LoopTest(h) \/ ReadCache(h) \/ CreateTunnel(h) \/ HasContext(h)
  \/ TestContext(h) \/ PickBackend(h) \/ Send(h) \/ CopyBuffer(h) \/ Retrieve(h)
  \/ AssertSame(h) \/ CloseIfDirty(h)
  \/ \E n \in 1..MaxUnits : TornRetrieve(h, n)
  \/ \E g \in Threads \ {h} : RacingRetrieves(g, h)

Next ==
  \/ \E n \in 1..MaxUnits : OnServerMessage(n)
  \/ OnServerDisconnection
  \/ \E h \in Threads : PoolThread(h)
  \/ \E t \in Tunnels : TunnelUp(t) \/ TunnelDown(t) \/ ShutdownClient(t) \/ OnClientMessage(t)

Spec == Init /\ [][Next]_vars

-----------------------------------------------------------------------------
(* Properties *)

\* A thread has sent its request and not yet compared it with what the buffer held.
Sending == \E h \in Threads : pc[h] \in {"copy", "retrieve", "assert"}

\* No two requests of the client read the same.
Distinct == \A i, j \in 0..(wr - 1) : Text[i] = Text[j] => i = j

\* What has left the input buffer is what was handed to a backend connection, each request
\* once and in the order it came.
Settled ==
  /\ rd = Parts * Len(handed)
  /\ \A i \in 1..Len(handed) : handed[i] = Parts * (i - 1)

\* Until a request is answered from the cache, an append tears a retrieve, a task runs a
\* second time or two requests read the same, the requests taken out of the buffer are
\* those handed over, once and in order: however copies overlap or run late, and although
\* nothing locks the buffer between the copy into http_, the retrieve and the assertion,
\* the assertion stops the worker before a duplicate or a loss goes further.  (Of a task that
\* runs twice both runs can copy the buffer before either takes from it, and both assertions
\* pass.)
HandedOnceInOrder ==
  Running /\ ~Sending /\ ~torn /\ answered = {} /\ ~twice /\ Distinct => Settled

\* The context of the client connection is never a backend connection that is gone, even
\* when several tasks created a tunnel each: PickBackend starts from an open one.
ContextIsOpen == context # NoTunnel => tunnel[context] \in {"up", "closing"}

\* ProxyServer.cpp:160, assert(http_ == http): when a request had been sent, the input
\* buffer held that request and nothing else.
AssertSameBytes == Running => \A h \in Threads : pc[h] = "assert" => SameBytes(h)
=============================================================================
