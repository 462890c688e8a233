----------------------------- MODULE TunnelFlow -----------------------------
(***************************************************************************)
(* Flow control of one client connection and its Tunnels: when the output  *)
(* buffer of one side passes the high-water mark, Tunnel stops reading     *)
(* from the other, and starts again when the buffer has been written out.  *)
(*                                                                         *)
(* The client's connection (Server, for serverConn_) lives in an I/O loop, *)
(* the connections to the web server, one per Tunnel, in the base loop.    *)
(* A loop runs its events and its queue of pending functors one at a time; *)
(* everything a Tunnel does to a connection of the other loop goes through *)
(* that loop's queue.  The connections are muduo's and are modelled from   *)
(* its interface; sends come from pool threads at any time.                *)
(***************************************************************************)
EXTENDS Integers, Sequences, SequencesExt

CONSTANTS
  Tunnels,     \* Tunnel objects of the connection
  Server,      \* the connection of the client
  Mark,        \* the high-water mark, 1 MB in the code
  OutBound,    \* bound: units in one output buffer
  QueueBound   \* bound: functors in both queues; a functor posts at most one other

NoTunnel == "none"

ASSUME FlowAssumption ==
  /\ Server \notin Tunnels /\ NoTunnel \notin Tunnels
  /\ Mark \in Nat \ {0} /\ OutBound \in Nat /\ QueueBound \in Nat

Conns == Tunnels \cup {Server}
Loops == {"io", "base"}
LoopOf(c) == IF c = Server THEN "io" ELSE "base"

VARIABLES
  tunnel,      \* the web server's connection; clientConn_ is set while it is "up"
  server,      \* the client's connection; "closing" after shutdown()
  out,         \* units in each output buffer
  reading,     \* is the connection's channel reading?
  onHigh,      \* highWaterMarkCallback_: the Tunnel it is bound to
  onComplete,  \* writeCompleteCallback_: the Tunnel it is bound to
  queue,       \* pending functors of each loop
  fault        \* why the worker process died, or "none"

connVars == <<out, reading, onHigh, onComplete>>
vars == <<tunnel, server, connVars, queue, fault>>

Functors == [do : {"high", "complete", "stop", "start"}, conn : Conns, by : Tunnels \cup {NoTunnel}]
Functor(do, c, t) == [do |-> do, conn |-> c, by |-> t]

TypeOK ==
  /\ tunnel \in [Tunnels -> {"unused", "connecting", "up", "down"}]
  /\ server \in {"up", "closing", "down"}
  /\ out \in [Conns -> 0..OutBound]
  /\ reading \in [Conns -> BOOLEAN]
  /\ onHigh \in [Conns -> Tunnels \cup {NoTunnel}]
  /\ onComplete \in [Conns -> Tunnels \cup {NoTunnel}]
  /\ queue \in [Loops -> Seq(Functors)]
  /\ \A l \in Loops : \A i \in 1..Len(queue[l]) : LoopOf(queue[l][i].conn) = l
  /\ fault \in {"none", "nullClient", "closedChannel"}

\* onServerConnection has started to read from the client.
Init ==
  /\ tunnel = [t \in Tunnels |-> "unused"]
  /\ server = "up"
  /\ out = [c \in Conns |-> 0]
  /\ reading = [c \in Conns |-> TRUE]
  /\ onHigh = [c \in Conns |-> NoTunnel]
  /\ onComplete = [c \in Conns |-> NoTunnel]
  /\ queue = [l \in Loops |-> <<>>]
  /\ fault = "none"

Running == fault = "none"
Open(c) == IF c = Server THEN server # "down" ELSE tunnel[c] = "up"
HasRoom == Len(queue["io"]) + Len(queue["base"]) < QueueBound

Die(cause) ==
  /\ fault' = cause
  /\ UNCHANGED <<tunnel, server, connVars, queue>>

\* Broken variant: the functor stays with the loop that called.
PostHere(q, do, c, t) ==
  [q EXCEPT ![IF LoopOf(c) = "io" THEN "base" ELSE "io"] = Append(@, Functor(do, c, t))]

\* queueInLoop on the queue q
Post(q, do, c, t) == [q EXCEPT ![LoopOf(c)] = Append(@, Functor(do, c, t))]

-----------------------------------------------------------------------------
(* muduo's TcpConnection. *)

\* sendInLoop: what the kernel does not take at once goes to the output buffer.  send()
\* tested the state when it was called, this looks only for a connection that is down.
SendInLoop(c, n) ==
  /\ Running /\ Open(c) /\ HasRoom
  /\ \E k \in (IF out[c] = 0 THEN 0..n ELSE {n}) :
       /\ out[c] + k <= OutBound
       /\ out' = [out EXCEPT ![c] = @ + k]
       /\ queue' =
            IF k = 0 /\ onComplete[c] # NoTunnel
            THEN Post(queue, "complete", c, onComplete[c])
            ELSE IF out[c] < Mark /\ out[c] + k >= Mark /\ onHigh[c] # NoTunnel
            THEN Post(queue, "high", c, onHigh[c]) ELSE queue
  /\ UNCHANGED <<tunnel, server, reading, onHigh, onComplete, fault>>

\* handleWrite: the socket takes some of the output.
HandleWrite(c) ==
  /\ Running /\ Open(c) /\ HasRoom
  /\ \E k \in 1..out[c] :
       /\ out' = [out EXCEPT ![c] = @ - k]
       /\ queue' = IF k = out[c] /\ onComplete[c] # NoTunnel
                   THEN Post(queue, "complete", c, onComplete[c]) ELSE queue
  /\ UNCHANGED <<tunnel, server, reading, onHigh, onComplete, fault>>

\* The functor at the head of its loop's queue.  A callback of a Tunnel comes through its
\* weak pointer, but setup bound the Tunnel into its own client_: it never goes away and
\* the lock succeeds.
Runs(f) == Running /\ queue[LoopOf(f.conn)] # <<>> /\ Head(queue[LoopOf(f.conn)]) = f
Popped(f) == [queue EXCEPT ![LoopOf(f.conn)] = Tail(@)]

\* stopReadInLoop and startReadInLoop.  On a connection that is closed they register its
\* channel with the poller again.
SwitchRead(f) ==
  /\ Runs(f) /\ f.do \in {"stop", "start"}
  /\ \/ /\ queue' = Popped(f)
        /\ reading' = IF Open(f.conn) THEN [reading EXCEPT ![f.conn] = (f.do = "start")]
                      ELSE reading
        /\ UNCHANGED <<tunnel, server, out, onHigh, onComplete, fault>>
     \/ ~Open(f.conn) /\ Die("closedChannel")

-----------------------------------------------------------------------------
(* Tunnel *)

\* The constructor and setup(), called by a pool thread.
Setup(t) ==
  /\ Running /\ tunnel[t] = "unused"
  /\ tunnel' = [tunnel EXCEPT ![t] = "connecting"]
  /\ onHigh' = [onHigh EXCEPT ![Server] = t]
  /\ UNCHANGED <<server, out, reading, onComplete, queue, fault>>

\* onClientConnection, up
OnClientConnection(t) ==
  /\ Running /\ tunnel[t] = "connecting"
  /\ tunnel' = [tunnel EXCEPT ![t] = "up"]
  /\ onHigh' = [onHigh EXCEPT ![t] = t]
  /\ UNCHANGED <<server, out, reading, onComplete, queue, fault>>

\* onClientConnection, down: teardown resets clientConn_ and shuts the client down.
Teardown(t) ==
  /\ Running /\ tunnel[t] = "up"
  /\ tunnel' = [tunnel EXCEPT ![t] = "down"]
  /\ server' = IF server = "up" THEN "closing" ELSE server
  /\ UNCHANGED <<connVars, queue, fault>>

\* The client's connection goes down; disconnect() half-closes the tunnel's, which stays
\* up until the web server closes it.
ServerDown ==
  /\ Running /\ server # "down"
  /\ server' = "down"
  /\ UNCHANGED <<tunnel, connVars, queue, fault>>

\* Broken variant: a buffer that has been written out meanwhile is not looked at.
OnHighWaterMarkUntested(f) ==
  LET t == f.by
      other == IF f.conn = Server THEN t ELSE Server
  IN /\ Runs(f) /\ f.do = "high"
     /\ \/ /\ tunnel[t] = "up"
           /\ queue' = Post(Popped(f), "stop", other, NoTunnel)
           /\ onComplete' = [onComplete EXCEPT ![f.conn] = t]
           /\ UNCHANGED <<tunnel, server, out, reading, onHigh, fault>>
        \/ tunnel[t] # "up" /\ Die("nullClient")

\* onHighWaterMark: kServer looks at the client's buffer first, kClient needs clientConn_
\* even for that.  clientConn_ is null unless the tunnel is up.
OnHighWaterMark(f) ==
  LET t == f.by
      other == IF f.conn = Server THEN t ELSE Server
      full == out[f.conn] > 0
  IN /\ Runs(f) /\ f.do = "high"
     /\ \/ /\ full /\ tunnel[t] = "up"
           /\ queue' = Post(Popped(f), "stop", other, NoTunnel)
           /\ onComplete' = [onComplete EXCEPT ![f.conn] = t]
           /\ UNCHANGED <<tunnel, server, out, reading, onHigh, fault>>
        \/ /\ ~full /\ (f.conn = Server \/ tunnel[t] = "up")
           /\ queue' = Popped(f)
           /\ UNCHANGED <<tunnel, server, connVars, fault>>
        \/ tunnel[t] # "up" /\ (full \/ f.conn # Server) /\ Die("nullClient")

\* Broken variant: the reader is not started.
OnWriteCompleteIdle(f) ==
  /\ Runs(f) /\ f.do = "complete"
  /\ \/ /\ tunnel[f.by] = "up"
        /\ queue' = Popped(f)
        /\ onComplete' = [onComplete EXCEPT ![f.conn] = NoTunnel]
        /\ UNCHANGED <<tunnel, server, out, reading, onHigh, fault>>
     \/ tunnel[f.by] # "up" /\ Die("nullClient")

\* onWriteComplete, for either side
OnWriteComplete(f) ==
  LET t == f.by
      other == IF f.conn = Server THEN t ELSE Server
  IN /\ Runs(f) /\ f.do = "complete"
     /\ \/ /\ tunnel[t] = "up"
           /\ queue' = Post(Popped(f), "start", other, NoTunnel)
           /\ onComplete' = [onComplete EXCEPT ![f.conn] = NoTunnel]
           /\ UNCHANGED <<tunnel, server, out, reading, onHigh, fault>>
        \/ tunnel[t] # "up" /\ Die("nullClient")

-----------------------------------------------------------------------------
RunPending(l) ==
  /\ queue[l] # <<>>
  /\ LET f == Head(queue[l])
     IN SwitchRead(f) \/ OnHighWaterMark(f) \/ OnWriteComplete(f)

Next ==
  \/ \E c \in Conns : (\E n \in 1..OutBound : SendInLoop(c, n)) \/ HandleWrite(c)
  \/ \E l \in Loops : RunPending(l)
  \/ \E t \in Tunnels : Setup(t) \/ OnClientConnection(t) \/ Teardown(t)
  \/ ServerDown

Spec == Init /\ [][Next]_vars

\* Event loops run what is queued.  Peers owe nothing: they may never read or close.
FairSpec == Spec /\ \A l \in Loops : WF_vars(RunPending(l))

-----------------------------------------------------------------------------
(* Properties *)

\* Whether c is read from when the functors q have run, if it is now as r says.
ReadsAfter(q, c, r) ==
  LET last == SelectLastInSeq(q, LAMBDA f : f.conn = c /\ f.do \in {"stop", "start"})
  IN IF last = 0 THEN r ELSE q[last].do = "start"

\* Whether c will be read from once its loop has run what is queued now.
WillRead(c) == ReadsAfter(queue[LoopOf(c)], c, reading[c])

\* Somebody will start the reader that Tunnel t stopped because of c's output buffer.
HasWaker(c, t) ==
  \/ onComplete[c] = t /\ out[c] > 0
  \/ Contains(queue[LoopOf(c)], Functor("complete", c, t))

SetUp == {t \in Tunnels : tunnel[t] # "unused"}

\* No lost wake-up towards the client: if it is no longer read from because a web server
\* is slow, some tunnel still has output to write and its write-complete callback set, or
\* that callback is queued, however marks are passed, buffers drain and functors of the two
\* loops interleave.  (When a tunnel has gone down the connection is being closed.)
ClientReaderWakes ==
  Running /\ server = "up" /\ ~WillRead(Server) => \E t \in SetUp : HasWaker(t, t)

\* The same towards the web server, for a connection with one tunnel.  With two, which
\* racing tasks do create, the callbacks of the client's connection are overwritten and
\* this fails.
BackendReaderWakes ==
  Running /\ server = "up" =>
    \A t \in Tunnels :
      SetUp = {t} /\ tunnel[t] = "up" /\ ~WillRead(t) => HasWaker(Server, t)

\* onHighWaterMark and onWriteComplete lose no wake-up, in either direction.
ReaderWakes == ClientReaderWakes /\ BackendReaderWakes

\* Once the client's output has been written out, the web server is read from again,
\* unless a connection closes, the worker dies or a second tunnel is set up.
StoppedIsStarted ==
  \A t \in Tunnels :
    (~reading[t] /\ out[Server] = 0)
      ~> (reading[t] \/ ~Running \/ server # "up" \/ tunnel[t] # "up" \/ SetUp # {t})
=============================================================================
