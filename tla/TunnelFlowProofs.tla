-------------------------- MODULE TunnelFlowProofs --------------------------
(***************************************************************************)
(* Proofs about TunnelFlow, for any number of tunnels, any high-water mark *)
(* and any bounds on the buffers and queues.                               *)
(***************************************************************************)
EXTENDS TunnelFlow, ListFacts, TLAPS

-----------------------------------------------------------------------------
(* What Post and the taking of a head do to the queues. *)

Dos == {"high", "complete", "stop", "start"}
Switches == {"stop", "start"}
IsSwitch(f, c) == f.conn = c /\ f.do \in Switches

\* The functors of a queue are about connections of its loop.
Placed(q) == \A l \in Loops : \A i \in 1..Len(q[l]) : LoopOf(q[l][i].conn) = l
HeadTaken(q, l) == [q EXCEPT ![l] = Tail(@)]

LEMMA LoopFacts ==
  /\ "io" \in Loops /\ "base" \in Loops /\ "io" # "base"
  /\ \A c \in Conns : LoopOf(c) \in Loops
  /\ LoopOf(Server) = "io" /\ \A t \in Tunnels : LoopOf(t) = "base"
BY FlowAssumption DEF Loops, LoopOf, Conns

LEMMA FunctorFacts ==
  ASSUME NEW do \in Dos, NEW c \in Conns, NEW b \in Tunnels \cup {NoTunnel}
  PROVE  LET f == Functor(do, c, b) IN f \in Functors /\ f.do = do /\ f.conn = c /\ f.by = b
BY DEF Functor, Functors, Dos

\* ReadsAfter looks at the last switch of c, if there is one.
LEMMA LastSwitch ==
  ASSUME NEW q \in Seq(Functors), NEW c, NEW r
  PROVE  \/ /\ \A i \in 1..Len(q) : ~IsSwitch(q[i], c)
            /\ ReadsAfter(q, c, r) = r
         \/ \E i \in 1..Len(q) :
              /\ IsSwitch(q[i], c)
              /\ \A j \in 1..Len(q) : IsSwitch(q[j], c) => j <= i
              /\ ReadsAfter(q, c, r) = (q[i].do = "start")
<1> DEFINE I == {i \in 1..Len(q) : q[i].conn = c /\ q[i].do \in {"stop", "start"}}
<1>1. ReadsAfter(q, c, r) = IF (IF I # {} THEN Max(I) ELSE 0) = 0 THEN r
                            ELSE q[IF I # {} THEN Max(I) ELSE 0].do = "start"
  BY DEF ReadsAfter, SelectLastInSeq
<1>2. I \subseteq 1..Len(q) /\ \A i \in 1..Len(q) : i \in I <=> IsSwitch(q[i], c)
  BY DEF IsSwitch, Switches
<1>3. Len(q) \in Nat
  OBVIOUS
<1> HIDE DEF I
<1>4. CASE I = {}
  <2>1. ReadsAfter(q, c, r) = r
    BY <1>1, <1>4
  <2> QED BY <1>2, <1>4, <2>1
<1>5. CASE I # {}
  <2>1. Max(I) \in I /\ \A j \in I : j <= Max(I)
    BY <1>2, <1>3, <1>5, MaxIsGreatest
  <2>2. Max(I) \in 1..Len(q)
    BY <1>2, <2>1
  <2>3. Max(I) # 0
    BY <2>2, <1>3
  <2>4. ReadsAfter(q, c, r) = (q[Max(I)].do = "start")
    BY <1>1, <1>5, <2>3
  <2> QED BY <1>2, <2>1, <2>2, <2>4
<1> QED BY <1>4, <1>5

LEMMA ReadsAppend ==
  ASSUME NEW q \in Seq(Functors), NEW e \in Functors, NEW c, NEW r
  PROVE  ReadsAfter(Append(q, e), c, r) =
           IF IsSwitch(e, c) THEN e.do = "start" ELSE ReadsAfter(q, c, r)
<1> DEFINE p == Append(q, e)
<1>1. /\ p \in Seq(Functors) /\ Len(p) = Len(q) + 1 /\ Len(q) \in Nat
      /\ \A i \in 1..Len(q) : p[i] = q[i]
      /\ p[Len(q) + 1] = e
  BY AppendProperties
<1> HIDE DEF p
<1>2. /\ \A i : i \in 1..Len(p) <=> i \in 1..Len(q) \/ i = Len(q) + 1
      /\ \A i \in 1..Len(q) : i \in Int /\ i <= Len(q) /\ ~(Len(q) + 1 <= i)
  BY <1>1
<1>3. CASE IsSwitch(e, c)
  <2>1. PICK i \in 1..Len(p) :
          /\ \A j \in 1..Len(p) : IsSwitch(p[j], c) => j <= i
          /\ ReadsAfter(p, c, r) = (p[i].do = "start")
    BY <1>1, <1>2, <1>3, LastSwitch
  <2>2. Len(q) + 1 <= i
    BY <1>1, <1>2, <1>3, <2>1
  <2>3. i = Len(q) + 1
    BY <1>2, <2>1, <2>2
  <2> QED BY <1>1, <1>3, <2>1, <2>3 DEF p
<1>4. CASE ~IsSwitch(e, c)
  <2>1. CASE \A i \in 1..Len(q) : ~IsSwitch(q[i], c)
    <3>1. ReadsAfter(q, c, r) = r
      BY <2>1, LastSwitch
    <3>2. \A i \in 1..Len(p) : ~IsSwitch(p[i], c)
      BY <1>1, <1>2, <1>4, <2>1
    <3>3. ReadsAfter(p, c, r) = r
      BY <1>1, <3>2, LastSwitch
    <3> QED BY <1>4, <3>1, <3>3 DEF p
  <2>2. CASE \E i \in 1..Len(q) : IsSwitch(q[i], c)
    <3>1. PICK i \in 1..Len(q) :
            /\ IsSwitch(q[i], c)
            /\ \A j \in 1..Len(q) : IsSwitch(q[j], c) => j <= i
            /\ ReadsAfter(q, c, r) = (q[i].do = "start")
      BY <2>2, LastSwitch
    <3>2. i \in 1..Len(p) /\ IsSwitch(p[i], c)
      BY <1>1, <1>2, <3>1
    <3>3. PICK k \in 1..Len(p) :
            /\ IsSwitch(p[k], c)
            /\ \A j \in 1..Len(p) : IsSwitch(p[j], c) => j <= k
            /\ ReadsAfter(p, c, r) = (p[k].do = "start")
      BY <1>1, <3>2, LastSwitch
    <3>4. k \in 1..Len(q) /\ IsSwitch(q[k], c)
      BY <1>1, <1>2, <1>4, <3>3
    <3>5. k <= i /\ i <= k
      BY <3>1, <3>2, <3>3, <3>4
    <3>6. k = i
      BY <1>1, <3>5
    <3> QED BY <1>1, <1>4, <3>1, <3>3, <3>6 DEF p
  <2> QED BY <2>1, <2>2
<1> QED BY <1>3, <1>4

\* Running a switch at the head leaves what will be as it was.
LEMMA ReadsTail ==
  ASSUME NEW q \in Seq(Functors), q # <<>>, NEW c, NEW r
  PROVE  ReadsAfter(Tail(q), c, IF IsSwitch(Head(q), c) THEN Head(q).do = "start" ELSE r)
           = ReadsAfter(q, c, r)
<1> DEFINE p == Tail(q)
           s == IF IsSwitch(Head(q), c) THEN Head(q).do = "start" ELSE r
<1>1. /\ p \in Seq(Functors) /\ Len(q) \in Nat \ {0} /\ Len(p) = Len(q) - 1 /\ Head(q) = q[1]
      /\ \A i \in 1..Len(p) : p[i] = q[i + 1]
  BY PopFacts
<1> HIDE DEF p
<1>2. /\ \A i \in 1..Len(p) : i + 1 \in 1..Len(q) /\ ~(i + 1 <= 1)
      /\ \A j \in 1..Len(q) : j # 1 => j - 1 \in 1..Len(p) /\ (j - 1) + 1 = j
      /\ 1 \in 1..Len(q)
  BY <1>1
<1>3. \A j \in 1..Len(q) : j # 1 => p[j - 1] = q[j]
  <2>1. TAKE j \in 1..Len(q)
  <2>2. HAVE j # 1
  <2>3. j - 1 \in 1..Len(p) /\ (j - 1) + 1 = j
    BY <1>2, <2>2
  <2>4. p[j - 1] = q[(j - 1) + 1]
    BY <1>1, <2>3
  <2> QED BY <2>3, <2>4
<1>4. CASE \A i \in 1..Len(p) : ~IsSwitch(p[i], c)
  <2>1. ReadsAfter(p, c, s) = s
    BY <1>1, <1>4, LastSwitch
  <2>2. \A j \in 1..Len(q) : IsSwitch(q[j], c) => j = 1
    BY <1>2, <1>3, <1>4
  <2>3. CASE IsSwitch(Head(q), c)
    <3>1. PICK k \in 1..Len(q) : IsSwitch(q[k], c) /\ ReadsAfter(q, c, r) = (q[k].do = "start")
      BY <1>1, <1>2, <2>3, LastSwitch
    <3>2. k = 1
      BY <2>2, <3>1
    <3> QED BY <1>1, <2>1, <2>3, <3>1, <3>2 DEF p
  <2>4. CASE ~IsSwitch(Head(q), c)
    <3>1. \A j \in 1..Len(q) : ~IsSwitch(q[j], c)
      BY <1>1, <2>2, <2>4
    <3>2. ReadsAfter(q, c, r) = r
      BY <3>1, LastSwitch
    <3> QED BY <2>1, <2>4, <3>2 DEF p
  <2> QED BY <2>3, <2>4
<1>5. CASE \E i \in 1..Len(p) : IsSwitch(p[i], c)
  <2>1. PICK i \in 1..Len(p) :
          /\ IsSwitch(p[i], c)
          /\ \A j \in 1..Len(p) : IsSwitch(p[j], c) => j <= i
          /\ ReadsAfter(p, c, s) = (p[i].do = "start")
    <3> HIDE DEF s
    <3> QED BY <1>1, <1>5, LastSwitch
  <2>2. i + 1 \in 1..Len(q) /\ IsSwitch(q[i + 1], c)
    BY <1>1, <1>2, <2>1
  <2>3. PICK k \in 1..Len(q) :
          /\ IsSwitch(q[k], c)
          /\ \A j \in 1..Len(q) : IsSwitch(q[j], c) => j <= k
          /\ ReadsAfter(q, c, r) = (q[k].do = "start")
    BY <2>2, LastSwitch
  <2>4. i + 1 <= k
    BY <2>2, <2>3
  <2>5. k # 1
    BY <2>4, <1>2
  <2>6. k - 1 \in 1..Len(p) /\ p[k - 1] = q[k]
    BY <1>2, <1>3, <2>5
  <2>7. k - 1 <= i
    BY <2>1, <2>3, <2>6
  <2>8. k - 1 = i
    BY <1>1, <2>4, <2>7
  <2> QED BY <2>1, <2>3, <2>6, <2>8 DEF p
<1> QED BY <1>4, <1>5 DEF p, s

\* The queues p are q and one functor at the end of one queue.
Posted(q, p, do, c, b) ==
  /\ p \in [Loops -> Seq(Functors)] /\ Placed(p)
  /\ \A l \in Loops : \A x :
       IsIn(x, p[l]) <=> IsIn(x, q[l]) \/ (l = LoopOf(c) /\ x = Functor(do, c, b))
  /\ \A d \in Conns : \A r :
       ReadsAfter(p[LoopOf(d)], d, r) =
         IF d = c /\ do \in Switches THEN do = "start" ELSE ReadsAfter(q[LoopOf(d)], d, r)

LEMMA PostFacts ==
  ASSUME NEW q \in [Loops -> Seq(Functors)], Placed(q),
         NEW do \in Dos, NEW c \in Conns, NEW b \in Tunnels \cup {NoTunnel}
  PROVE  Posted(q, Post(q, do, c, b), do, c, b)
<1> DEFINE e == Functor(do, c, b)
           p == Post(q, do, c, b)
<1>1. e \in Functors /\ e.do = do /\ e.conn = c
  BY FunctorFacts
<1>2. LoopOf(c) \in Loops /\ q[LoopOf(c)] \in Seq(Functors)
  BY LoopFacts
<1>3. p = [q EXCEPT ![LoopOf(c)] = Append(q[LoopOf(c)], e)]
  BY DEF Post
<1> HIDE DEF e
<1>4. Append(q[LoopOf(c)], e) \in Seq(Functors)
  BY <1>1, <1>2, AppendFacts
<1>5. /\ p \in [Loops -> Seq(Functors)]
      /\ p[LoopOf(c)] = Append(q[LoopOf(c)], e)
      /\ \A l \in Loops : l # LoopOf(c) => p[l] = q[l]
  BY <1>2, <1>3, <1>4
<1> HIDE DEF p
<1>6. \A x : IsIn(x, p[LoopOf(c)]) <=> IsIn(x, q[LoopOf(c)]) \/ x = e
  BY <1>1, <1>2, <1>5, AppendFacts
<1>7. \A l \in Loops : \A x : IsIn(x, p[l]) <=> IsIn(x, q[l]) \/ (l = LoopOf(c) /\ x = e)
  BY <1>5, <1>6
<1>8. ASSUME NEW l \in Loops, NEW i \in 1..Len(p[l]) PROVE LoopOf(p[l][i].conn) = l
  <2>1. IsIn(p[l][i], p[l])
    BY DEF IsIn
  <2>2. CASE IsIn(p[l][i], q[l])
    BY <2>2 DEF IsIn, Placed
  <2>3. CASE l = LoopOf(c) /\ p[l][i] = e
    BY <1>1, <2>3
  <2> QED BY <1>7, <2>1, <2>2, <2>3
<1>9. ASSUME NEW d \in Conns, NEW r
      PROVE  ReadsAfter(p[LoopOf(d)], d, r) =
               IF d = c /\ do \in Switches THEN do = "start"
               ELSE ReadsAfter(q[LoopOf(d)], d, r)
  <2>1. CASE LoopOf(d) = LoopOf(c)
    <3>1. ReadsAfter(Append(q[LoopOf(c)], e), d, r) =
            IF IsSwitch(e, d) THEN e.do = "start" ELSE ReadsAfter(q[LoopOf(c)], d, r)
      BY <1>1, <1>2, ReadsAppend
    <3> QED BY <1>1, <1>5, <2>1, <3>1 DEF IsSwitch
  <2>2. CASE LoopOf(d) # LoopOf(c)
    BY <1>5, <2>2, LoopFacts
  <2> QED BY <2>1, <2>2
<1> QED BY <1>5, <1>7, <1>8, <1>9 DEF p, e, Placed, Posted

\* The queues p are q without the functor h that was at the head of its queue.
Taken(q, p, h) ==
  /\ h \in Functors /\ LoopOf(h.conn) \in Loops /\ IsIn(h, q[LoopOf(h.conn)])
  /\ p \in [Loops -> Seq(Functors)] /\ Placed(p)
  /\ \A m \in Loops : \A x : IsIn(x, p[m]) => IsIn(x, q[m])
  /\ \A m \in Loops : \A x : IsIn(x, q[m]) /\ x # h => IsIn(x, p[m])
  /\ \A d \in Conns : \A r :
       ReadsAfter(p[LoopOf(d)], d, IF IsSwitch(h, d) THEN h.do = "start" ELSE r)
         = ReadsAfter(q[LoopOf(d)], d, r)

LEMMA TakenFacts ==
  ASSUME NEW q \in [Loops -> Seq(Functors)], Placed(q), NEW l \in Loops, q[l] # <<>>
  PROVE  Taken(q, HeadTaken(q, l), Head(q[l])) /\ LoopOf(Head(q[l]).conn) = l
<1> DEFINE p == HeadTaken(q, l)
           h == Head(q[l])
<1>1. q[l] \in Seq(Functors)
  OBVIOUS
<1>2. /\ h = q[l][1] /\ h \in Functors /\ IsIn(h, q[l]) /\ Len(q[l]) \in Nat \ {0}
      /\ Tail(q[l]) \in Seq(Functors)
      /\ \A x : IsIn(x, Tail(q[l])) => IsIn(x, q[l])
      /\ \A x : IsIn(x, q[l]) => x = h \/ IsIn(x, Tail(q[l]))
  BY <1>1, PopFacts
<1>3. LoopOf(h.conn) = l
  <2>1. 1 \in 1..Len(q[l])
    BY <1>2
  <2> QED BY <1>2, <2>1 DEF Placed
<1>4. /\ p \in [Loops -> Seq(Functors)]
      /\ p[l] = Tail(q[l])
      /\ \A m \in Loops : m # l => p[m] = q[m]
  BY <1>2 DEF HeadTaken
<1> HIDE DEF p
<1>5. \A m \in Loops : \A x : IsIn(x, p[m]) => IsIn(x, q[m])
  BY <1>2, <1>4
<1>6. \A m \in Loops : \A x : IsIn(x, q[m]) /\ x # h => IsIn(x, p[m])
  BY <1>2, <1>4
<1>7. ASSUME NEW m \in Loops, NEW i \in 1..Len(p[m]) PROVE LoopOf(p[m][i].conn) = m
  <2>1. IsIn(p[m][i], q[m])
    BY <1>5 DEF IsIn
  <2> QED BY <2>1 DEF IsIn, Placed
<1>8. ASSUME NEW d \in Conns, NEW r
      PROVE  ReadsAfter(p[LoopOf(d)], d, IF IsSwitch(h, d) THEN h.do = "start" ELSE r)
               = ReadsAfter(q[LoopOf(d)], d, r)
  <2>1. CASE LoopOf(d) = l
    <3>1. ReadsAfter(Tail(q[l]), d, IF IsSwitch(Head(q[l]), d) THEN Head(q[l]).do = "start" ELSE r)
            = ReadsAfter(q[l], d, r)
      BY <1>1, ReadsTail
    <3> QED BY <1>4, <2>1, <3>1
  <2>2. CASE LoopOf(d) # l
    <3>1. ~IsSwitch(h, d)
      BY <1>3, <2>2 DEF IsSwitch
    <3> QED BY <1>4, <2>2, <3>1, LoopFacts
  <2> QED BY <2>1, <2>2
<1> QED BY <1>2, <1>3, <1>4, <1>5, <1>6, <1>7, <1>8 DEF p, Placed, Taken

-----------------------------------------------------------------------------
(* The inductive invariant. *)

Callbacks == {"high", "complete"}

\* Callbacks are bound to tunnels that are set up, and those of a tunnel's own connection
\* to that tunnel.
CallbackInv ==
  \A c \in Conns :
    /\ onHigh[c] \in SetUp \cup {NoTunnel} /\ onComplete[c] \in SetUp \cup {NoTunnel}
    /\ c # Server => onHigh[c] \in {c, NoTunnel} /\ onComplete[c] \in {c, NoTunnel}

\* So are the callbacks that are queued.
QueuedInv ==
  \A l \in Loops : \A f \in Functors :
    IsIn(f, queue[l]) /\ f.do \in Callbacks =>
      f.by \in SetUp /\ (f.conn # Server => f.by = f.conn)

\* Nobody has stopped a connection that was never up.
FreshInv ==
  \A t \in Tunnels : tunnel[t] \in {"unused", "connecting"} =>
    reading[t] /\ \A f \in Functors : IsIn(f, queue["base"]) => ~IsSwitch(f, t)

FInv == TypeOK /\ CallbackInv /\ QueuedInv /\ FreshInv /\ ReaderWakes

LEMMA WakerFacts ==
  \A c \in Conns : \A t \in Tunnels :
    HasWaker(c, t) <=>
      \/ onComplete[c] = t /\ out[c] > 0
      \/ IsIn(Functor("complete", c, t), queue[LoopOf(c)])
BY DEF HasWaker, Contains, IsIn

LEMMA InitInv == Init => FInv
<1> SUFFICES ASSUME Init PROVE FInv
  OBVIOUS
<1>1. \A l \in Loops : queue[l] = <<>>
  BY DEF Init
<1>2. \A l \in Loops : Len(queue[l]) = 0 /\ queue[l] \in Seq(Functors) /\ \A x : ~IsIn(x, queue[l])
  <2>1. Len(<<>>) = 0 /\ <<>> \in Seq(Functors) /\ \A x : ~IsIn(x, <<>>)
    BY EmptyFacts, EmptySeq
  <2> QED BY <1>1, <2>1
<1>3. TypeOK
  <2>1. queue \in [Loops -> Seq(Functors)]
    BY <1>2 DEF Init
  <2>2. \A l \in Loops : \A i \in 1..Len(queue[l]) : LoopOf(queue[l][i].conn) = l
    BY <1>2
  <2> QED BY <2>1, <2>2, FlowAssumption DEF Init, TypeOK
<1>4. \A c \in Conns : WillRead(c)
  <2>1. TAKE c \in Conns
  <2>2. LoopOf(c) \in Loops
    BY LoopFacts
  <2>3. reading[c] = TRUE
    BY DEF Init
  <2>4. ReadsAfter(queue[LoopOf(c)], c, reading[c]) = reading[c]
    BY <1>2, <2>2, LastSwitch
  <2> QED BY <2>3, <2>4 DEF WillRead
<1>5. ReaderWakes
  BY <1>4 DEF ReaderWakes, ClientReaderWakes, BackendReaderWakes, Conns
<1>6. CallbackInv
  BY DEF Init, CallbackInv
<1>7. QueuedInv
  BY <1>2 DEF QueuedInv
<1>8. FreshInv
  BY <1>2, LoopFacts DEF FreshInv, Init, Conns
<1> QED BY <1>3, <1>5, <1>6, <1>7, <1>8 DEF FInv

\* A worker that dies leaves everything else as it is.
LEMMA DieInv ==
  ASSUME FInv, NEW cause \in {"nullClient", "closedChannel"}, Die(cause)
  PROVE  FInv'
<1>1. fault' = cause /\ tunnel' = tunnel /\ server' = server /\ queue' = queue
      /\ out' = out /\ reading' = reading /\ onHigh' = onHigh /\ onComplete' = onComplete
  BY DEF Die, connVars
<1>2. TypeOK'
  BY <1>1 DEF FInv, TypeOK
<1>3. CallbackInv' /\ QueuedInv' /\ FreshInv'
  BY <1>1 DEF FInv, CallbackInv, QueuedInv, FreshInv, SetUp
<1>4. ReaderWakes'
  BY <1>1 DEF ReaderWakes, ClientReaderWakes, BackendReaderWakes, Running
<1> QED BY <1>2, <1>3, <1>4 DEF FInv

\* Output is added to or written from a buffer; a callback may be queued.
LEMMA OutputInv ==
  ASSUME FInv, NEW c \in Conns, out' \in [Conns -> 0..OutBound],
         UNCHANGED <<tunnel, server, reading, onHigh, onComplete, fault>>,
         \/ queue' = queue
         \/ onComplete[c] # NoTunnel /\ queue' = Post(queue, "complete", c, onComplete[c])
         \/ onHigh[c] # NoTunnel /\ queue' = Post(queue, "high", c, onHigh[c]),
         \A d \in Conns : out[d] > 0 /\ onComplete[d] # NoTunnel =>
           out'[d] > 0 \/ (d = c /\ queue' = Post(queue, "complete", c, onComplete[c]))
  PROVE  FInv'
<1>1. tunnel' = tunnel /\ server' = server /\ reading' = reading
      /\ onHigh' = onHigh /\ onComplete' = onComplete /\ fault' = fault
  OBVIOUS
<1>2. queue \in [Loops -> Seq(Functors)] /\ Placed(queue) /\ LoopOf(c) \in Loops
  BY LoopFacts DEF FInv, TypeOK, Placed
<1>3. onComplete[c] \in Tunnels \cup {NoTunnel} /\ onHigh[c] \in Tunnels \cup {NoTunnel}
  BY DEF FInv, TypeOK
<1>4. /\ queue' \in [Loops -> Seq(Functors)] /\ Placed(queue')
      /\ \A l \in Loops : \A x : IsIn(x, queue[l]) => IsIn(x, queue'[l])
      /\ \A l \in Loops : \A x :
           IsIn(x, queue'[l]) =>
             \/ IsIn(x, queue[l])
             \/ x = Functor("complete", c, onComplete[c]) /\ onComplete[c] # NoTunnel
             \/ x = Functor("high", c, onHigh[c]) /\ onHigh[c] # NoTunnel
      /\ \A d \in Conns : \A r :
           ReadsAfter(queue'[LoopOf(d)], d, r) = ReadsAfter(queue[LoopOf(d)], d, r)
  <2>1. CASE queue' = queue
    BY <1>2, <2>1
  <2>2. CASE onComplete[c] # NoTunnel /\ queue' = Post(queue, "complete", c, onComplete[c])
    <3>1. "complete" \in Dos /\ "complete" \notin Switches
      BY DEF Dos, Switches
    <3>2. PICK b \in Tunnels \cup {NoTunnel} : b = onComplete[c]
      BY <1>3
    <3>3. queue' = Post(queue, "complete", c, b)
      BY <2>2, <3>2
    <3>4. /\ queue' \in [Loops -> Seq(Functors)] /\ Placed(queue')
          /\ \A l \in Loops : \A x :
               IsIn(x, queue'[l]) <=>
                 IsIn(x, queue[l]) \/ (l = LoopOf(c) /\ x = Functor("complete", c, b))
          /\ \A d \in Conns : \A r :
               ReadsAfter(queue'[LoopOf(d)], d, r) = ReadsAfter(queue[LoopOf(d)], d, r)
      <4>1. Posted(queue, queue', "complete", c, b)
        BY <1>2, <3>1, <3>3, PostFacts
      <4> QED BY <3>1, <4>1 DEF Posted
    <3> QED BY <2>2, <3>2, <3>4
  <2>3. CASE onHigh[c] # NoTunnel /\ queue' = Post(queue, "high", c, onHigh[c])
    <3>1. "high" \in Dos /\ "high" \notin Switches
      BY DEF Dos, Switches
    <3>2. PICK b \in Tunnels \cup {NoTunnel} : b = onHigh[c]
      BY <1>3
    <3>3. queue' = Post(queue, "high", c, b)
      BY <2>3, <3>2
    <3>4. /\ queue' \in [Loops -> Seq(Functors)] /\ Placed(queue')
          /\ \A l \in Loops : \A x :
               IsIn(x, queue'[l]) <=>
                 IsIn(x, queue[l]) \/ (l = LoopOf(c) /\ x = Functor("high", c, b))
          /\ \A d \in Conns : \A r :
               ReadsAfter(queue'[LoopOf(d)], d, r) = ReadsAfter(queue[LoopOf(d)], d, r)
      <4>1. Posted(queue, queue', "high", c, b)
        BY <1>2, <3>1, <3>3, PostFacts
      <4> QED BY <3>1, <4>1 DEF Posted
    <3> QED BY <2>3, <3>2, <3>4
  <2> QED BY <2>1, <2>2, <2>3
<1>5. TypeOK'
  BY <1>1, <1>4 DEF FInv, TypeOK, Placed
<1>6. CallbackInv'
  BY <1>1 DEF FInv, CallbackInv, SetUp
<1>7. QueuedInv'
  <2> SUFFICES ASSUME NEW l \in Loops, NEW f \in Functors, IsIn(f, queue'[l]), f.do \in Callbacks
               PROVE  f.by \in SetUp /\ (f.conn # Server => f.by = f.conn)
    BY <1>1 DEF QueuedInv, SetUp
  <2>1. CASE IsIn(f, queue[l])
    BY <2>1 DEF FInv, QueuedInv
  <2>2. CASE f = Functor("complete", c, onComplete[c]) /\ onComplete[c] # NoTunnel
    BY <2>2 DEF FInv, CallbackInv, Functor
  <2>3. CASE f = Functor("high", c, onHigh[c]) /\ onHigh[c] # NoTunnel
    BY <2>3 DEF FInv, CallbackInv, Functor
  <2> QED BY <1>4, <2>1, <2>2, <2>3
<1>8. FreshInv'
  <2> SUFFICES ASSUME NEW t \in Tunnels, tunnel[t] \in {"unused", "connecting"},
                      NEW f \in Functors, IsIn(f, queue'["base"])
               PROVE  ~IsSwitch(f, t)
    BY <1>1 DEF FInv, FreshInv
  <2>1. CASE IsIn(f, queue["base"])
    BY <2>1 DEF FInv, FreshInv
  <2>2. CASE f = Functor("complete", c, onComplete[c]) \/ f = Functor("high", c, onHigh[c])
    BY <2>2 DEF Functor, IsSwitch, Switches
  <2> QED BY <1>4, <2>1, <2>2, LoopFacts
<1>9. \A d \in Conns : WillRead(d)' = WillRead(d)
  BY <1>1, <1>4 DEF WillRead
<1>10. ASSUME NEW d \in Conns, NEW t \in Tunnels, HasWaker(d, t) PROVE HasWaker(d, t)'
  <2>1. LoopOf(d) \in Loops
    BY LoopFacts
  <2>2. CASE IsIn(Functor("complete", d, t), queue[LoopOf(d)])
    <3>1. IsIn(Functor("complete", d, t), queue'[LoopOf(d)])
      BY <1>4, <2>1, <2>2
    <3> QED BY <3>1 DEF HasWaker, Contains, IsIn
  <2>3. CASE onComplete[d] = t /\ out[d] > 0
    <3>1. CASE out'[d] > 0
      BY <1>1, <2>3, <3>1 DEF HasWaker
    <3>2. CASE d = c /\ queue' = Post(queue, "complete", c, onComplete[c])
      <4>1. "complete" \in Dos
        BY DEF Dos
      <4>2. Posted(queue, queue', "complete", c, t)
        BY <1>2, <2>3, <3>2, <4>1, PostFacts
      <4>3. IsIn(Functor("complete", c, t), queue'[LoopOf(c)])
        BY <1>2, <4>2 DEF Posted
      <4> QED BY <2>3, <3>2, <4>3 DEF HasWaker, Contains, IsIn
    <3>3. onComplete[d] # NoTunnel
      BY <2>3, FlowAssumption
    <3> QED BY <2>3, <3>1, <3>2, <3>3
  <2> QED BY <1>10, <2>2, <2>3, WakerFacts
<1>11. ReaderWakes'
  <2>1. SetUp' = SetUp /\ Running' = Running
    BY <1>1 DEF SetUp, Running
  <2>2. Server \in Conns /\ Tunnels \subseteq Conns /\ SetUp \subseteq Tunnels
    BY DEF Conns, SetUp
  <2> QED BY <1>1, <1>9, <1>10, <2>1, <2>2
          DEF FInv, ReaderWakes, ClientReaderWakes, BackendReaderWakes
<1> QED BY <1>5, <1>6, <1>7, <1>8, <1>11 DEF FInv

LEMMA SendInv ==
  ASSUME FInv, NEW c \in Conns, NEW n \in 1..OutBound, SendInLoop(c, n)
  PROVE  FInv'
<1>1. out \in [Conns -> 0..OutBound] /\ OutBound \in Nat
  BY FlowAssumption DEF FInv, TypeOK
<1>2. PICK k \in (IF out[c] = 0 THEN 0..n ELSE {n}) :
        /\ out[c] + k <= OutBound
        /\ out' = [out EXCEPT ![c] = out[c] + k]
        /\ queue' =
             IF k = 0 /\ onComplete[c] # NoTunnel
             THEN Post(queue, "complete", c, onComplete[c])
             ELSE IF out[c] < Mark /\ out[c] + k >= Mark /\ onHigh[c] # NoTunnel
             THEN Post(queue, "high", c, onHigh[c]) ELSE queue
  BY DEF SendInLoop
<1>3. k \in Nat /\ out[c] + k \in 0..OutBound
  BY <1>1, <1>2
<1>4. out' \in [Conns -> 0..OutBound] /\ \A d \in Conns : out[d] > 0 => out'[d] > 0
  BY <1>1, <1>2, <1>3
<1>5. UNCHANGED <<tunnel, server, reading, onHigh, onComplete, fault>>
  BY DEF SendInLoop
<1>6. \/ queue' = queue
      \/ onComplete[c] # NoTunnel /\ queue' = Post(queue, "complete", c, onComplete[c])
      \/ onHigh[c] # NoTunnel /\ queue' = Post(queue, "high", c, onHigh[c])
  BY <1>2
<1> QED BY <1>4, <1>5, <1>6, OutputInv

LEMMA WriteInv ==
  ASSUME FInv, NEW c \in Conns, HandleWrite(c)
  PROVE  FInv'
<1>1. out \in [Conns -> 0..OutBound] /\ OutBound \in Nat
  BY FlowAssumption DEF FInv, TypeOK
<1>2. PICK k \in 1..out[c] :
        /\ out' = [out EXCEPT ![c] = out[c] - k]
        /\ queue' = IF k = out[c] /\ onComplete[c] # NoTunnel
                    THEN Post(queue, "complete", c, onComplete[c]) ELSE queue
  BY DEF HandleWrite
<1>3. out[c] - k \in 0..OutBound /\ (k # out[c] => out[c] - k > 0)
  BY <1>1, <1>2
<1>4. /\ out' \in [Conns -> 0..OutBound]
      /\ \A d \in Conns : out[d] > 0 /\ onComplete[d] # NoTunnel =>
           out'[d] > 0 \/ (d = c /\ queue' = Post(queue, "complete", c, onComplete[c]))
  BY <1>1, <1>2, <1>3
<1>5. UNCHANGED <<tunnel, server, reading, onHigh, onComplete, fault>>
  BY DEF HandleWrite
<1>6. \/ queue' = queue
      \/ onComplete[c] # NoTunnel /\ queue' = Post(queue, "complete", c, onComplete[c])
      \/ onHigh[c] # NoTunnel /\ queue' = Post(queue, "high", c, onHigh[c])
  BY <1>2
<1> QED BY <1>4, <1>5, <1>6, OutputInv

\* A functor has run that posts no other and binds no callback: a switch, or a
\* high-water mark whose buffer is empty again.
LEMMA TakenInv ==
  ASSUME FInv, NEW f \in Functors, f.do # "complete", Taken(queue, queue', f),
         reading' = IF f.do \in Switches /\ Open(f.conn)
                    THEN [reading EXCEPT ![f.conn] = (f.do = "start")] ELSE reading,
         UNCHANGED <<tunnel, server, out, onHigh, onComplete, fault>>
  PROVE  FInv'
<1>1. tunnel' = tunnel /\ server' = server /\ out' = out
      /\ onHigh' = onHigh /\ onComplete' = onComplete /\ fault' = fault
  OBVIOUS
<1>2. reading \in [Conns -> BOOLEAN] /\ f.conn \in Conns
  BY DEF FInv, TypeOK, Functors
<1>3. /\ reading' \in [Conns -> BOOLEAN]
      /\ \A d \in Conns : ~IsSwitch(f, d) => reading'[d] = reading[d]
      /\ \A d \in Conns : IsSwitch(f, d) /\ Open(d) => reading'[d] = (f.do = "start")
  BY <1>2 DEF IsSwitch
<1>4. TypeOK'
  BY <1>1, <1>3 DEF FInv, TypeOK, Taken, Placed
<1>5. CallbackInv'
  BY <1>1 DEF FInv, CallbackInv, SetUp
<1>6. QueuedInv'
  BY <1>1 DEF FInv, QueuedInv, SetUp, Taken
<1>7. FreshInv'
  <2> SUFFICES ASSUME NEW t \in Tunnels, tunnel[t] \in {"unused", "connecting"}
               PROVE  reading'[t] /\ \A x \in Functors : IsIn(x, queue'["base"]) => ~IsSwitch(x, t)
    BY <1>1 DEF FreshInv
  <2>1. reading[t] /\ \A x \in Functors : IsIn(x, queue["base"]) => ~IsSwitch(x, t)
    BY DEF FInv, FreshInv
  <2>2. ~IsSwitch(f, t)
    <3>1. f.conn = t => IsIn(f, queue["base"])
      BY LoopFacts DEF Taken
    <3> QED BY <2>1, <3>1 DEF IsSwitch
  <2>3. reading'[t]
    BY <1>3, <2>1, <2>2 DEF Conns
  <2> QED BY <2>1, <2>3, LoopFacts DEF Taken
<1>8. ASSUME NEW d \in Conns, Open(d) PROVE WillRead(d)' = WillRead(d)
  <2>1. reading'[d] = IF IsSwitch(f, d) THEN f.do = "start" ELSE reading[d]
    BY <1>3, <1>8
  <2>2. ReadsAfter(queue'[LoopOf(d)], d, IF IsSwitch(f, d) THEN f.do = "start" ELSE reading[d])
          = ReadsAfter(queue[LoopOf(d)], d, reading[d])
    BY DEF Taken
  <2> QED BY <2>1, <2>2 DEF WillRead
<1>9. ASSUME NEW d \in Conns, NEW t \in Tunnels, HasWaker(d, t) PROVE HasWaker(d, t)'
  <2>1. CASE onComplete[d] = t /\ out[d] > 0
    BY <1>1, <2>1 DEF HasWaker
  <2>2. CASE IsIn(Functor("complete", d, t), queue[LoopOf(d)])
    <3>1. Functor("complete", d, t) # f
      BY DEF Functor
    <3>2. IsIn(Functor("complete", d, t), queue'[LoopOf(d)])
      BY <2>2, <3>1, LoopFacts DEF Taken
    <3> QED BY <3>2 DEF HasWaker, Contains, IsIn
  <2> QED BY <1>9, <2>1, <2>2, WakerFacts
<1>10. ReaderWakes'
  <2>1. SetUp' = SetUp /\ Running' = Running
    BY <1>1 DEF SetUp, Running
  <2>2. Server \in Conns /\ Tunnels \subseteq Conns /\ SetUp \subseteq Tunnels
    BY DEF Conns, SetUp
  <2>3. /\ server = "up" => Open(Server)
        /\ \A t \in Tunnels : tunnel[t] = "up" => Open(t)
    BY FlowAssumption DEF Open
  <2> QED BY <1>1, <1>8, <1>9, <2>1, <2>2, <2>3
          DEF FInv, ReaderWakes, ClientReaderWakes, BackendReaderWakes
<1> QED BY <1>4, <1>5, <1>6, <1>7, <1>10 DEF FInv

\* A callback of a tunnel that is up has run: it stops the other side, and its output
\* buffer has something to write and will call back, or it starts the other side.
LEMMA CallbackRunInv ==
  ASSUME FInv, NEW f \in Functors, f.do \in Callbacks, tunnel[f.by] = "up",
         NEW other, other = IF f.conn = Server THEN f.by ELSE Server,
         NEW do, NEW b, onComplete' = [onComplete EXCEPT ![f.conn] = b],
         \/ f.do = "high" /\ do = "stop" /\ b = f.by /\ out[f.conn] > 0
         \/ f.do = "complete" /\ do = "start" /\ b = NoTunnel,
         Taken(queue, Popped(f), f), queue' = Post(Popped(f), do, other, NoTunnel),
         UNCHANGED <<tunnel, server, out, reading, onHigh, fault>>
  PROVE  FInv'
<1>1. tunnel' = tunnel /\ server' = server /\ out' = out /\ reading' = reading
      /\ onHigh' = onHigh /\ fault' = fault
  OBVIOUS
<1>2. f.conn \in Conns /\ f.by \in SetUp /\ (f.conn # Server => f.by = f.conn)
  <2>1. f.conn \in Conns
    BY DEF Functors
  <2> QED BY <2>1 DEF FInv, QueuedInv, Taken
<1>3. /\ f.by \in Tunnels /\ other \in Conns /\ Server \in Conns /\ Server \notin Tunnels
      /\ Tunnels \subseteq Conns /\ SetUp \subseteq Tunnels
  BY <1>2, FlowAssumption DEF SetUp, Conns
<1>4. do \in Switches /\ do \in Dos
  BY DEF Switches, Dos
<1>5. PICK p : p = Popped(f)
  OBVIOUS
<1>6. Taken(queue, p, f)
  BY <1>5
<1>7. Posted(p, queue', do, other, NoTunnel)
  BY <1>3, <1>4, <1>5, <1>6, PostFacts DEF Taken
<1>8. \A l \in Loops : \A x : IsIn(x, queue[l]) /\ x # f => IsIn(x, queue'[l])
  BY <1>6, <1>7 DEF Taken, Posted
<1>9. \A l \in Loops : \A x :
        IsIn(x, queue'[l]) => IsIn(x, queue[l]) \/ x = Functor(do, other, NoTunnel)
  BY <1>6, <1>7 DEF Taken, Posted
<1>10. ASSUME NEW d \in Conns, d # other PROVE WillRead(d)' = WillRead(d)
  <2>1. ~IsSwitch(f, d)
    BY DEF IsSwitch, Switches, Callbacks
  <2>2. ReadsAfter(p[LoopOf(d)], d, reading[d]) = ReadsAfter(queue[LoopOf(d)], d, reading[d])
    BY <1>6, <2>1 DEF Taken
  <2>3. ReadsAfter(queue'[LoopOf(d)], d, reading[d]) = ReadsAfter(p[LoopOf(d)], d, reading[d])
    BY <1>7, <1>10 DEF Posted
  <2> QED BY <1>1, <2>2, <2>3 DEF WillRead
<1>11. WillRead(other)' = (do = "start")
  BY <1>1, <1>3, <1>4, <1>7 DEF WillRead, Posted
<1>12. /\ onComplete \in [Conns -> Tunnels \cup {NoTunnel}]
       /\ onComplete' \in [Conns -> Tunnels \cup {NoTunnel}]
       /\ onComplete'[f.conn] = b
       /\ \A d \in Conns : d # f.conn => onComplete'[d] = onComplete[d]
  BY <1>2, <1>3 DEF FInv, TypeOK
<1>13. ASSUME NEW d \in Conns, d # f.conn, NEW t \in Tunnels, HasWaker(d, t)
       PROVE  HasWaker(d, t)'
  <2>1. CASE onComplete[d] = t /\ out[d] > 0
    BY <1>1, <1>12, <1>13, <2>1 DEF HasWaker
  <2>2. CASE IsIn(Functor("complete", d, t), queue[LoopOf(d)])
    <3>1. Functor("complete", d, t) # f
      BY <1>13 DEF Functor
    <3>2. IsIn(Functor("complete", d, t), queue'[LoopOf(d)])
      BY <1>8, <2>2, <3>1, LoopFacts
    <3> QED BY <3>2 DEF HasWaker, Contains, IsIn
  <2> QED BY <1>13, <2>1, <2>2, WakerFacts
<1>14. do = "stop" => HasWaker(f.conn, f.by)'
  BY <1>1, <1>12 DEF HasWaker
<1>15. TypeOK'
  BY <1>1, <1>7, <1>12 DEF FInv, TypeOK, Posted, Placed
<1>16. SetUp' = SetUp /\ Running' = Running
  BY <1>1 DEF SetUp, Running
<1>17. CallbackInv'
  <2>1. onComplete'[f.conn] \in {f.by, NoTunnel}
    BY <1>12
  <2> QED BY <1>1, <1>2, <1>12, <1>16, <2>1 DEF FInv, CallbackInv
<1>18. QueuedInv'
  <2> SUFFICES ASSUME NEW l \in Loops, NEW x \in Functors, IsIn(x, queue'[l]), x.do \in Callbacks
               PROVE  x.by \in SetUp /\ (x.conn # Server => x.by = x.conn)
    BY <1>16 DEF QueuedInv
  <2>1. x # Functor(do, other, NoTunnel)
    BY <1>4 DEF Functor, Callbacks, Switches
  <2> QED BY <1>9, <2>1 DEF FInv, QueuedInv
<1>19. FreshInv'
  <2> SUFFICES ASSUME NEW t \in Tunnels, tunnel[t] \in {"unused", "connecting"},
                      NEW x \in Functors, IsIn(x, queue'["base"])
               PROVE  ~IsSwitch(x, t)
    BY <1>1 DEF FInv, FreshInv
  <2>1. CASE IsIn(x, queue["base"])
    BY <2>1 DEF FInv, FreshInv
  <2>2. CASE x = Functor(do, other, NoTunnel)
    <3>1. other # t
      BY <1>3
    <3> QED BY <2>2, <3>1 DEF IsSwitch, Functor
  <2> QED BY <1>9, <2>1, <2>2, LoopFacts
<1>20. ClientReaderWakes'
  <2> SUFFICES ASSUME Running, server = "up", ~WillRead(Server)'
               PROVE  \E t \in SetUp : HasWaker(t, t)'
    BY <1>1, <1>16 DEF ClientReaderWakes
  <2>1. CASE other = Server
    <3>1. do = "stop" /\ f.conn = f.by
      BY <1>2, <1>3, <1>11, <2>1
    <3>2. PICK t \in SetUp : t = f.by /\ t = f.conn
      BY <1>2, <3>1
    <3>3. HasWaker(t, t)'
      BY <1>1, <1>12, <3>1, <3>2 DEF HasWaker
    <3> QED BY <3>3
  <2>2. CASE other # Server
    <3>1. ~WillRead(Server)
      BY <1>3, <1>10, <2>2
    <3>2. PICK t \in SetUp : HasWaker(t, t)
      BY <3>1 DEF FInv, ReaderWakes, ClientReaderWakes
    <3>3. t # f.conn
      BY <1>3, <2>2
    <3> QED BY <1>3, <1>13, <3>2, <3>3
  <2> QED BY <2>1, <2>2
<1>21. BackendReaderWakes'
  <2> SUFFICES ASSUME Running, server = "up",
                      NEW t \in Tunnels, SetUp = {t}, tunnel[t] = "up", ~WillRead(t)'
               PROVE  HasWaker(Server, t)'
    BY <1>1, <1>16 DEF BackendReaderWakes
  <2>1. f.by = t
    BY <1>2
  <2>2. CASE f.conn = Server
    <3>1. other = t /\ do = "stop"
      BY <1>11, <2>1, <2>2
    <3> QED BY <1>1, <1>12, <2>1, <2>2, <3>1 DEF HasWaker
  <2>3. CASE f.conn # Server
    <3>1. ~WillRead(t)
      BY <1>3, <1>10, <2>3
    <3>2. HasWaker(Server, t)
      BY <3>1 DEF FInv, ReaderWakes, BackendReaderWakes
    <3> QED BY <1>3, <1>13, <2>3, <3>2
  <2> QED BY <2>2, <2>3
<1> QED BY <1>15, <1>17, <1>18, <1>19, <1>20, <1>21 DEF FInv, ReaderWakes

LEMMA RunPendingInv ==
  ASSUME FInv, NEW l \in Loops, RunPending(l)
  PROVE  FInv'
<1>1. queue \in [Loops -> Seq(Functors)] /\ Placed(queue) /\ queue[l] # <<>>
  BY DEF FInv, TypeOK, Placed, RunPending
<1>2. PICK f : f = Head(queue[l])
  OBVIOUS
<1>3. Taken(queue, HeadTaken(queue, l), f) /\ LoopOf(f.conn) = l
  BY <1>1, <1>2, TakenFacts
<1>4. f \in Functors /\ Popped(f) = HeadTaken(queue, l) /\ Taken(queue, Popped(f), f)
  BY <1>3 DEF Taken, Popped, HeadTaken
<1>5. SwitchRead(f) \/ OnHighWaterMark(f) \/ OnWriteComplete(f)
  BY <1>2 DEF RunPending, SwitchRead, OnHighWaterMark, OnWriteComplete
<1>6. ASSUME NEW cause \in {"nullClient", "closedChannel"}, Die(cause) PROVE FInv'
  BY <1>6, DieInv
<1>7. CASE SwitchRead(f)
  <2>1. CASE Die("closedChannel")
    BY <1>6, <2>1
  <2>2. CASE /\ queue' = Popped(f)
             /\ reading' = IF Open(f.conn) THEN [reading EXCEPT ![f.conn] = (f.do = "start")]
                           ELSE reading
             /\ UNCHANGED <<tunnel, server, out, onHigh, onComplete, fault>>
    <3>1. f.do \in Switches /\ f.do # "complete"
      BY <1>7 DEF SwitchRead, Switches
    <3> QED BY <1>4, <2>2, <3>1, TakenInv
  <2> QED BY <1>7, <2>1, <2>2 DEF SwitchRead
<1>8. CASE OnHighWaterMark(f)
  <2>1. f.do = "high"
    BY <1>8 DEF OnHighWaterMark
  <2>2. CASE Die("nullClient")
    BY <1>6, <2>2
  <2>3. CASE /\ out[f.conn] > 0 /\ tunnel[f.by] = "up"
             /\ queue' = Post(Popped(f), "stop", IF f.conn = Server THEN f.by ELSE Server, NoTunnel)
             /\ onComplete' = [onComplete EXCEPT ![f.conn] = f.by]
             /\ UNCHANGED <<tunnel, server, out, reading, onHigh, fault>>
    <3>1. f.do \in Callbacks
      BY <2>1 DEF Callbacks
    <3> QED BY <1>4, <2>1, <2>3, <3>1, CallbackRunInv
  <2>4. CASE queue' = Popped(f) /\ UNCHANGED <<tunnel, server, connVars, fault>>
    <3>1. f.do \notin Switches /\ f.do # "complete"
      BY <2>1 DEF Switches
    <3>2. reading' = reading /\ UNCHANGED <<tunnel, server, out, onHigh, onComplete, fault>>
      BY <2>4 DEF connVars
    <3> QED BY <1>4, <2>4, <3>1, <3>2, TakenInv
  <2> QED BY <1>8, <2>2, <2>3, <2>4 DEF OnHighWaterMark
<1>9. CASE OnWriteComplete(f)
  <2>1. f.do = "complete"
    BY <1>9 DEF OnWriteComplete
  <2>2. CASE Die("nullClient")
    BY <1>6, <2>2
  <2>3. CASE /\ tunnel[f.by] = "up"
             /\ queue' = Post(Popped(f), "start", IF f.conn = Server THEN f.by ELSE Server, NoTunnel)
             /\ onComplete' = [onComplete EXCEPT ![f.conn] = NoTunnel]
             /\ UNCHANGED <<tunnel, server, out, reading, onHigh, fault>>
    <3>1. f.do \in Callbacks
      BY <2>1 DEF Callbacks
    <3> QED BY <1>4, <2>1, <2>3, <3>1, CallbackRunInv
  <2> QED BY <1>9, <2>2, <2>3 DEF OnWriteComplete
<1> QED BY <1>5, <1>7, <1>8, <1>9

LEMMA SetupInv ==
  ASSUME FInv, NEW t \in Tunnels, Setup(t)
  PROVE  FInv'
<1>1. /\ tunnel[t] = "unused" /\ tunnel' = [tunnel EXCEPT ![t] = "connecting"]
      /\ onHigh' = [onHigh EXCEPT ![Server] = t]
      /\ server' = server /\ out' = out /\ reading' = reading
      /\ onComplete' = onComplete /\ queue' = queue /\ fault' = fault
  BY DEF Setup
<1>2. TypeOK'
  BY <1>1 DEF FInv, TypeOK, Conns
<1>3. /\ \A u \in Tunnels : u # t => tunnel'[u] = tunnel[u]
      /\ tunnel'[t] = "connecting"
      /\ SetUp' = SetUp \cup {t}
  BY <1>1 DEF FInv, TypeOK, SetUp
<1>4. CallbackInv'
  BY <1>1, <1>3 DEF FInv, TypeOK, CallbackInv, Conns
<1>5. QueuedInv'
  BY <1>1, <1>3 DEF FInv, QueuedInv
<1>6. FreshInv'
  BY <1>1, <1>3 DEF FInv, FreshInv
<1>7. /\ \A c : WillRead(c)' = WillRead(c)
      /\ \A c, u : HasWaker(c, u)' = HasWaker(c, u)
      /\ Running' = Running
  BY <1>1 DEF WillRead, HasWaker, Running
<1>8. ClientReaderWakes'
  BY <1>1, <1>3, <1>7 DEF FInv, ReaderWakes, ClientReaderWakes
<1>9. BackendReaderWakes'
  \* A tunnel that is the only one after the step is t, which is not up.
  <2>1. ASSUME NEW u \in Tunnels, SetUp' = {u} PROVE tunnel'[u] # "up"
    BY <1>3, <2>1
  <2> QED BY <2>1 DEF BackendReaderWakes
<1> QED BY <1>2, <1>4, <1>5, <1>6, <1>8, <1>9 DEF FInv, ReaderWakes

LEMMA ConnectionInv ==
  ASSUME FInv, NEW t \in Tunnels, OnClientConnection(t)
  PROVE  FInv'
<1>1. /\ tunnel[t] = "connecting" /\ tunnel' = [tunnel EXCEPT ![t] = "up"]
      /\ onHigh' = [onHigh EXCEPT ![t] = t]
      /\ server' = server /\ out' = out /\ reading' = reading
      /\ onComplete' = onComplete /\ queue' = queue /\ fault' = fault
  BY DEF OnClientConnection
<1>2. TypeOK'
  BY <1>1 DEF FInv, TypeOK, Conns
<1>3. /\ \A u \in Tunnels : u # t => tunnel'[u] = tunnel[u]
      /\ tunnel'[t] = "up" /\ t \in SetUp /\ SetUp' = SetUp
  BY <1>1 DEF FInv, TypeOK, SetUp
<1>4. CallbackInv'
  BY <1>1, <1>3 DEF FInv, TypeOK, CallbackInv, Conns
<1>5. QueuedInv'
  BY <1>1, <1>3 DEF FInv, QueuedInv
<1>6. FreshInv'
  BY <1>1, <1>3 DEF FInv, FreshInv
<1>7. /\ \A c : WillRead(c)' = WillRead(c)
      /\ \A c, u : HasWaker(c, u)' = HasWaker(c, u)
      /\ Running' = Running
  BY <1>1 DEF WillRead, HasWaker, Running
<1>8. ClientReaderWakes'
  BY <1>1, <1>3, <1>7 DEF FInv, ReaderWakes, ClientReaderWakes
<1>9. WillRead(t)
  <2>1. reading[t] /\ \A f \in Functors : IsIn(f, queue["base"]) => ~IsSwitch(f, t)
    BY <1>1 DEF FInv, FreshInv
  <2>2. LoopOf(t) = "base" /\ queue["base"] \in Seq(Functors)
    BY LoopFacts DEF FInv, TypeOK
  <2>3. \A i \in 1..Len(queue["base"]) : ~IsSwitch(queue["base"][i], t)
    BY <2>1, <2>2 DEF IsIn
  <2>4. ReadsAfter(queue["base"], t, reading[t]) = reading[t]
    BY <2>2, <2>3, LastSwitch
  <2> QED BY <2>1, <2>2, <2>4 DEF WillRead
<1>10. BackendReaderWakes'
  BY <1>1, <1>3, <1>7, <1>9 DEF FInv, ReaderWakes, BackendReaderWakes
<1> QED BY <1>2, <1>4, <1>5, <1>6, <1>8, <1>10 DEF FInv, ReaderWakes

LEMMA TeardownInv ==
  ASSUME FInv, NEW t \in Tunnels, Teardown(t)
  PROVE  FInv'
<1>1. /\ tunnel[t] = "up" /\ tunnel' = [tunnel EXCEPT ![t] = "down"]
      /\ server' = IF server = "up" THEN "closing" ELSE server
      /\ onHigh' = onHigh /\ out' = out /\ reading' = reading
      /\ onComplete' = onComplete /\ queue' = queue /\ fault' = fault
  BY DEF Teardown, connVars
<1>2. TypeOK'
  BY <1>1 DEF FInv, TypeOK
<1>3. /\ \A u \in Tunnels : u # t => tunnel'[u] = tunnel[u]
      /\ tunnel'[t] = "down" /\ SetUp' = SetUp
  BY <1>1 DEF FInv, TypeOK, SetUp
<1>4. CallbackInv' /\ QueuedInv' /\ FreshInv'
  BY <1>1, <1>3 DEF FInv, CallbackInv, QueuedInv, FreshInv
<1>5. ReaderWakes'
  BY <1>1 DEF ReaderWakes, ClientReaderWakes, BackendReaderWakes
<1> QED BY <1>2, <1>4, <1>5 DEF FInv

LEMMA ServerDownInv ==
  ASSUME FInv, ServerDown
  PROVE  FInv'
<1>1. /\ server' = "down" /\ tunnel' = tunnel
      /\ onHigh' = onHigh /\ out' = out /\ reading' = reading
      /\ onComplete' = onComplete /\ queue' = queue /\ fault' = fault
  BY DEF ServerDown, connVars
<1>2. TypeOK'
  BY <1>1 DEF FInv, TypeOK
<1>3. CallbackInv' /\ QueuedInv' /\ FreshInv'
  BY <1>1 DEF FInv, CallbackInv, QueuedInv, FreshInv, SetUp
<1>4. ReaderWakes'
  BY <1>1 DEF ReaderWakes, ClientReaderWakes, BackendReaderWakes
<1> QED BY <1>2, <1>3, <1>4 DEF FInv

-----------------------------------------------------------------------------
(* Theorems *)

\* The invariant behind the theorems below: callbacks of onHighWaterMark and
\* onWriteComplete, bound or queued, belong to tunnels that are set up, a connection that
\* was never up has not been stopped, and no wake-up is lost.
THEOREM FlowInvariant == Spec => []FInv
<1>1. Init => FInv
  BY InitInv
<1>2. FInv /\ [Next]_vars => FInv'
  <2> SUFFICES ASSUME FInv, [Next]_vars PROVE FInv'
    OBVIOUS
  <2>1. ASSUME NEW c \in Conns, NEW n \in 1..OutBound, SendInLoop(c, n) PROVE FInv'
    BY <2>1, SendInv
  <2>2. ASSUME NEW c \in Conns, HandleWrite(c) PROVE FInv'
    BY <2>2, WriteInv
  <2>3. ASSUME NEW l \in Loops, RunPending(l) PROVE FInv'
    BY <2>3, RunPendingInv
  <2>4. ASSUME NEW t \in Tunnels, Setup(t) PROVE FInv'
    BY <2>4, SetupInv
  <2>5. ASSUME NEW t \in Tunnels, OnClientConnection(t) PROVE FInv'
    BY <2>5, ConnectionInv
  <2>6. ASSUME NEW t \in Tunnels, Teardown(t) PROVE FInv'
    BY <2>6, TeardownInv
  <2>7. ASSUME ServerDown PROVE FInv'
    BY <2>7, ServerDownInv
  <2>8. CASE UNCHANGED vars
    <3>1. tunnel' = tunnel /\ server' = server /\ out' = out /\ reading' = reading
          /\ onHigh' = onHigh /\ onComplete' = onComplete /\ queue' = queue /\ fault' = fault
      BY <2>8 DEF vars, connVars
    <3> QED BY <3>1 DEF FInv, TypeOK, CallbackInv, QueuedInv, FreshInv, ReaderWakes,
                        ClientReaderWakes, BackendReaderWakes, SetUp, Running, WillRead, HasWaker
  <2> QED BY <2>1, <2>2, <2>3, <2>4, <2>5, <2>6, <2>7, <2>8 DEF Next
<1> QED BY <1>1, <1>2, PTL DEF Spec

\* Connections, callbacks and queued functors keep their types, and a functor is always
\* in the queue of the loop its connection belongs to.
THEOREM TypeCorrect == Spec => []TypeOK
<1>1. FInv => TypeOK
  BY DEF FInv
<1> QED BY <1>1, FlowInvariant, PTL

\* onHighWaterMark and onWriteComplete lose no wake-up: whenever a side will not be read
\* from, the output buffer that caused it still has something to write and its callback
\* set, or the callback is queued.
THEOREM WakeupsKept == Spec => []ReaderWakes
<1>1. FInv => ReaderWakes
  BY DEF FInv
<1> QED BY <1>1, FlowInvariant, PTL
=============================================================================
