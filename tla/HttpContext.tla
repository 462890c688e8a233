---------------------------- MODULE HttpContext ----------------------------
(***************************************************************************)
(* _HttpContext::parseRequest, as solveOnMessage uses it: one context and  *)
(* one copy of the connection's buffer per task, parsed, cut and parsed    *)
(* again until what is left is not a whole request.                        *)
(*                                                                         *)
(* A buffer is a sequence of tokens, each one byte: white space, a colon,  *)
(* a digit or a sign count as themselves, every other token is a word.     *)
(* What the wire carries is given in Init and arrives in pieces cut        *)
(* anywhere, so positions on the wire stand for the buffers: the input     *)
(* buffer holds what is between  rd  and  at , the copy of the running     *)
(* task what is between  from  and  to .                                   *)
(*                                                                         *)
(* A copy is taken when its bytes are read, and its task may run later, in *)
(* any order and again.  One pool thread is enough here: context and copy  *)
(* are a thread's own, and what threads do to each other through the       *)
(* buffer is in RequestRelay, with the assertion that follows a retrieve.  *)
(***************************************************************************)
EXTENDS Integers, Sequences, FiniteSets, SequencesExt

CONSTANTS
  Requests,     \* what clients send: [method, target, headers, body]
  MaxRequests,  \* bound: requests on one connection
  Noise,        \* what they may send instead: any sequences of tokens
  Wrap,         \* unsigned ints count modulo Wrap
  MaxLong,      \* the largest long
  MaxTasks,     \* bound: copies that wait for a thread
  MaxLooks      \* bound: times one request is parsed in one task

ASSUME ParserAssumption ==
  /\ Requests \subseteq [method : Seq(STRING), target : Seq(STRING),
                         headers : Seq(Seq(STRING)), body : Seq(STRING)]
  /\ Noise \subseteq Seq(STRING)
  /\ MaxRequests \in Nat /\ Wrap \in Nat \ {0}
  /\ MaxLong \in Nat /\ Wrap <= MaxLong
  /\ MaxTasks \in Nat /\ MaxLooks \in Nat

VARIABLES
  sent,         \* the requests sent, or <<>> when the wire carries noise
  wire,         \* the bytes of the connection
  rd, at,       \* the input buffer
  connected,    \* conn->connected()
  tasks,        \* copies whose tasks may still be run
  from, to,     \* buff of the running task
  pc,           \* "idle"; "test" and "body" of the loop in solveOnMessage; "dead"
  looks,        \* how often the request at from has been parsed into the context
  context,      \* request_method and request_url
  info,         \* what parseRequest returned
  stale         \* history: a request was taken that the buffer no longer began with

input == <<sent, wire>>
vars == <<input, rd, at, connected, tasks, from, to, pc, looks, context, info, stale>>

CR == "\r"
LF == "\n"
Crlf == <<CR, LF>>

\* A request as bytes.
Render(m) ==
  m.method \o <<" ">> \o m.target \o <<" ", "HTTP/1.1">> \o Crlf
    \o FlattenSeq([i \in DOMAIN m.headers |-> m.headers[i] \o Crlf]) \o Crlf \o m.body

-----------------------------------------------------------------------------
(* The parser.  Positions are 1, 2, ..., and Len(buf) + 1 is buf.end(). *)

\* The first of some positions, or the end.
First(S, end) == Min(S \cup {end})

\* Broken variant: a carriage return alone ends a line.
SearchCr(buf, it) == First({i \in it..Len(buf) : buf[i] = CR}, Len(buf) + 1)

\* std::search for CRLF
Search(buf, it) ==
  First({i \in it..(Len(buf) - 1) : buf[i] = CR /\ buf[i + 1] = LF}, Len(buf) + 1)

\* praseRequestLine: method and url are appended to what the context has.
PraseRequestLine(ctx, line) ==
  LET end == Len(line) + 1
      blank == First({i \in 1..Len(line) : line[i] = " "}, end)
      start == First({i \in blank..Len(line) : line[i] # " "}, end)
      stop == First({i \in start..Len(line) : line[i] = " "}, end)
  IN [ok |-> start < end,
      context |-> [method |-> ctx.method \o SubSeq(line, 1, blank - 1),
                   url |-> ctx.url \o SubSeq(line, start, stop - 1)]]

Digits == <<"0", "1", "2", "3", "4", "5", "6", "7", "8", "9">>
DigitValue(c) == (CHOOSE i \in DOMAIN Digits : Digits[i] = c) - 1
Value(digits) ==
  LET v[n \in 0..Len(digits)] == IF n = 0 THEN 0 ELSE 10 * v[n - 1] + DigitValue(digits[n])
  IN v[Len(digits)]

VT == "vertical tab"
Spaces == {" ", "\t", "\f", VT, CR, LF}

\* What strtol makes of a number outside the range of a long.
Clamp(n) == IF n > MaxLong THEN MaxLong ELSE IF n < -MaxLong - 1 THEN -MaxLong - 1 ELSE n

\* strtol: the number a text starts with; white space and a sign may precede it.
Number(text) ==
  LET end == Len(text) + 1
      start == First({i \in 1..Len(text) : text[i] \notin Spaces}, end)
      signed == start < end /\ text[start] \in {"-", "+"}
      first == IF signed THEN start + 1 ELSE start
      last == First({i \in first..Len(text) : text[i] \notin Range(Digits)}, end) - 1
      n == Value(SubSeq(text, first, last))
  IN Clamp(IF signed /\ text[start] = "-" THEN -n ELSE n)

\* Broken variant: the size of the body is signed.
AtoiSigned(text) == Number(text)

\* atoi, which is strtol cut to an int, into an unsigned int
Atoi(text) == Number(text) % Wrap

Incomplete == [ok |-> FALSE, length |-> 0]

\* Broken variant: without a Content-Length the rest of the buffer is the body.
ExpectBodyRest(buf, it, bodySize) ==
  IF bodySize = 0 THEN [ok |-> TRUE, length |-> Len(buf)]
  ELSE IF Len(buf) - (it - 1) >= bodySize THEN [ok |-> TRUE, length |-> it - 1 + bodySize]
  ELSE Incomplete

\* kExpectBody
ExpectBody(buf, it, bodySize) ==
  IF bodySize = 0 \/ Len(buf) - (it - 1) >= bodySize
  THEN [ok |-> TRUE, length |-> it - 1 + bodySize]
  ELSE Incomplete

\* The loop is at the line that starts at it; crlf is the end of that line.
Loop == [it : Nat, bodySize : Int]
At(it, bodySize) == [it |-> it, bodySize |-> bodySize]
Colon(buf, it, crlf) == First({i \in it..(crlf - 1) : buf[i] = ":"}, crlf)
BodySize(buf, s, crlf) ==
  LET colon == Colon(buf, s.it, crlf)
  IN IF SubSeq(buf, s.it, colon - 1) = <<"Content-Length">>
     THEN Atoi(SubSeq(buf, colon + 1, crlf - 1)) ELSE s.bodySize

\* kExpectHeaders: the first line without a colon ends the headers.
ExpectHeaders(buf) ==
  LET scan[s \in Loop] ==
        LET crlf == Search(buf, s.it)
        IN IF crlf > Len(buf) THEN Incomplete
           ELSE IF Colon(buf, s.it, crlf) = crlf THEN ExpectBody(buf, crlf + 2, s.bodySize)
           ELSE scan[At(crlf + 2, BodySize(buf, s, crlf))]
  IN scan

\* parseRequest: what it returns, and what it leaves in the context.
ParseRequest(ctx, buf) ==
  LET crlf == Search(buf, 1)
      line == PraseRequestLine(ctx, SubSeq(buf, 1, crlf - 1))
  IN IF crlf > Len(buf) THEN [info |-> Incomplete, context |-> ctx]
     ELSE [info |-> IF line.ok THEN ExpectHeaders(buf)[At(crlf + 2, 0)] ELSE Incomplete,
           context |-> line.context]

-----------------------------------------------------------------------------
(* The loop of solveOnMessage. *)

Fresh == [method |-> <<>>, url |-> <<>>]
Bytes(i, j) == SubSeq(wire, i + 1, j)

Init ==
  /\ \/ \E n \in 1..MaxRequests :
          /\ sent \in [1..n -> Requests]
          /\ wire = FlattenSeq([i \in 1..n |-> Render(sent[i])])
     \/ sent = <<>> /\ wire \in Noise
  /\ rd = 0 /\ at = 0 /\ connected = TRUE /\ tasks = {}
  /\ from = 0 /\ to = 0 /\ pc = "idle" /\ looks = 0
  /\ context = Fresh
  /\ info = Incomplete
  /\ stale = FALSE

\* A read event, and the copy of the whole buffer for its task, unless the queue refuses.
Arrive(n) ==
  /\ pc # "dead" /\ at + n <= Len(wire)
  /\ at' = at + n
  /\ \/ Cardinality(tasks) < MaxTasks /\ tasks' = tasks \cup {<<rd, at + n>>}
     \/ UNCHANGED tasks
  /\ UNCHANGED <<input, rd, connected, from, to, pc, looks, context, info, stale>>

\* The connection goes down, or is shut down by another task.
Disconnect ==
  /\ pc # "dead" /\ connected
  /\ connected' = FALSE
  /\ UNCHANGED <<input, rd, at, tasks, from, to, pc, looks, context, info, stale>>

\* A task starts, with a context of its own; the queue may run it again.
SolveOnMessage(task) ==
  /\ pc = "idle"
  /\ tasks' \in {tasks, tasks \ {task}}
  /\ from' = task[1] /\ to' = task[2]
  /\ context' = Fresh /\ looks' = 0
  /\ pc' = "test"
  /\ UNCHANGED <<input, rd, at, connected, info, stale>>

\* The condition of the loop: a connection that is down is not parsed for.
LoopTest ==
  LET parsed == ParseRequest(context, Bytes(from, to))
  IN /\ pc = "test"
     /\ IF connected
        THEN /\ info' = parsed.info
             /\ context' = parsed.context
             /\ looks' = looks + 1
             /\ pc' = IF parsed.info.ok THEN "body" ELSE "idle"
        ELSE pc' = "idle" /\ UNCHANGED <<info, context, looks>>
     /\ UNCHANGED <<input, rd, at, connected, tasks, from, to, stale>>

\* Neither branch for the context of the connection is taken, because the tunnel has gone
\* down between the two tests: back to the condition, without a reset.  (A round that waits
\* for a new tunnel, with isCheck set, changes nothing here.)
LookAgain ==
  /\ pc = "body" /\ looks < MaxLooks
  /\ pc' = "test"
  /\ UNCHANGED <<input, rd, at, connected, tasks, from, to, looks, context, info, stale>>

\* Broken variant: the url survives.
ResetMethod(ctx) == [ctx EXCEPT !.method = <<>>]

\* reset()
Reset(ctx) == [ctx EXCEPT !.method = <<>>, !.url = <<>>]

\* The request is forwarded or answered, and taken from the buffer and the copy; retrieve
\* asserts that the buffer has as many bytes.
TakeRequest ==
  /\ pc = "body"
  /\ IF info.length <= at - rd
     THEN /\ rd' = rd + info.length
          /\ from' = from + info.length
          /\ context' = Reset(context) /\ looks' = 0
          /\ pc' = "test"
          /\ stale' = (stale \/ from # rd)
     ELSE pc' = "dead" /\ UNCHANGED <<rd, from, context, looks, stale>>
  /\ UNCHANGED <<input, at, connected, tasks, to, info>>

Next ==
  \/ \E n \in 1..Len(wire) : Arrive(n)
  \/ \E task \in tasks : SolveOnMessage(task)
  \/ Disconnect \/ LoopTest \/ LookAgain \/ TakeRequest

Spec == Init /\ [][Next]_vars

-----------------------------------------------------------------------------
(* Properties *)

\* A request as a client that keeps to the protocol writes it: no CR in its lines, no
\* blank in method and url, a colon in every header, and a body as long as the last
\* Content-Length says.
LengthsIn(headers, n) == {i \in 1..n : IsPrefix(<<"Content-Length", ":">>, headers[i])}
DeclaredIn(headers, n) ==
  LET lengths == LengthsIn(headers, n)
      h == headers[Max(lengths)]
  IN IF lengths = {} THEN 0 ELSE Number(SubSeq(h, 3, Len(h)))
WellFormed(m) ==
  /\ CR \notin Range(m.method) /\ CR \notin Range(m.target)
  /\ " " \notin Range(m.method) /\ " " \notin Range(m.target) /\ m.target # <<>>
  /\ \A i \in DOMAIN m.headers : CR \notin Range(m.headers[i]) /\ ":" \in Range(m.headers[i])
  /\ Len(m.body) = DeclaredIn(m.headers, Len(m.headers)) /\ Len(m.body) < Wrap

ASSUME RequestAssumption == \A m \in Requests : WellFormed(m)

\* Where request i ends on the wire.
EndOf(i) == Len(FlattenSeq([k \in 1..i |-> Render(sent[k])]))

\* Wherever reads cut the stream, and whenever copies are taken and their tasks run, the
\* loop takes whole requests only, and when it has parsed one once it has that request's
\* method and url and nobody else's: the length handed to send and retrieved from the
\* buffer, and the key of the cache, are those of one request of the client.  While the
\* connection is up it does not stop as long as its copy has a whole request.  Not claimed:
\* method and url of a request that was parsed again without a reset, and anything after a
\* task with a stale copy has taken from the buffer what it never looked at.
SplitsAtRequests ==
  sent # <<>> /\ ~stale =>
    \E i \in 0..Len(sent) :
      /\ from = EndOf(i)
      /\ pc = "body" =>
           /\ i < Len(sent) /\ from + info.length = EndOf(i + 1)
           /\ looks = 1 => context = [method |-> sent[i + 1].method, url |-> sent[i + 1].target]
      /\ pc = "idle" /\ connected /\ i < Len(sent) => to < EndOf(i + 1)

\* parseRequest only ever announces bytes that are in its copy, for any input and any
\* Content-Length, negative and too large for an unsigned int included: buff.erase, which
\* does not check, stays within it.
LengthWithinBuffer == pc = "body" => info.length \in 1..(to - from)

\* Copies of one buffer agree: once a request is complete, bytes that arrive later change
\* neither the verdict nor its length, so the overlapping copies of several tasks see the
\* same first request.
VerdictIsStable ==
  [][LET parse(k) == ParseRequest(Fresh, Bytes(rd, k))
     IN at' > at /\ parse(at).info.ok => parse(at') = parse(at)]_vars

\* The reference: the first request of a buffer by its lines.  A line ends before a CRLF
\* (CrlfAt) and starts after the one before.
CrlfAt(buf) == {i \in 1..(Len(buf) - 1) : buf[i] = CR /\ buf[i + 1] = LF}
LineOf(buf, b) ==
  SubSeq(buf, Max({1} \cup {c + 2 : c \in {x \in CrlfAt(buf) : x < b}}), b - 1)
HeadersOf(buf) == CrlfAt(buf) \ {Min(CrlfAt(buf))}
HeadEnd(buf) == Min({b \in HeadersOf(buf) : ":" \notin Range(LineOf(buf, b))})
Declared(buf) ==
  LET lengths == {b \in HeadersOf(buf) :
                    b < HeadEnd(buf) /\ IsPrefix(<<"Content-Length", ":">>, LineOf(buf, b))}
  IN IF lengths = {} THEN 0
     ELSE LET text == LineOf(buf, Max(lengths)) IN Number(SubSeq(text, 3, Len(text)))
HasHead(buf) ==
  /\ \E b \in CrlfAt(buf) :
       (\E c \in CrlfAt(buf) : c < b) /\ ":" \notin Range(LineOf(buf, b))
  /\ LET line == LineOf(buf, Min(CrlfAt(buf)))
     IN \E i, j \in DOMAIN line : i < j /\ line[i] = " " /\ line[j] # " "
IsWhole(buf) == Len(buf) >= HeadEnd(buf) + 1 + Declared(buf)

\* For any input whose Content-Length fits, parseRequest finds a request complete exactly
\* when the reference does, and ends it where the reference does: after the first line
\* without a colon and as many bytes as the last Content-Length before it says.
ParsesAsReference ==
  LET buf == Bytes(rd, at)
      result == ParseRequest(Fresh, buf).info
  IN IF HasHead(buf)
     THEN Declared(buf) \in 0..(Wrap - 1) =>
            /\ result.ok = IsWhole(buf)
            /\ result.ok => result.length = HeadEnd(buf) + 1 + Declared(buf)
     ELSE ~result.ok
=============================================================================
